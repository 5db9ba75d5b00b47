------------------------- MODULE ClientProtocolProofs -------------------------
(***************************************************************************)
(* Proofs about ClientProtocol, for any capacity of the two directions.    *)
(***************************************************************************)
EXTENDS ClientProtocol, TLAPS

(***************************************************************************)
(* The packets: each is read by its reader as its writer means it.         *)
(***************************************************************************)

Directions == {"to_client", "to_server"}

\* The opcodes of every phase are sequences of names.
LEMMA OpcodesAreSequences ==
  ASSUME NEW phase \in Phases, NEW direction \in Directions
  PROVE  DOMAIN Opcodes[phase][direction] \subseteq Nat
<1>1. /\ DOMAIN Opcodes["preauth"]["to_client"] = 1..2
      /\ DOMAIN Opcodes["preauth"]["to_server"] = 1..1
  BY DEF Opcodes, PreauthOpcodes
<1>2. /\ DOMAIN Opcodes["lobby"]["to_client"] = 1..4
      /\ DOMAIN Opcodes["lobby"]["to_server"] = 1..4
  BY DEF Opcodes, LobbyOpcodes
<1>3. /\ DOMAIN Opcodes["ingame"]["to_client"] = 1..14
      /\ DOMAIN Opcodes["ingame"]["to_server"] = 1..7
  BY DEF Opcodes, InGameOpcodes
<1>4. QED
  BY <1>1, <1>2, <1>3 DEF Phases, Directions

Names(phase, direction) ==
  {Opcodes[phase][direction][i] : i \in DOMAIN Opcodes[phase][direction]}

\* A packet read in the phase it was written for means what it was written for.
LEMMA OwnMeaning ==
  ASSUME NEW phase \in Phases, NEW direction \in Directions, NEW fields,
         NEW name \in Names(phase, direction)
  PROVE  /\ Packet(phase, direction, name, fields).phase = phase
         /\ Packet(phase, direction, name, fields).fields = fields
         /\ Meaning(Packet(phase, direction, name, fields), phase, direction) = name
<1> DEFINE seq == Opcodes[phase][direction]
           at == CHOOSE i \in DOMAIN seq : seq[i] = name
           packet == Packet(phase, direction, name, fields)
<1>1. \E i \in DOMAIN seq : seq[i] = name
  BY DEF Names
<1>2. DOMAIN seq \subseteq Nat
  BY OpcodesAreSequences
<1> HIDE DEF seq
<1>3. at \in DOMAIN seq /\ seq[at] = name
  BY <1>1
<1> HIDE DEF at
<1>4. packet = [phase |-> phase, opcode |-> at - 1, fields |-> fields]
  BY DEF Packet, at, seq
<1>5. packet.opcode + 1 = at
  BY <1>2, <1>3, <1>4
<1>6. packet.phase = phase /\ packet.fields = fields
  BY <1>4
<1> HIDE DEF packet
<1>7. Meaning(packet, phase, direction) = name
  BY <1>3, <1>5 DEF Meaning, seq
<1>8. QED
  BY <1>6, <1>7 DEF packet

\* The names the server writes are opcodes of the phase it writes them in.
LEMMA NamesToClient ==
  /\ {"good_boy_good_keys", "fuck_you_bad_keys"} \subseteq Names("preauth", "to_client")
  /\ {"character_list", "character_selected", "character_created",
      "character_creation_fail"} \subseteq Names("lobby", "to_client")
  /\ {"moved_to_lobby", "user_joined_chat", "user_left_chat", "chat_msg", "whisper_message",
      "friend_online_while_you_login", "friend_login", "friend_leave", "new_friendship",
      "broken_friendship", "friendship_request", "friend_add_fail", "friend_removal_fail",
      "friend_add_result"} \subseteq Names("ingame", "to_client")
<1>1. {"good_boy_good_keys", "fuck_you_bad_keys"} \subseteq Names("preauth", "to_client")
  <2> DEFINE seq == Opcodes["preauth"]["to_client"]
  <2>1. seq[1] = "good_boy_good_keys" /\ seq[2] = "fuck_you_bad_keys" /\ DOMAIN seq = 1..2
    BY DEF Opcodes, PreauthOpcodes
  <2> HIDE DEF seq
  <2>2. QED
    BY <2>1 DEF Names, seq
<1>2. {"character_list", "character_selected", "character_created",
       "character_creation_fail"} \subseteq Names("lobby", "to_client")
  <2> DEFINE seq == Opcodes["lobby"]["to_client"]
  <2>1. /\ seq[1] = "character_list" /\ seq[2] = "character_selected"
        /\ seq[3] = "character_created" /\ seq[4] = "character_creation_fail"
        /\ DOMAIN seq = 1..4
    BY DEF Opcodes, LobbyOpcodes
  <2> HIDE DEF seq
  <2>2. QED
    BY <2>1 DEF Names, seq
<1>3. {"moved_to_lobby", "user_joined_chat", "user_left_chat", "chat_msg", "whisper_message",
      "friend_online_while_you_login", "friend_login", "friend_leave", "new_friendship",
      "broken_friendship", "friendship_request", "friend_add_fail", "friend_removal_fail",
      "friend_add_result"} \subseteq Names("ingame", "to_client")
  <2> DEFINE seq == Opcodes["ingame"]["to_client"]
  <2>1. /\ seq[1] = "moved_to_lobby" /\ seq[2] = "user_joined_chat" /\ seq[3] = "user_left_chat"
        /\ seq[4] = "chat_msg" /\ seq[5] = "whisper_message"
        /\ seq[6] = "friend_online_while_you_login" /\ seq[7] = "friend_login"
        /\ seq[8] = "friend_leave" /\ seq[9] = "new_friendship" /\ seq[10] = "broken_friendship"
        /\ seq[11] = "friendship_request" /\ seq[12] = "friend_add_fail"
        /\ seq[13] = "friend_removal_fail" /\ seq[14] = "friend_add_result"
        /\ DOMAIN seq = 1..14
    BY DEF Opcodes, InGameOpcodes
  <2> HIDE DEF seq
  <2>2. QED
    BY <2>1 DEF Names, seq
<1>4. QED
  BY <1>1, <1>2, <1>3

\* What the client makes of a packet in the phase it was written for.
Understood(packet) ==
  /\ packet.phase \in Phases
  /\ Says(packet) # "unknown"
  /\ packet.fields = ClientReads[packet.phase][Says(packet)]

\* The two answers to a login are understood.
LEMMA PreauthResponses ==
  /\ ok_response.phase = "preauth" /\ Says(ok_response) = "good_boy_good_keys"
  /\ fuck_you_response.phase = "preauth" /\ Says(fuck_you_response) = "fuck_you_bad_keys"
  /\ Understood(ok_response) /\ Understood(fuck_you_response)
<1>1. "preauth" \in Phases /\ "to_client" \in Directions
  BY DEF Phases, Directions
<1>2. /\ ok_response.phase = "preauth" /\ ok_response.fields = << >>
      /\ Says(ok_response) = "good_boy_good_keys"
  BY <1>1, NamesToClient, OwnMeaning DEF ok_response, ToClient, Says
<1>3. /\ fuck_you_response.phase = "preauth" /\ fuck_you_response.fields = << >>
      /\ Says(fuck_you_response) = "fuck_you_bad_keys"
  BY <1>1, NamesToClient, OwnMeaning DEF fuck_you_response, ToClient, Says
<1>4. /\ ClientReads["preauth"]["good_boy_good_keys"] = << >>
      /\ ClientReads["preauth"]["fuck_you_bad_keys"] = << >>
  BY DEF ClientReads, ClientReadsInPreauth
<1>5. QED
  BY <1>1, <1>2, <1>3, <1>4 DEF Understood

LobbyReplies == {character_list, character_created, character_creation_fail}

\* The answers of the lobby are understood.
LEMMA LobbyResponses ==
  /\ character_selected.phase = "lobby" /\ Says(character_selected) = "character_selected"
  /\ \A p \in LobbyReplies : p.phase = "lobby"
  /\ Says(character_list) = "character_list"
  /\ Says(character_created) = "character_created"
  /\ Says(character_creation_fail) = "character_creation_fail"
  /\ \A p \in LobbyReplies \union {character_selected} : Understood(p)
<1>1. "lobby" \in Phases /\ "to_client" \in Directions
  BY DEF Phases, Directions
<1>2. /\ character_selected.phase = "lobby" /\ character_selected.fields = <<"string">>
      /\ Says(character_selected) = "character_selected"
  BY <1>1, NamesToClient, OwnMeaning DEF character_selected, ToClient, Says
<1>3. /\ character_list.phase = "lobby" /\ character_list.fields = <<"size", "characters">>
      /\ Says(character_list) = "character_list"
  BY <1>1, NamesToClient, OwnMeaning DEF character_list, ToClient, Says
<1>4. /\ character_created.phase = "lobby" /\ character_created.fields = <<"unsigned", "string">>
      /\ Says(character_created) = "character_created"
  BY <1>1, NamesToClient, OwnMeaning DEF character_created, ToClient, Says
<1>5. /\ character_creation_fail.phase = "lobby" /\ character_creation_fail.fields = <<"enum">>
      /\ Says(character_creation_fail) = "character_creation_fail"
  BY <1>1, NamesToClient, OwnMeaning DEF character_creation_fail, ToClient, Says
<1>6. /\ ClientReads["lobby"]["character_list"] = <<"size", "characters">>
      /\ ClientReads["lobby"]["character_selected"] = <<"string">>
      /\ ClientReads["lobby"]["character_created"] = <<"unsigned", "string">>
      /\ ClientReads["lobby"]["character_creation_fail"] = <<"enum">>
  BY DEF ClientReads, ClientReadsInLobby
<1>7. QED
  BY <1>1, <1>2, <1>3, <1>4, <1>5, <1>6 DEF Understood, LobbyReplies

\* The packet that ends a visit to the world is understood.
LEMMA LeavingResponse ==
  /\ moved_to_lobby.phase = "ingame" /\ Says(moved_to_lobby) = "moved_to_lobby"
  /\ Understood(moved_to_lobby)
<1>1. "ingame" \in Phases /\ "to_client" \in Directions
  BY DEF Phases, Directions
<1>2. /\ moved_to_lobby.phase = "ingame" /\ moved_to_lobby.fields = << >>
      /\ Says(moved_to_lobby) = "moved_to_lobby"
  BY <1>1, NamesToClient, OwnMeaning DEF moved_to_lobby, ToClient, Says
<1>3. ClientReads["ingame"]["moved_to_lobby"] = << >>
  BY DEF ClientReads, ClientReadsInGame
<1>4. QED
  BY <1>1, <1>2, <1>3 DEF Understood

\* One piece of news after the other.
Reported(packet, name, fields) ==
  /\ name \notin {"unknown", "good_boy_good_keys", "fuck_you_bad_keys", "character_selected",
                  "moved_to_lobby"}
  /\ packet.phase = "ingame" /\ Says(packet) = name /\ packet.fields = fields
  /\ ClientReads["ingame"][name] = fields

\* What the client reads of each piece of news is what was written.
LEMMA NewsReported ==
  /\ Reported(user_joined_chat, "user_joined_chat", <<"string", "string">>)
  /\ Reported(user_left_chat, "user_left_chat", <<"string", "string">>)
  /\ Reported(chat_msg, "chat_msg", <<"string", "string", "string">>)
  /\ Reported(whisper_message, "whisper_message", <<"string", "string">>)
  /\ Reported(friend_online_while_you_login, "friend_online_while_you_login", <<"string">>)
  /\ Reported(friend_login, "friend_login", <<"string">>)
  /\ Reported(friend_leave, "friend_leave", <<"string">>)
  /\ Reported(new_friendship, "new_friendship", <<"string">>)
  /\ Reported(broken_friendship, "broken_friendship", <<"string">>)
  /\ Reported(friendship_request, "friendship_request", <<"string">>)
  /\ Reported(friend_add_fail, "friend_add_fail", <<"enum", "string">>)
  /\ Reported(friend_removal_fail, "friend_removal_fail", <<"string">>)
  /\ Reported(friend_add_result, "friend_add_result", <<"enum", "string">>)
<1>0. "ingame" \in Phases /\ "to_client" \in Directions
  BY DEF Phases, Directions
<1> USE NamesToClient, OwnMeaning DEF Reported, ToClient, Says
<1>1. Reported(user_joined_chat, "user_joined_chat", <<"string", "string">>)
  BY <1>0 DEF user_joined_chat, ClientReads, ClientReadsInGame
<1>2. Reported(user_left_chat, "user_left_chat", <<"string", "string">>)
  BY <1>0 DEF user_left_chat, ClientReads, ClientReadsInGame
<1>3. Reported(chat_msg, "chat_msg", <<"string", "string", "string">>)
  BY <1>0 DEF chat_msg, ClientReads, ClientReadsInGame
<1>4. Reported(whisper_message, "whisper_message", <<"string", "string">>)
  BY <1>0 DEF whisper_message, ClientReads, ClientReadsInGame
<1>5. Reported(friend_online_while_you_login, "friend_online_while_you_login", <<"string">>)
  BY <1>0 DEF friend_online_while_you_login, ClientReads, ClientReadsInGame
<1>6. Reported(friend_login, "friend_login", <<"string">>)
  BY <1>0 DEF friend_login, ClientReads, ClientReadsInGame
<1>7. Reported(friend_leave, "friend_leave", <<"string">>)
  BY <1>0 DEF friend_leave, ClientReads, ClientReadsInGame
<1>8. Reported(new_friendship, "new_friendship", <<"string">>)
  BY <1>0 DEF new_friendship, ClientReads, ClientReadsInGame
<1>9. Reported(broken_friendship, "broken_friendship", <<"string">>)
  BY <1>0 DEF broken_friendship, ClientReads, ClientReadsInGame
<1>10. Reported(friendship_request, "friendship_request", <<"string">>)
  BY <1>0 DEF friendship_request, ClientReads, ClientReadsInGame
<1>11. Reported(friend_add_fail, "friend_add_fail", <<"enum", "string">>)
  BY <1>0 DEF friend_add_fail, ClientReads, ClientReadsInGame
<1>12. Reported(friend_removal_fail, "friend_removal_fail", <<"string">>)
  BY <1>0 DEF friend_removal_fail, ClientReads, ClientReadsInGame
<1>13. Reported(friend_add_result, "friend_add_result", <<"enum", "string">>)
  BY <1>0 DEF friend_add_result, ClientReads, ClientReadsInGame
<1>14. QED
  BY <1>1, <1>2, <1>3, <1>4, <1>5, <1>6, <1>7, <1>8, <1>9, <1>10, <1>11, <1>12, <1>13

\* All news are understood, and none moves the client.
LEMMA NewsUnderstood ==
  ASSUME NEW packet \in News
  PROVE  /\ packet.phase = "ingame" /\ Understood(packet)
         /\ Says(packet) \notin {"good_boy_good_keys", "fuck_you_bad_keys",
                                 "character_selected", "moved_to_lobby"}
<1>1. PICK name, fields : Reported(packet, name, fields)
  BY NewsReported DEF News
<1>2. "ingame" \in Phases
  BY DEF Phases
<1>3. QED
  BY <1>1, <1>2 DEF Reported, Understood

ServerPackets ==
  {ok_response, fuck_you_response, character_selected, moved_to_lobby} \union LobbyReplies \union News

\* The phase in which the client reads what comes behind a packet.
After(packet) == IF MovesClient(packet) THEN LeadsTo(packet) ELSE packet.phase

\* What is needed of the packets below: their phases and where they lead.
LEMMA PacketFacts ==
  /\ \A p \in ServerPackets : Understood(p)
  /\ ok_response.phase = "preauth" /\ MovesClient(ok_response) /\ LeadsTo(ok_response) = "lobby"
  /\ fuck_you_response.phase = "preauth" /\ ~MovesClient(fuck_you_response)
  /\ \A p \in LobbyReplies : p.phase = "lobby" /\ ~MovesClient(p)
  /\ /\ character_selected.phase = "lobby" /\ MovesClient(character_selected)
     /\ LeadsTo(character_selected) = "ingame"
  /\ /\ moved_to_lobby.phase = "ingame" /\ MovesClient(moved_to_lobby)
     /\ LeadsTo(moved_to_lobby) = "lobby"
  /\ \A p \in News : p.phase = "ingame" /\ ~MovesClient(p)
<1>1. \A p \in ServerPackets : Understood(p)
  BY PreauthResponses, LobbyResponses, LeavingResponse, NewsUnderstood DEF ServerPackets
<1>2. \A p \in LobbyReplies : p.phase = "lobby" /\ ~MovesClient(p)
  BY LobbyResponses DEF LobbyReplies, MovesClient
<1>3. \A p \in News : p.phase = "ingame" /\ ~MovesClient(p)
  BY NewsUnderstood DEF MovesClient
<1>4. QED
  BY <1>1, <1>2, <1>3, PreauthResponses, LobbyResponses, LeavingResponse DEF MovesClient, LeadsTo

\* Where the client goes with a packet.
LEMMA ReadingMoves ==
  ASSUME NEW p \in ServerPackets, p.phase = cs
  PROVE  NextPhase(Meaning(p, cs, "to_client")) = After(p)
BY DEF NextPhase, After, MovesClient, LeadsTo, Says

(***************************************************************************)
(* Packets behind each other.                                              *)
(***************************************************************************)

\* Each packet is written for the phase in which it will be read: the first for
\* the phase at the start, the others for the phase the one before leads to.
Chain(packets, start) ==
  \A i \in 1..Len(packets) :
    packets[i].phase = IF i = 1 THEN start ELSE After(packets[i - 1])

End(packets, start) == IF packets = << >> THEN start ELSE After(packets[Len(packets)])

\* The last packet that moves the client leads to the goal, as in PhasesMeet.
Meets(packets, start, goal) ==
  LET moves == {i \in DOMAIN packets : MovesClient(packets[i])}
  IN /\ moves = {} => start = goal
     /\ \A i \in moves : (\A j \in moves : j <= i) => LeadsTo(packets[i]) = goal

\* A chain followed by one that begins where it ends is a chain.
LEMMA ChainConcat ==
  ASSUME NEW S, NEW s \in Seq(S), NEW t \in Seq(S), NEW start,
         Chain(s, start), Chain(t, End(s, start))
  PROVE  Chain(s \o t, start) /\ End(s \o t, start) = End(t, End(s, start))
<1> DEFINE u == s \o t
<1>1. /\ u \in Seq(S) /\ Len(u) = Len(s) + Len(t) /\ Len(s) \in Nat /\ Len(t) \in Nat
      /\ \A i \in 1..Len(s) : u[i] = s[i]
      /\ \A i \in (Len(s) + 1)..(Len(s) + Len(t)) : u[i] = t[i - Len(s)]
  OBVIOUS
<1>2. s = << >> <=> Len(s) = 0
  OBVIOUS
<1>3. t = << >> <=> Len(t) = 0
  OBVIOUS
<1>4. u = << >> <=> Len(u) = 0
  BY <1>1
<1> HIDE DEF u
<1>5. ASSUME NEW i \in 1..Len(u) PROVE u[i].phase = IF i = 1 THEN start ELSE After(u[i - 1])
  <2>0. i \in Nat /\ i >= 1 /\ i <= Len(s) + Len(t)
    BY <1>1
  <2>1. CASE i <= Len(s)
    <3>1. i \in 1..Len(s) /\ u[i] = s[i]
      BY <1>1, <2>0, <2>1
    <3>2. s[i].phase = IF i = 1 THEN start ELSE After(s[i - 1])
      BY <3>1 DEF Chain
    <3>3. i # 1 => u[i - 1] = s[i - 1]
      <4>1. i # 1 => i - 1 \in 1..Len(s)
        BY <1>1, <2>0, <2>1
      <4>2. QED
        BY <1>1, <4>1
    <3>4. QED
      BY <3>1, <3>2, <3>3
  <2>2. CASE i = Len(s) + 1
    <3>1. u[i] = t[1] /\ t[1].phase = End(s, start) /\ 1 \in 1..Len(t)
      BY <1>1, <2>2 DEF Chain
    <3>2. CASE Len(s) = 0
      BY <1>2, <2>2, <3>1, <3>2 DEF End
    <3>3. CASE Len(s) > 0
      <4>1. i # 1 /\ i - 1 = Len(s) /\ u[Len(s)] = s[Len(s)] /\ s # << >>
        BY <1>1, <1>2, <2>2, <3>3
      <4>2. QED
        BY <3>1, <4>1 DEF End
    <3>4. QED
      BY <1>1, <3>2, <3>3
  <2>3. CASE i > Len(s) + 1
    <3> DEFINE k == i - Len(s)
    <3>1. k \in Nat /\ k > 1 /\ k <= Len(t) /\ i = k + Len(s) /\ i # 1
      BY <1>1, <2>0, <2>3
    <3> HIDE DEF k
    <3>2. k \in 1..Len(t) /\ k - 1 \in 1..Len(t) /\ i - Len(s) = k /\ (i - 1) - Len(s) = k - 1
      BY <1>1, <3>1
    <3>3. i - 1 \in (Len(s) + 1)..(Len(s) + Len(t)) /\ i \in (Len(s) + 1)..(Len(s) + Len(t))
      BY <1>1, <2>0, <2>3
    <3>4. u[i] = t[k] /\ u[i - 1] = t[k - 1]
      BY <1>1, <3>2, <3>3
    <3>5. t[k].phase = After(t[k - 1])
      BY <3>1, <3>2 DEF Chain
    <3>6. QED
      BY <3>1, <3>4, <3>5
  <2>4. QED
    BY <1>1, <2>0, <2>1, <2>2, <2>3
<1>6. End(u, start) = End(t, End(s, start))
  <2>1. CASE Len(t) = 0
    BY <1>1, <1>2, <1>3, <1>4, <2>1 DEF End
  <2>2. CASE Len(t) > 0
    <3>1. u[Len(u)] = t[Len(t)]
      BY <1>1, <2>2
    <3>2. QED
      BY <1>1, <1>3, <1>4, <2>2, <3>1 DEF End
  <2>3. QED
    BY <1>1, <2>1, <2>2
<1>7. QED
  BY <1>5, <1>6 DEF Chain, u

\* A chain without its first packet is a chain from where that packet leads.
LEMMA ChainTail ==
  ASSUME NEW S, NEW s \in Seq(S), s # << >>, NEW start, Chain(s, start)
  PROVE  /\ Head(s) \in S /\ Tail(s) \in Seq(S) /\ Head(s).phase = start
         /\ Chain(Tail(s), After(Head(s)))
         /\ End(Tail(s), After(Head(s))) = End(s, start)
<1> DEFINE u == Tail(s)
<1>1. /\ Len(s) \in Nat /\ Len(s) > 0 /\ Head(s) = s[1] /\ Head(s) \in S
      /\ u \in Seq(S) /\ Len(u) = Len(s) - 1
      /\ \A i \in 1..Len(u) : u[i] = s[i + 1]
  OBVIOUS
<1>2. u = << >> <=> Len(u) = 0
  BY <1>1
<1> HIDE DEF u
<1>3. Head(s).phase = start
  BY <1>1 DEF Chain
<1>4. ASSUME NEW i \in 1..Len(u)
      PROVE  u[i].phase = IF i = 1 THEN After(Head(s)) ELSE After(u[i - 1])
  <2>1. i + 1 \in 1..Len(s) /\ i + 1 # 1 /\ (i + 1) - 1 = i
    BY <1>1
  <2>2. u[i].phase = After(s[i])
    BY <1>1, <2>1 DEF Chain
  <2>3. CASE i = 1
    BY <1>1, <2>2, <2>3
  <2>4. CASE i # 1
    <3>1. i - 1 \in 1..Len(u) /\ (i - 1) + 1 = i
      BY <1>1, <2>4
    <3>2. QED
      BY <1>1, <2>2, <2>4, <3>1
  <2>5. QED
    BY <2>3, <2>4
<1>5. End(u, After(Head(s))) = End(s, start)
  <2>1. CASE Len(u) = 0
    <3>1. Len(s) = 1
      BY <1>1, <2>1
    <3>2. s[Len(s)] = Head(s)
      BY <1>1, <3>1
    <3>3. End(u, After(Head(s))) = After(Head(s))
      BY <1>2, <2>1 DEF End
    <3>4. QED
      BY <3>2, <3>3 DEF End
  <2>2. CASE Len(u) # 0
    <3>1. u[Len(u)] = s[Len(s)]
      BY <1>1, <2>2
    <3>2. QED
      BY <1>2, <2>2, <3>1 DEF End
  <2>3. QED
    BY <2>1, <2>2
<1>6. QED
  BY <1>1, <1>3, <1>4, <1>5 DEF Chain, u

\* Packets that lead to the start of others lead to their goal with them.
LEMMA MeetsConcat ==
  ASSUME NEW S, NEW s \in Seq(S), NEW t \in Seq(S), NEW start, NEW middle, NEW goal,
         Meets(s, start, middle), Meets(t, middle, goal)
  PROVE  Meets(s \o t, start, goal)
<1> DEFINE u == s \o t
           inS == {i \in DOMAIN s : MovesClient(s[i])}
           inT == {i \in DOMAIN t : MovesClient(t[i])}
           inU == {i \in DOMAIN u : MovesClient(u[i])}
<1>1. /\ Len(s) \in Nat /\ Len(t) \in Nat
      /\ DOMAIN s = 1..Len(s) /\ DOMAIN t = 1..Len(t) /\ DOMAIN u = 1..(Len(s) + Len(t))
      /\ \A i \in 1..Len(s) : u[i] = s[i]
      /\ \A i \in (Len(s) + 1)..(Len(s) + Len(t)) : u[i] = t[i - Len(s)]
      /\ \A i \in 1..Len(t) : u[i + Len(s)] = t[i]
  OBVIOUS
<1>2. /\ inS = {} => start = middle
      /\ \A i \in inS : (\A j \in inS : j <= i) => LeadsTo(s[i]) = middle
      /\ inT = {} => middle = goal
      /\ \A i \in inT : (\A j \in inT : j <= i) => LeadsTo(t[i]) = goal
  BY DEF Meets
<1> HIDE DEF u
<1>3. \A i \in inS : i \in inU
  BY <1>1
<1>4. \A i \in inT : i + Len(s) \in inU
  BY <1>1
<1>5. \A i \in inU : \/ i \in inS /\ u[i] = s[i] /\ i <= Len(s)
                     \/ i - Len(s) \in inT /\ u[i] = t[i - Len(s)] /\ i > Len(s)
  BY <1>1
<1>6. inS \subseteq Nat /\ inT \subseteq Nat \ {0} /\ inU \subseteq Nat
  BY <1>1
<1> HIDE DEF inS, inT, inU
<1>7. inU = {} => start = goal
  BY <1>2, <1>3, <1>4
<1>8. ASSUME NEW i \in inU, \A j \in inU : j <= i PROVE LeadsTo(u[i]) = goal
  <2>1. CASE i \in inS /\ u[i] = s[i] /\ i <= Len(s)
    <3>1. inT = {}
      <4> SUFFICES ASSUME NEW j \in inT PROVE FALSE
        OBVIOUS
      <4>1. j + Len(s) <= i
        BY <1>4, <1>8
      <4>2. QED
        BY <1>1, <1>6, <2>1, <4>1
    <3>2. \A j \in inS : j <= i
      BY <1>3, <1>8
    <3>3. QED
      BY <1>2, <2>1, <3>1, <3>2
  <2>2. CASE i - Len(s) \in inT /\ u[i] = t[i - Len(s)] /\ i > Len(s)
    <3>1. ASSUME NEW j \in inT PROVE j <= i - Len(s)
      <4>1. j + Len(s) <= i
        BY <1>4, <1>8
      <4>2. QED
        BY <1>1, <1>6, <4>1
    <3>2. QED
      BY <1>2, <2>2, <3>1
  <2>3. QED
    BY <1>5, <2>1, <2>2
<1>9. QED
  BY <1>7, <1>8 DEF Meets, u, inU

\* Without their first packet they lead to the same goal from where it leads.
LEMMA MeetsTail ==
  ASSUME NEW S, NEW s \in Seq(S), s # << >>, NEW start, NEW goal, Meets(s, start, goal)
  PROVE  Meets(Tail(s), IF MovesClient(Head(s)) THEN LeadsTo(Head(s)) ELSE start, goal)
<1> DEFINE u == Tail(s)
           inS == {i \in DOMAIN s : MovesClient(s[i])}
           inU == {i \in DOMAIN u : MovesClient(u[i])}
<1>1. /\ Len(s) \in Nat /\ Len(s) > 0 /\ Head(s) = s[1]
      /\ DOMAIN s = 1..Len(s) /\ DOMAIN u = 1..(Len(s) - 1)
      /\ \A i \in 1..(Len(s) - 1) : u[i] = s[i + 1]
  OBVIOUS
<1>2. /\ inS = {} => start = goal
      /\ \A i \in inS : (\A j \in inS : j <= i) => LeadsTo(s[i]) = goal
  BY DEF Meets
<1> HIDE DEF u
<1>3. \A i \in inU : i + 1 \in inS /\ u[i] = s[i + 1]
  BY <1>1
<1>4. \A i \in inS : i = 1 \/ i - 1 \in inU
  BY <1>1
<1>5. 1 \in inS <=> MovesClient(Head(s))
  BY <1>1
<1>6. inS \subseteq Nat \ {0} /\ inU \subseteq Nat \ {0}
  BY <1>1
<1> HIDE DEF inS, inU
<1>7. inU = {} => (IF MovesClient(Head(s)) THEN LeadsTo(Head(s)) ELSE start) = goal
  <2> SUFFICES ASSUME inU = {}
               PROVE  (IF MovesClient(Head(s)) THEN LeadsTo(Head(s)) ELSE start) = goal
    OBVIOUS
  <2>1. \A i \in inS : i = 1
    BY <1>4
  <2>2. CASE MovesClient(Head(s))
    BY <1>1, <1>2, <1>5, <2>1, <2>2
  <2>3. CASE ~MovesClient(Head(s))
    BY <1>2, <1>5, <2>1, <2>3
  <2>4. QED
    BY <2>2, <2>3
<1>8. ASSUME NEW i \in inU, \A j \in inU : j <= i PROVE LeadsTo(u[i]) = goal
  <2>1. ASSUME NEW j \in inS PROVE j <= i + 1
    BY <1>4, <1>6, <1>8
  <2>2. QED
    BY <1>2, <1>3, <2>1
<1>9. QED
  BY <1>7, <1>8 DEF Meets, u, inU

\* What the server says at one time: nothing, a packet, two packets.
LEMMA SpeakNothing ==
  ASSUME NEW phase
  PROVE  Chain(<< >>, phase) /\ End(<< >>, phase) = phase /\ Meets(<< >>, phase, phase)
BY DEF Chain, End, Meets

\* One packet is a chain from its phase.
LEMMA SpeakOne ==
  ASSUME NEW p, NEW phase, p.phase = phase
  PROVE  Chain(<<p>>, phase) /\ End(<<p>>, phase) = After(p) /\ Meets(<<p>>, phase, After(p))
<1>1. DOMAIN <<p>> = {1} /\ Len(<<p>>) = 1 /\ <<p>>[1] = p
  OBVIOUS
<1>2. Chain(<<p>>, phase)
  BY <1>1 DEF Chain
<1>3. End(<<p>>, phase) = After(p)
  BY <1>1 DEF End
<1>4. Meets(<<p>>, phase, After(p))
  BY <1>1 DEF Meets, After
<1>5. QED
  BY <1>2, <1>3, <1>4

\* Two packets are one, if the second is written for where the first leads.
LEMMA SpeakTwo ==
  ASSUME NEW p, NEW q, NEW phase, p.phase = phase, q.phase = After(p)
  PROVE  Chain(<<p, q>>, phase) /\ End(<<p, q>>, phase) = After(q) /\ Meets(<<p, q>>, phase, After(q))
<1> DEFINE s == <<p, q>>
<1>1. DOMAIN s = 1..2 /\ Len(s) = 2 /\ s[1] = p /\ s[2] = q /\ s # << >>
  OBVIOUS
<1> HIDE DEF s
<1>2. Chain(s, phase)
  <2> SUFFICES ASSUME NEW i \in 1..2
               PROVE  s[i].phase = IF i = 1 THEN phase ELSE After(s[i - 1])
    BY <1>1 DEF Chain
  <2>1. i = 1 \/ (i = 2 /\ i - 1 = 1)
    OBVIOUS
  <2>2. QED
    BY <1>1, <2>1
<1>3. End(s, phase) = After(q)
  BY <1>1 DEF End
<1>4. Meets(s, phase, After(q))
  <2> DEFINE moves == {i \in DOMAIN s : MovesClient(s[i])}
  <2>1. /\ 1 \in moves <=> MovesClient(p)
        /\ 2 \in moves <=> MovesClient(q)
        /\ moves \subseteq {1, 2}
    BY <1>1
  <2> HIDE DEF moves
  <2>2. moves = {} => phase = After(q)
    BY <2>1 DEF After
  <2>3. ASSUME NEW i \in moves, \A j \in moves : j <= i PROVE LeadsTo(s[i]) = After(q)
    <3>1. CASE MovesClient(q)
      <4>1. i = 2
        BY <2>1, <2>3, <3>1
      <4>2. QED
        BY <1>1, <3>1, <4>1 DEF After
    <3>2. CASE ~MovesClient(q)
      <4>1. i = 1 /\ MovesClient(p)
        BY <2>1, <2>3, <3>2
      <4>2. QED
        BY <1>1, <3>2, <4>1 DEF After
    <3>3. QED
      BY <3>1, <3>2
  <2>4. QED
    BY <2>2, <2>3 DEF Meets, moves
<1>5. QED
  BY <1>2, <1>3, <1>4 DEF s

(***************************************************************************)
(* The wire to the client.                                                 *)
(***************************************************************************)

Connected == Running /\ link = "up" /\ my_sock = "open"

\* Everything on the wire will be read in the phase it was written for, and at
\* its end the client meets the server.
WireInv ==
  /\ to_client \in Seq(ServerPackets) /\ Len(to_client) <= Capacity
  /\ Chain(to_client, cs)
  /\ Connected => End(to_client, cs) = ServerPhase /\ Meets(to_client, cs, ServerPhase)
  /\ ~Running => to_client = << >>

\* Whatever the server says in its phase keeps the wire in order, if it goes on
\* in the phase its last packet leads to or closes the session.
LEMMA ServerSpeaks ==
  ASSUME WireInv, NEW packets \in Seq(ServerPackets), Send(packets),
         Chain(packets, ServerPhase), Meets(packets, ServerPhase, End(packets, ServerPhase)),
         cs' = cs, client' = client, link' = link,
         my_sock' = "open" => my_sock = "open" /\ ServerPhase' = End(packets, ServerPhase)
  PROVE  WireInv'
<1>1. Running' = Running /\ (Connected' => Connected)
  BY DEF Running, Connected
<1>2. CASE Connected
  <2>1. /\ to_client' = to_client \o packets
        /\ Len(to_client) + Len(packets) <= Capacity
    BY <1>2 DEF Send, Connected
  <2>2. to_client' \in Seq(ServerPackets) /\ Len(to_client') <= Capacity
    BY <2>1 DEF WireInv
  <2>3. End(to_client, cs) = ServerPhase /\ Meets(to_client, cs, ServerPhase)
    BY <1>2 DEF WireInv
  <2>4. /\ Chain(to_client', cs)
        /\ End(to_client', cs) = End(packets, ServerPhase)
    BY <2>1, <2>3, ChainConcat DEF WireInv
  <2>5. Meets(to_client', cs, End(packets, ServerPhase))
    BY <2>1, <2>3, MeetsConcat DEF WireInv
  <2>6. ServerPhase' = End(packets, ServerPhase) \/ ~Connected'
    BY DEF Connected
  <2>7. Running'
    BY <1>1, <1>2 DEF Connected
  <2>8. QED
    BY <2>2, <2>4, <2>5, <2>6, <2>7 DEF WireInv
<1>3. CASE ~Connected
  <2>1. to_client' = to_client
    BY <1>3 DEF Send, Connected
  <2>2. QED
    BY <1>1, <1>3, <2>1 DEF WireInv
<1>4. QED
  BY <1>2, <1>3

\* The client's process ends, and with it what it has not read.
LEMMA ExitEmptiesWire ==
  ASSUME Exit PROVE WireInv'
<1>1. to_client' = << >> /\ ~Running' /\ ~Connected'
  BY DEF Exit, Running, Users, Connected
<1>2. Len(to_client') <= Capacity /\ to_client' \in Seq(ServerPackets)
  BY <1>1, ProtocolAssumption
<1>3. QED
  BY <1>1, <1>2 DEF WireInv, Chain

\* The client reads the packet at the head.
LEMMA ReadingKeepsWire ==
  ASSUME WireInv, to_client # << >>, to_client' = Tail(to_client),
         cs' = NextPhase(Meaning(Head(to_client), cs, "to_client")),
         UNCHANGED <<client, link, server_side>>
  PROVE  WireInv'
<1> DEFINE p == Head(to_client)
<1>1. /\ p \in ServerPackets /\ to_client' \in Seq(ServerPackets) /\ p.phase = cs
      /\ Chain(to_client', After(p)) /\ End(to_client', After(p)) = End(to_client, cs)
  BY ChainTail DEF WireInv
<1>2. cs' = After(p)
  BY <1>1, ReadingMoves
<1>3. After(p) = IF MovesClient(p) THEN LeadsTo(p) ELSE cs
  BY <1>1 DEF After
<1>4. Len(to_client') <= Capacity
  BY ProtocolAssumption DEF WireInv
<1>5. ServerPhase' = ServerPhase /\ Connected' = Connected /\ Running' = Running
  BY DEF server_side, ServerPhase, InWorld, Connected, Running
<1>6. Connected => Meets(to_client', cs', ServerPhase)
  BY <1>2, <1>3, MeetsTail DEF WireInv
<1>7. ~Running => to_client' = << >>
  BY DEF WireInv
<1>8. QED
  BY <1>1, <1>2, <1>4, <1>5, <1>6, <1>7 DEF WireInv

(***************************************************************************)
(* The conversation: types, the server's side, and the wire.               *)
(***************************************************************************)

Commands == {LoginPacket} \union LobbyCommands \union InGameCommands

VarsOK ==
  /\ client \in Users \union {"exited"}
  /\ cs \in Phases
  /\ asked \in BOOLEAN
  /\ link \in {"up", "lost"}
  /\ my_sock \in {"open", "null", "none"}
  /\ current_state \in Phases \union {"none"}
  /\ awaiting \in Phases \union {"none"}
  /\ next \in {"none", "read", "transition", "finalize", "query", "lobby_chars"}

CommandsOK ==
  /\ command \in {<< >>} \union {<<c>> : c \in Commands}
  /\ to_server \in Seq(Commands) /\ Len(to_server) <= Pipelined

\* In which state the server is when this runs next.
ServerFits ==
  /\ next = "read" => my_sock = "open" /\ current_state \in Phases /\ awaiting = "none"
  /\ next = "transition" => /\ my_sock = "open"
                            /\ \/ current_state = "preauth" /\ awaiting = "lobby"
                               \/ current_state = "lobby" /\ awaiting = "ingame"
                               \/ current_state = "ingame" /\ awaiting = "lobby"
  /\ next \in {"query", "lobby_chars"} =>
       my_sock = "open" /\ current_state = "lobby" /\ awaiting = "none"
  /\ next = "finalize" => my_sock = "null" /\ awaiting = "none" /\ current_state \in Phases
  /\ next = "none" => my_sock = "none" /\ awaiting = "none" /\ current_state = "none"

TalkInv == VarsOK /\ CommandsOK /\ ServerFits /\ WireInv

\* Nothing has been said in the beginning.
LEMMA TalkStart == ProtocolInit => TalkInv
<1> SUFFICES ASSUME ProtocolInit PROVE TalkInv
  OBVIOUS
<1>1. VarsOK /\ ServerFits
  BY DEF ProtocolInit, VarsOK, ServerFits, Phases
<1>2. CommandsOK
  BY ProtocolAssumption DEF ProtocolInit, CommandsOK
<1>3. ~Running /\ ~Connected
  BY DEF ProtocolInit, Running, Users, Connected
<1>4. WireInv
  BY <1>3, ProtocolAssumption DEF ProtocolInit, WireInv, Chain
<1>5. QED
  BY <1>1, <1>2, <1>4 DEF TalkInv

\* What is typed and what is sent are commands.
LEMMA CommandsStep == VarsOK /\ CommandsOK /\ [ProtocolNext]_protocol_vars => CommandsOK'
<1> SUFFICES ASSUME VarsOK, CommandsOK, [ProtocolNext]_protocol_vars PROVE CommandsOK'
  OBVIOUS
<1> USE ProtocolAssumption DEF CommandsOK
<1>1. ASSUME UNCHANGED <<command, to_server>> PROVE CommandsOK'
  BY <1>1
<1>2. ASSUME command' = << >>, UNCHANGED to_server PROVE CommandsOK'
  BY <1>2
<1>3. ASSUME NEW state, Receive(state) PROVE CommandsOK'
  BY <1>3 DEF Receive, client_side
<1>4. CASE Connect
  BY <1>4 DEF Connect, Commands
<1>5. CASE TypeCommand
  <2>1. CommandsOf[cs] \subseteq Commands
    BY DEF CommandsOf, Commands, Phases, VarsOK
  <2>2. QED
    BY <1>5, <2>1 DEF TypeCommand, wire
<1>6. CASE SendCommand
  <2>1. PICK c \in Commands : command = <<c>>
    BY <1>6 DEF SendCommand
  <2>2. to_server \in Seq(Commands) /\ Len(to_server) <= Pipelined
    OBVIOUS
  <2>3. to_server \o <<c>> \in Seq(Commands) /\ Len(to_server \o <<c>>) = Len(to_server) + 1
    BY <2>2
  <2>4. \/ to_server' = to_server
        \/ to_server' = to_server \o <<c>> /\ Len(to_server) < Pipelined
    BY <1>6, <2>1 DEF SendCommand
  <2>5. to_server' \in Seq(Commands) /\ Len(to_server') <= Pipelined
    BY <2>2, <2>3, <2>4
  <2>6. QED
    BY <1>6, <2>5 DEF SendCommand
<1>7. CASE ClientReceives \/ ClientError \/ ClientQuits
  BY <1>1, <1>2, <1>7 DEF ClientReceives, ClientError, ClientQuits, Exit
<1>8. CASE Handler
  BY <1>1, <1>3, <1>8 DEF Handler, LoginAccepted, LoginRejected, SelectCharacter, SelectFails,
     CreateCharacter, DeleteCharacter, LobbyClose, LogOffToLobby, InGameRequest, InGameClose,
     UnknownRequest, RecvError, client_side, wire
<1>9. CASE RunFinalize
  BY <1>9 DEF RunFinalize, client_side
<1>10. CASE LinkLost \/ RunTransition \/ RunDatabase \/ RunLobbyChars \/ NewsArrive
  BY <1>1, <1>10 DEF LinkLost, RunTransition, RunDatabase, RunLobbyChars, NewsArrive,
     client_side, wire
<1>11. CASE UNCHANGED protocol_vars
  BY <1>1, <1>11 DEF protocol_vars, client_side, wire
<1>12. QED
  BY <1>4, <1>5, <1>6, <1>7, <1>8, <1>9, <1>10, <1>11 DEF ProtocolNext, ServerTask

\* The server's side and the rest of the variables.
LEMMA VarsStep == TalkInv /\ [ProtocolNext]_protocol_vars => VarsOK' /\ ServerFits'
<1> SUFFICES ASSUME VarsOK, ServerFits, WireInv, [ProtocolNext]_protocol_vars
             PROVE  VarsOK' /\ ServerFits'
  BY DEF TalkInv
<1> USE DEF VarsOK, ServerFits
<1>1. ASSUME client' \in Users \union {"exited"}, cs' \in Phases, asked' \in BOOLEAN,
             link' \in {"up", "lost"}, UNCHANGED server_side
      PROVE  VarsOK' /\ ServerFits'
  BY <1>1 DEF server_side
<1>2. ASSUME next = "read", UNCHANGED <<client, cs, asked, link>>,
             \/ ReadAgain \/ ForceClose
             \/ current_state = "preauth" /\ ScheduleTransition("lobby")
             \/ current_state = "lobby" /\ ScheduleTransition("ingame")
             \/ current_state = "ingame" /\ ScheduleTransition("lobby")
      PROVE  VarsOK' /\ ServerFits'
  BY <1>2 DEF ReadAgain, ForceClose, ScheduleTransition, Phases
<1>3. CASE Connect
  BY <1>3 DEF Connect, Phases
<1>4. CASE TypeCommand
  BY <1>1, <1>4 DEF TypeCommand, wire
<1>5. CASE SendCommand
  BY <1>1, <1>5 DEF SendCommand
<1>6. CASE ClientReceives
  <2> DEFINE meaning == Meaning(Head(to_client), cs, "to_client")
  <2>1. CASE Exit
    BY <1>1, <1>6, <2>1 DEF ClientReceives, Exit
  <2>2. CASE cs' = NextPhase(meaning) /\ client' = client /\ to_client # << >>
             /\ asked' = (asked /\ meaning \notin {"character_selected", "moved_to_lobby"})
    <3>1. Head(to_client) \in ServerPackets /\ Head(to_client).phase = cs
      BY <2>2, ChainTail DEF WireInv
    <3>2. cs' = After(Head(to_client))
      BY <2>2, <3>1, ReadingMoves
    <3>3. cs' \in Phases
      BY <3>1, <3>2, PacketFacts DEF After, LeadsTo, Phases, Understood
    <3>4. QED
      BY <1>1, <1>6, <2>2, <3>3 DEF ClientReceives
  <2>3. QED
    BY <1>6, <2>1, <2>2 DEF ClientReceives
<1>7. CASE ClientError \/ ClientQuits
  BY <1>1, <1>7 DEF ClientError, ClientQuits, Exit
<1>8. CASE LinkLost
  BY <1>1, <1>8 DEF LinkLost, client_side
<1>9. CASE Handler
  BY <1>2, <1>9 DEF Handler, LoginAccepted, LoginRejected, SelectCharacter, SelectFails,
     CreateCharacter, DeleteCharacter, LobbyClose, LogOffToLobby, InGameRequest, InGameClose,
     UnknownRequest, RecvError, Receive, client_side, wire
<1>10. CASE RunTransition
  BY <1>10 DEF RunTransition, client_side, Phases
<1>11. CASE RunDatabase \/ RunLobbyChars
  BY <1>11 DEF RunDatabase, RunLobbyChars, client_side, wire
<1>12. CASE RunFinalize
  BY <1>12 DEF RunFinalize, client_side
<1>13. CASE NewsArrive
  BY <1>1, <1>13 DEF NewsArrive, client_side
<1>14. CASE UNCHANGED protocol_vars
  BY <1>1, <1>14 DEF protocol_vars, client_side, wire
<1>15. QED
  BY <1>3, <1>4, <1>5, <1>6, <1>7, <1>8, <1>9, <1>10, <1>11, <1>12, <1>13, <1>14
     DEF ProtocolNext, ServerTask

\* While the session reads, the server's phase is its current state.
LEMMA ReadingPhase ==
  ASSUME ServerFits, next = "read"
  PROVE  my_sock = "open" /\ ServerPhase = current_state
BY DEF ServerFits, ServerPhase, InWorld

\* A handler that says nothing, or one or two packets in the server's phase.
LEMMA SayNothing ==
  ASSUME WireInv, Send(<< >>) \/ UNCHANGED to_client,
         cs' = cs, client' = client, link' = link,
         my_sock' = "open" => my_sock = "open" /\ ServerPhase' = ServerPhase
  PROVE  WireInv'
<1>1. CASE Send(<< >>)
  <2>1. << >> \in Seq(ServerPackets)
    OBVIOUS
  <2>2. QED
    BY <1>1, <2>1, SpeakNothing, ServerSpeaks
<1>2. CASE UNCHANGED to_client
  BY <1>2 DEF WireInv, Connected, Running
<1>3. QED
  BY <1>1, <1>2

\* A handler may send one packet, written for the phase of the server, that
\* leads to its next phase.
LEMMA SayOne ==
  ASSUME WireInv, NEW p \in ServerPackets, Send(<<p>>), p.phase = ServerPhase,
         cs' = cs, client' = client, link' = link,
         my_sock' = "open" => my_sock = "open" /\ ServerPhase' = After(p)
  PROVE  WireInv'
<1>1. <<p>> \in Seq(ServerPackets)
  OBVIOUS
<1>2. QED
  BY <1>1, SpeakOne, ServerSpeaks

\* ... or two, of which the first leads to the phase of the second.
LEMMA SayTwo ==
  ASSUME WireInv, NEW p \in ServerPackets, NEW q \in ServerPackets, Send(<<p, q>>),
         p.phase = ServerPhase, q.phase = After(p),
         cs' = cs, client' = client, link' = link,
         my_sock' = "open" => my_sock = "open" /\ ServerPhase' = After(q)
  PROVE  WireInv'
<1>1. <<p, q>> \in Seq(ServerPackets)
  OBVIOUS
<1>2. QED
  BY <1>1, SpeakTwo, ServerSpeaks

\* A handler of the packet at the head leaves the client and the link alone.
LEMMA HandlerFrame ==
  ASSUME NEW state, Receive(state)
  PROVE  /\ next = "read" /\ current_state = state
         /\ cs' = cs /\ client' = client /\ link' = link
BY DEF Receive, client_side

\* A session that closes has no open socket, so nothing is asked of its packets.
LEMMA CloseSays ==
  ASSUME ForceClose PROVE my_sock' # "open"
BY DEF ForceClose

\* Reading again does not change the phase of the server.
LEMMA ReadAgainPhase ==
  ASSUME ReadAgain PROVE my_sock' = my_sock /\ ServerPhase' = ServerPhase
BY DEF ReadAgain, ServerPhase, InWorld

\* Every step keeps the packets on the wire in the phases they are read in.
LEMMA WireStep == TalkInv /\ [ProtocolNext]_protocol_vars => WireInv'
<1> SUFFICES ASSUME ServerFits, WireInv, [ProtocolNext]_protocol_vars PROVE WireInv'
  BY DEF TalkInv
<1>1. CASE Connect
  <2>1. /\ to_client' = << >> /\ Running' /\ ServerPhase' = cs' /\ cs' = "preauth"
    BY <1>1 DEF Connect, Running, ServerPhase, InWorld
  <2>2. Chain(<< >>, cs') /\ End(<< >>, cs') = cs' /\ Meets(<< >>, cs', cs')
    BY SpeakNothing
  <2>3. << >> \in Seq(ServerPackets) /\ Len(<< >>) <= Capacity
    BY ProtocolAssumption
  <2>4. QED
    BY <2>1, <2>2, <2>3 DEF WireInv
<1>2. CASE TypeCommand \/ SendCommand
  <2>1. UNCHANGED <<client, cs, link, to_client, server_side>>
    BY <1>2 DEF TypeCommand, SendCommand, wire
  <2>2. QED
    BY <2>1 DEF WireInv, Connected, Running, server_side, ServerPhase, InWorld
<1>3. CASE ClientReceives
  <2>1. CASE Exit
    BY <2>1, ExitEmptiesWire
  <2>2. CASE ~Exit
    <3>1. /\ to_client # << >> /\ to_client' = Tail(to_client)
          /\ cs' = NextPhase(Meaning(Head(to_client), cs, "to_client"))
          /\ UNCHANGED <<client, link, server_side>>
      BY <1>3, <2>2 DEF ClientReceives
    <3>2. QED
      BY <3>1, ReadingKeepsWire
  <2>3. QED
    BY <2>1, <2>2
<1>4. CASE ClientError \/ ClientQuits
  BY <1>4, ExitEmptiesWire DEF ClientError, ClientQuits
<1>5. CASE LinkLost
  <2>1. link' = "lost" /\ UNCHANGED <<client, cs, to_client>>
    BY <1>5 DEF LinkLost, client_side
  <2>2. QED
    BY <2>1 DEF WireInv, Connected, Running
<1>6. CASE LoginAccepted
  <2>1. ok_response \in ServerPackets /\ ok_response.phase = "preauth" /\ After(ok_response) = "lobby"
    BY PacketFacts DEF ServerPackets, After
  <2>2. /\ Receive("preauth") /\ Send(<<ok_response>>) /\ ScheduleTransition("lobby")
    BY <1>6 DEF LoginAccepted
  <2>3. my_sock' = my_sock /\ ServerPhase' = "lobby"
    BY <2>2, HandlerFrame DEF ScheduleTransition, ServerPhase, InWorld
  <2>4. QED
    BY <2>1, <2>2, <2>3, HandlerFrame, ReadingPhase, SayOne
<1>7. CASE LoginRejected
  <2>1. fuck_you_response \in ServerPackets /\ fuck_you_response.phase = "preauth"
    BY PacketFacts DEF ServerPackets
  <2>2. /\ Receive("preauth") /\ ForceClose
        /\ Send(<<fuck_you_response>>) \/ UNCHANGED to_client
    BY <1>7 DEF LoginRejected
  <2>3. QED
    BY <2>1, <2>2, HandlerFrame, ReadingPhase, CloseSays, SayOne, SayNothing
<1>8. CASE SelectCharacter
  <2>1. /\ character_selected \in ServerPackets /\ character_selected.phase = "lobby"
        /\ After(character_selected) = "ingame"
        /\ friend_online_while_you_login \in ServerPackets
        /\ friend_online_while_you_login.phase = "ingame"
        /\ After(friend_online_while_you_login) = "ingame"
    BY PacketFacts DEF ServerPackets, After, News
  <2>2. Receive("lobby") /\ ScheduleTransition("ingame")
    BY <1>8 DEF SelectCharacter
  <2>3. PICK friends \in {<< >>, <<friend_online_while_you_login>>} :
          Send(<<character_selected>> \o friends)
    BY <1>8 DEF SelectCharacter
  <2>4. my_sock' = my_sock /\ ServerPhase' = "ingame" /\ ServerPhase = "lobby" /\ my_sock = "open"
    BY <2>2, HandlerFrame, ReadingPhase DEF ScheduleTransition, ServerPhase, InWorld
  <2> DEFINE selected == <<character_selected>>
             packets == selected \o friends
  <2>5. /\ selected \in Seq(ServerPackets) /\ Chain(selected, "lobby")
        /\ End(selected, "lobby") = "ingame" /\ Meets(selected, "lobby", "ingame")
    BY <2>1, SpeakOne
  <2>6. /\ friends \in Seq(ServerPackets) /\ Chain(friends, "ingame")
        /\ End(friends, "ingame") = "ingame" /\ Meets(friends, "ingame", "ingame")
    <3>1. CASE friends = << >>
      BY <3>1, SpeakNothing
    <3>2. CASE friends = <<friend_online_while_you_login>>
      BY <2>1, <3>2, SpeakOne
    <3>3. QED
      BY <3>1, <3>2
  <2> HIDE DEF selected
  <2>7. packets \in Seq(ServerPackets)
    BY <2>5, <2>6
  <2>8. Chain(packets, "lobby") /\ End(packets, "lobby") = "ingame"
    BY <2>5, <2>6, ChainConcat
  <2>9. Meets(packets, "lobby", "ingame")
    BY <2>5, <2>6, MeetsConcat
  <2>10. Send(packets)
    BY <2>3 DEF selected
  <2> HIDE DEF packets
  <2>11. cs' = cs /\ client' = client /\ link' = link
    BY <2>2, HandlerFrame
  <2>12. QED
    BY <2>4, <2>7, <2>8, <2>9, <2>10, <2>11, ServerSpeaks
<1>9. CASE SelectFails
  <2>1. /\ character_selected \in ServerPackets /\ character_selected.phase = "lobby"
        /\ After(character_selected) = "ingame"
        /\ moved_to_lobby \in ServerPackets /\ moved_to_lobby.phase = "ingame"
    BY PacketFacts DEF ServerPackets, After
  <2>2. /\ Receive("lobby") /\ ForceClose /\ Send(<<character_selected, moved_to_lobby>>)
    BY <1>9 DEF SelectFails
  <2>3. QED
    BY <2>1, <2>2, HandlerFrame, ReadingPhase, CloseSays, SayTwo
<1>10. CASE CreateCharacter \/ DeleteCharacter
  <2>1. PICK p \in LobbyReplies : Send(<<p>>)
    BY <1>10 DEF CreateCharacter, DeleteCharacter, LobbyReplies
  <2>2. p \in ServerPackets /\ p.phase = "lobby" /\ After(p) = "lobby"
    BY PacketFacts DEF ServerPackets, After
  <2>3. Receive("lobby") /\ ReadAgain
    BY <1>10 DEF CreateCharacter, DeleteCharacter
  <2>4. QED
    BY <2>1, <2>2, <2>3, HandlerFrame, ReadingPhase, ReadAgainPhase, SayOne
<1>11. CASE LobbyClose \/ InGameClose
  <2>1. /\ Receive("lobby") \/ Receive("ingame")
        /\ ForceClose /\ UNCHANGED to_client
    BY <1>11 DEF LobbyClose, InGameClose
  <2>2. QED
    BY <2>1, HandlerFrame, CloseSays, SayNothing
<1>12. CASE LogOffToLobby
  <2>1. Receive("ingame") /\ ScheduleTransition("lobby") /\ UNCHANGED to_client
    BY <1>12 DEF LogOffToLobby
  <2>2. my_sock' = my_sock /\ ServerPhase' = "ingame"
    BY <2>1, HandlerFrame DEF ScheduleTransition, ServerPhase, InWorld
  <2>3. QED
    BY <2>1, <2>2, HandlerFrame, ReadingPhase, SayNothing
<1>13. CASE InGameRequest \/ UnknownRequest
  <2>1. /\ Receive("lobby") \/ Receive("ingame")
        /\ ReadAgain /\ UNCHANGED to_client
    BY <1>13 DEF InGameRequest, UnknownRequest
  <2>2. QED
    BY <2>1, HandlerFrame, ReadingPhase, ReadAgainPhase, SayNothing
<1>14. CASE RecvError
  <2>1. ForceClose /\ UNCHANGED <<client, cs, link, to_client>>
    BY <1>14 DEF RecvError, client_side, wire
  <2>2. QED
    BY <2>1, CloseSays, SayNothing
<1>15. CASE RunTransition
  <2>1. /\ my_sock = "open" /\ my_sock' = my_sock /\ UNCHANGED <<client, cs, link>>
        /\ current_state' = awaiting /\ awaiting' = "none"
        /\ \/ current_state = "preauth" /\ awaiting = "lobby"
           \/ current_state = "lobby" /\ awaiting = "ingame"
           \/ current_state = "ingame" /\ awaiting = "lobby"
    BY <1>15 DEF RunTransition, ServerFits, client_side
  <2>2. CASE current_state # "ingame"
    <3>1. Send(<< >>) /\ ServerPhase' = ServerPhase
      BY <1>15, <2>1, <2>2 DEF RunTransition, ServerPhase, InWorld
    <3>2. QED
      BY <2>1, <3>1, SayNothing
  <2>3. CASE current_state = "ingame"
    <3>1. Send(<<moved_to_lobby>>) /\ ServerPhase = "ingame" /\ ServerPhase' = "lobby"
      BY <1>15, <2>1, <2>3 DEF RunTransition, ServerPhase, InWorld
    <3>2. /\ moved_to_lobby \in ServerPackets /\ moved_to_lobby.phase = "ingame"
          /\ After(moved_to_lobby) = "lobby"
      BY PacketFacts DEF ServerPackets, After
    <3>3. QED
      BY <2>1, <3>1, <3>2, SayOne
  <2>4. QED
    BY <2>2, <2>3
<1>16. CASE RunDatabase
  BY <1>16, SayNothing DEF RunDatabase, client_side, wire, ServerPhase, InWorld
<1>17. CASE RunLobbyChars
  <2>1. /\ Send(<<character_list>>) /\ ServerPhase = "lobby" /\ ServerPhase' = "lobby"
        /\ my_sock = "open" /\ UNCHANGED <<client, cs, link>>
    BY <1>17 DEF RunLobbyChars, client_side, ServerFits, ServerPhase, InWorld
  <2>2. /\ character_list \in ServerPackets /\ character_list.phase = "lobby"
        /\ After(character_list) = "lobby"
    BY PacketFacts DEF ServerPackets, After, LobbyReplies
  <2>3. QED
    BY <2>1, <2>2, SayOne
<1>18. CASE RunFinalize
  BY <1>18, SayNothing DEF RunFinalize, client_side
<1>19. CASE NewsArrive
  <2>1. PICK p \in News : Send(<<p>>)
    BY <1>19 DEF NewsArrive
  <2>2. p \in ServerPackets /\ p.phase = "ingame" /\ After(p) = "ingame"
    BY PacketFacts DEF ServerPackets, After
  <2>3. /\ my_sock = "open" /\ ServerPhase = "ingame" /\ ServerPhase' = "ingame"
        /\ UNCHANGED <<client, cs, link>>
    BY <1>19 DEF NewsArrive, client_side, server_side, ServerPhase, InWorld
  <2>4. QED
    BY <2>1, <2>2, <2>3, SayOne
<1>20. CASE UNCHANGED protocol_vars
  BY <1>20 DEF protocol_vars, client_side, wire, server_side, WireInv, Connected, Running,
     ServerPhase, InWorld
<1>21. QED
  BY <1>1, <1>2, <1>3, <1>4, <1>5, <1>6, <1>7, <1>8, <1>9, <1>10, <1>11, <1>12, <1>13, <1>14,
     <1>15, <1>16, <1>17, <1>18, <1>19, <1>20 DEF ProtocolNext, Handler, ServerTask

\* So it always holds.
LEMMA TalkKept == ProtocolSpec => []TalkInv
<1>1. TalkInv /\ [ProtocolNext]_protocol_vars => TalkInv'
  BY CommandsStep, VarsStep, WireStep DEF TalkInv
<1>2. QED
  BY <1>1, TalkStart, PTL DEF ProtocolSpec

\* The two ends' phases, with the packets between them, always fit together.
THEOREM PhasesAlwaysMeet == ProtocolSpec => []ProtocolInv
<1>1. TalkInv => ProtocolTypeOK
  <2> SUFFICES ASSUME TalkInv PROVE ProtocolTypeOK
    OBVIOUS
  <2>1. command = << >> \/ command[1] \in {LoginPacket} \union LobbyCommands \union InGameCommands
    BY DEF TalkInv, CommandsOK, Commands
  <2>2. QED
    BY <2>1 DEF TalkInv, VarsOK, CommandsOK, WireInv, ProtocolTypeOK
<1>2. TalkInv => PhasesMeet
  BY DEF TalkInv, WireInv, Connected, Meets, PhasesMeet
<1>3. QED
  BY <1>1, <1>2, TalkKept, PTL DEF ProtocolInv

\* However the user behaves, the client reads every packet in the phase it was
\* written for, with the opcode and the fields the server meant.
THEOREM AnswersAlwaysUnderstood == ProtocolSpec => []AnswersUnderstood
<1>1. TalkInv => AnswersUnderstood
  <2> SUFFICES ASSUME WireInv, to_client # << >>
               PROVE  LET packet == Head(to_client)
                          meaning == Meaning(packet, cs, "to_client")
                      IN /\ packet.phase = cs
                         /\ meaning # "unknown"
                         /\ packet.fields = ClientReads[cs][meaning]
    BY DEF TalkInv, AnswersUnderstood
  <2>1. Head(to_client) \in ServerPackets /\ Head(to_client).phase = cs
    BY ChainTail DEF WireInv
  <2>2. QED
    BY <2>1, PacketFacts DEF Understood, Says
<1>2. QED
  BY <1>1, TalkKept, PTL
(***************************************************************************)
(* The commands: the server finds in each what it expects.                 *)
(***************************************************************************)

NamesOf(phase) ==
  IF phase = "preauth" THEN {"loginserver_keys"}
  ELSE IF phase = "lobby"
    THEN {"select_character", "create_character", "delete_character", "log_off"}
    ELSE {"log_off_to_lobby", "join_chat", "leave_chat", "send_chat_msg", "send_whisper",
          "friend_add", "friend_remove"}

\* The names the client writes are opcodes of the phase it writes them in.
LEMMA NamesToServer ==
  ASSUME NEW phase \in Phases
  PROVE  NamesOf(phase) \subseteq Names(phase, "to_server")
<1> DEFINE seq == Opcodes[phase]["to_server"]
<1>1. CASE phase = "preauth"
  <2>1. seq[1] = "loginserver_keys" /\ DOMAIN seq = 1..1
    BY <1>1 DEF Opcodes, PreauthOpcodes
  <2> HIDE DEF seq
  <2>2. QED
    BY <1>1, <2>1 DEF Names, NamesOf, seq
<1>2. CASE phase = "lobby"
  <2>1. /\ seq[1] = "select_character" /\ seq[2] = "create_character"
        /\ seq[3] = "delete_character" /\ seq[4] = "log_off"
        /\ DOMAIN seq = 1..4
    BY <1>2 DEF Opcodes, LobbyOpcodes
  <2> HIDE DEF seq
  <2>2. QED
    BY <1>2, <2>1 DEF Names, NamesOf, seq
<1>3. CASE phase = "ingame"
  <2>1. /\ seq[1] = "log_off_to_lobby" /\ seq[2] = "join_chat" /\ seq[3] = "leave_chat"
        /\ seq[4] = "send_chat_msg" /\ seq[5] = "send_whisper" /\ seq[6] = "friend_add"
        /\ seq[7] = "friend_remove"
        /\ DOMAIN seq = 1..7
    BY <1>3 DEF Opcodes, InGameOpcodes
  <2> HIDE DEF seq
  <2>2. QED
    BY <1>3, <2>1 DEF Names, NamesOf, seq
<1>4. QED
  BY <1>1, <1>2, <1>3 DEF Phases

\* What reading succeeds with: the fields of the commands are as long as the
\* requests, or longer.
LEMMA FieldsSuffice ==
  /\ IsPrefix(<< >>, <<"string">>) /\ IsPrefix(<< >>, <<"int">>)
  /\ IsPrefix(<<"string">>, <<"string">>) /\ IsPrefix(<<"string">>, <<"string", "int">>)
  /\ IsPrefix(<<"string", "string">>, <<"string", "string">>)
BY DEF IsPrefix

\* A command of the phase, with the fields the server reads for it.
Answerable(packet, phase, name) ==
  /\ packet.phase = phase /\ Meaning(packet, phase, "to_server") = name
  /\ name \in NamesOf(phase) /\ Readable(packet, ServerReads[phase][name])

\* A command with at least the fields its handler reads is answerable.
LEMMA CommandAnswerable ==
  ASSUME NEW phase \in Phases, NEW name \in NamesOf(phase), NEW fields,
         IsPrefix(ServerReads[phase][name], fields)
  PROVE  Answerable(ToServer(phase, name, fields), phase, name)
<1>1. name \in Names(phase, "to_server") /\ "to_server" \in Directions
  BY NamesToServer DEF Directions
<1>2. QED
  BY <1>1, OwnMeaning DEF Answerable, ToServer, Readable

\* Every packet the client writes is.
LEMMA CommandsAnswerable ==
  /\ \E name : Answerable(LoginPacket, "preauth", name)
  /\ \A c \in LobbyCommands : \E name : Answerable(c, "lobby", name)
  /\ \A c \in InGameCommands : \E name : Answerable(c, "ingame", name)
<1>1. \E name : Answerable(LoginPacket, "preauth", name)
  <2>1. "preauth" \in Phases /\ "loginserver_keys" \in NamesOf("preauth")
    BY DEF Phases, NamesOf
  <2>2. IsPrefix(ServerReads["preauth"]["loginserver_keys"], <<"string", "string">>)
    BY FieldsSuffice DEF ServerReads, loginserver_keys
  <2>3. QED
    BY <2>1, <2>2, CommandAnswerable DEF LoginPacket
<1>2. ASSUME NEW c \in LobbyCommands PROVE \E name : Answerable(c, "lobby", name)
  <2>1. /\ "lobby" \in Phases
        /\ NamesOf("lobby") = {"select_character", "create_character", "delete_character", "log_off"}
    BY DEF Phases, NamesOf
  <2>2. /\ IsPrefix(ServerReads["lobby"]["select_character"], <<"string">>)
        /\ IsPrefix(ServerReads["lobby"]["create_character"], <<"string", "int">>)
        /\ IsPrefix(ServerReads["lobby"]["delete_character"], <<"string">>)
        /\ IsPrefix(ServerReads["lobby"]["log_off"], <<"int">>)
    BY FieldsSuffice DEF ServerReads, request_character_select, request_character_create,
       request_character_delete, request_lobby_log_off
  <2>3. PICK name, fields : /\ name \in NamesOf("lobby") /\ c = ToServer("lobby", name, fields)
                            /\ IsPrefix(ServerReads["lobby"][name], fields)
    BY <2>1, <2>2 DEF LobbyCommands
  <2>4. QED
    BY <2>1, <2>3, CommandAnswerable
<1>3. ASSUME NEW c \in InGameCommands PROVE \E name : Answerable(c, "ingame", name)
  <2>1. /\ "ingame" \in Phases
        /\ NamesOf("ingame") = {"log_off_to_lobby", "join_chat", "leave_chat", "send_chat_msg",
                                "send_whisper", "friend_add", "friend_remove"}
    BY DEF Phases, NamesOf
  <2>2. /\ IsPrefix(ServerReads["ingame"]["join_chat"], <<"string">>)
        /\ IsPrefix(ServerReads["ingame"]["leave_chat"], <<"string">>)
        /\ IsPrefix(ServerReads["ingame"]["friend_add"], <<"string">>)
        /\ IsPrefix(ServerReads["ingame"]["friend_remove"], <<"string">>)
        /\ IsPrefix(ServerReads["ingame"]["send_chat_msg"], <<"string", "string">>)
        /\ IsPrefix(ServerReads["ingame"]["send_whisper"], <<"string", "string">>)
        /\ IsPrefix(ServerReads["ingame"]["log_off_to_lobby"], <<"string">>)
    BY FieldsSuffice DEF ServerReads, log_off_to_lobby, join_chat, leave_chat, send_chat_msg,
       send_whisper, friend_add, friend_remove
  <2>3. PICK name, fields : /\ name \in NamesOf("ingame") /\ c = ToServer("ingame", name, fields)
                            /\ IsPrefix(ServerReads["ingame"][name], fields)
    BY <2>1, <2>2 DEF InGameCommands
  <2>4. QED
    BY <2>1, <2>3, CommandAnswerable
<1>4. QED
  BY <1>1, <1>2, <1>3

\* A packet that asks for a change of phase: the login is one.
Question(packet) == packet.phase = "preauth" \/ ChangesPhase(packet)

\* What is needed of commands below: each has a meaning and its fields.
LEMMA CommandFacts ==
  ASSUME NEW c \in Commands
  PROVE  /\ c.phase \in Phases
         /\ Meaning(c, c.phase, "to_server") # "unknown"
         /\ Readable(c, ServerReads[c.phase][Meaning(c, c.phase, "to_server")])
<1>1. PICK phase \in Phases : \E name : Answerable(c, phase, name)
  <2>1. {"preauth", "lobby", "ingame"} = Phases
    BY DEF Phases
  <2>2. QED
    BY <2>1, CommandsAnswerable DEF Commands
<1>2. PICK name : Answerable(c, phase, name)
  BY <1>1
<1>3. name # "unknown"
  BY <1>2 DEF Answerable, NamesOf
<1>4. QED
  BY <1>2, <1>3 DEF Answerable

\* What can be typed in a phase was written for that phase.
LEMMA TypedForPhase ==
  ASSUME NEW phase \in Phases, NEW c \in CommandsOf[phase]
  PROVE  c.phase = phase /\ phase # "preauth"
BY CommandsAnswerable DEF CommandsOf, Phases, Answerable

(***************************************************************************)
(* The patient user: one question at a time.                               *)
(***************************************************************************)

Questions == {i \in DOMAIN to_server : Question(to_server[i])}
Answers == {i \in DOMAIN to_client : MovesClient(to_client[i])}

\* The server takes the player out of the world, and says so when it is done.
LeavingWorld == current_state = "ingame" /\ awaiting = "lobby"

\* What waits to be read was written for the server's phase, and nothing was sent
\* behind a question.
QueueFits ==
  client = "patient" /\ my_sock = "open" =>
    /\ \A i \in DOMAIN to_server : to_server[i].phase = ServerPhase
    /\ \A i \in Questions : i = Len(to_server)
    /\ LeavingWorld => to_server = << >>

\* A question is on the wire, in the server's hands or answered on the wire, but
\* never two of these; in the meantime nothing is typed.
OneQuestion ==
  client = "patient" /\ Connected =>
    /\ Questions # {} \/ LeavingWorld \/ Answers # {} =>
         command = << >> /\ (asked \/ cs = "preauth")
    /\ command # << >> => command[1].phase = ServerPhase
    /\ Answers # {} => to_server = << >> /\ ~LeavingWorld
    /\ \A i, j \in Answers : i = j

PatientInv == QueueFits /\ OneQuestion

\* Nothing is left of it when the client or the session ends.
LEMMA PatientEnds ==
  ASSUME client' # "patient" \/ my_sock' # "open"
  PROVE  PatientInv'
BY DEF PatientInv, QueueFits, OneQuestion, Connected

\* Without an unread answer or question the client is where the server is.
LEMMA NoAnswersPhase ==
  ASSUME WireInv, Connected, Answers = {}
  PROVE  cs = ServerPhase
BY DEF WireInv, Meets, Answers

\* Reading the queue.
LEMMA QueueTail ==
  ASSUME to_server \in Seq(Commands), to_server # << >>, to_server' = Tail(to_server)
  PROVE  /\ \A i \in DOMAIN to_server' : i + 1 \in DOMAIN to_server /\ to_server'[i] = to_server[i + 1]
         /\ Len(to_server') = Len(to_server) - 1 /\ Len(to_server) \in Nat
         /\ \A i \in Questions' : i \in Nat /\ i + 1 \in Questions
<1>1. /\ \A i \in DOMAIN to_server' : i + 1 \in DOMAIN to_server /\ to_server'[i] = to_server[i + 1]
      /\ Len(to_server') = Len(to_server) - 1 /\ Len(to_server) \in Nat
      /\ DOMAIN to_server' \subseteq Nat
  OBVIOUS
<1>2. QED
  BY <1>1 DEF Questions

\* A handler whose packet the server finds in its current state, or a task, that
\* changes no phase.
LEMMA PatientGoesOn ==
  ASSUME CommandsOK, PatientInv,
         UNCHANGED <<client_side, link>>, my_sock' = "open" => my_sock = "open",
         UNCHANGED to_server \/ (to_server # << >> /\ to_server' = Tail(to_server)),
         Answers' = Answers, ServerPhase' = ServerPhase, LeavingWorld' => LeavingWorld
  PROVE  PatientInv'
<1> SUFFICES ASSUME client' = "patient", my_sock' = "open"
             PROVE  PatientInv'
  BY PatientEnds
<1>0. client = "patient" /\ my_sock = "open" /\ UNCHANGED <<client, cs, command, asked>>
  BY DEF client_side
<1>1. CASE UNCHANGED to_server
  <2>1. Questions' = Questions
    BY <1>1 DEF Questions
  <2>2. QED
    BY <1>0, <1>1, <2>1 DEF PatientInv, QueueFits, OneQuestion, Connected, Running
<1>2. CASE to_server # << >> /\ to_server' = Tail(to_server)
  <2>1. /\ \A i \in DOMAIN to_server' : i + 1 \in DOMAIN to_server /\ to_server'[i] = to_server[i + 1]
        /\ Len(to_server') = Len(to_server) - 1 /\ Len(to_server) \in Nat
        /\ \A i \in Questions' : i \in Nat /\ i + 1 \in Questions
    BY <1>2, QueueTail DEF CommandsOK
  <2>2. /\ \A i \in DOMAIN to_server : to_server[i].phase = ServerPhase
        /\ \A i \in Questions : i = Len(to_server)
        /\ ~LeavingWorld
    BY <1>0, <1>2 DEF PatientInv, QueueFits
  <2>3. \A i \in DOMAIN to_server' : to_server'[i].phase = ServerPhase'
    BY <2>1, <2>2
  <2>4. \A i \in Questions' : i = Len(to_server')
    <3> TAKE i \in Questions'
    <3>1. i + 1 = Len(to_server) /\ i \in Nat
      BY <2>1, <2>2
    <3>2. QED
      BY <2>1, <3>1
  <2>5. QueueFits'
    BY <2>2, <2>3, <2>4 DEF QueueFits
  <2>6. Questions' # {} => Questions # {}
    BY <2>1
  <2>7. Connected' => Connected
    BY <1>0 DEF Connected, Running
  <2>8. Answers = {} \/ ~Connected
    BY <1>0, <1>2 DEF PatientInv, OneQuestion
  <2>9. OneQuestion'
    BY <1>0, <2>2, <2>6, <2>7, <2>8 DEF PatientInv, OneQuestion
  <2>10. QED
    BY <2>5, <2>9 DEF PatientInv
<1>3. QED
  BY <1>1, <1>2

\* The question at the head is the last packet; with it the server takes the
\* player out of the world, or says at once that the client moves.
LEMMA QuestionTaken ==
  ASSUME CommandsOK, PatientInv, to_server # << >>, to_server' = Tail(to_server),
         Question(Head(to_server)),
         UNCHANGED <<client_side, link>>, my_sock' = "open" => my_sock = "open",
         \/ Answers' = Answers
         \/ ~LeavingWorld' /\ (Connected /\ Answers = {} => \A i, j \in Answers' : i = j)
  PROVE  PatientInv'
<1> SUFFICES ASSUME client' = "patient", my_sock' = "open"
             PROVE  PatientInv'
  BY PatientEnds
<1>1. client = "patient" /\ my_sock = "open" /\ UNCHANGED <<client, cs, command, asked>>
  BY DEF client_side
<1>2. /\ to_server \in Seq(Commands) /\ Len(to_server) \in Nat /\ Len(to_server) > 0
      /\ Head(to_server) = to_server[1] /\ DOMAIN to_server = 1..Len(to_server)
  BY DEF CommandsOK
<1>3. 1 \in Questions
  BY <1>2 DEF Questions
<1>4. Len(to_server) = 1
  BY <1>1, <1>3 DEF PatientInv, QueueFits
<1>5. to_server' = << >>
  BY <1>2, <1>4
<1>6. Questions' = {} /\ DOMAIN to_server' = {}
  BY <1>5 DEF Questions
<1>7. QueueFits'
  BY <1>5, <1>6 DEF QueueFits
<1>8. CASE ~Connected
  BY <1>1, <1>7, <1>8 DEF PatientInv, OneQuestion, Connected, Running
<1>9. CASE Connected
  <2>1. command = << >> /\ (asked \/ cs = "preauth") /\ Answers = {}
    BY <1>1, <1>3, <1>9 DEF PatientInv, OneQuestion
  <2>2. \A i, j \in Answers' : i = j
    BY <1>9, <2>1
  <2>3. Answers' # {} => ~LeavingWorld'
    BY <2>1
  <2>4. OneQuestion'
    BY <1>1, <1>5, <2>1, <2>2, <2>3 DEF OneQuestion
  <2>5. QED
    BY <1>7, <2>4 DEF PatientInv
<1>10. QED
  BY <1>8, <1>9

\* What the server says changes the answers on the wire only with a packet that
\* moves the client.
LEMMA SaidBehind ==
  ASSUME WireInv, NEW packets \in Seq(ServerPackets), Send(packets)
  PROVE  /\ (\A i \in DOMAIN packets : ~MovesClient(packets[i])) => Answers' = Answers
         /\ (\A i \in DOMAIN packets : MovesClient(packets[i]) => i = 1) =>
              (Answers = {} => \A i, j \in Answers' : i = j)
<1>1. CASE UNCHANGED to_client
  BY <1>1 DEF Answers
<1>2. CASE to_client' = to_client \o packets
  <2> DEFINE n == Len(to_client)
  <2>1. /\ n \in Nat /\ Len(packets) \in Nat
        /\ DOMAIN to_client = 1..n /\ DOMAIN packets = 1..Len(packets)
        /\ DOMAIN to_client' = 1..(n + Len(packets))
        /\ \A i \in 1..n : to_client'[i] = to_client[i]
        /\ \A i \in (n + 1)..(n + Len(packets)) :
             i - n \in DOMAIN packets /\ to_client'[i] = packets[i - n]
    BY <1>2 DEF WireInv
  <2> HIDE DEF n
  <2>2. ASSUME NEW i \in Answers'
        PROVE  i \in Answers \/ (i \in Nat /\ i - n \in DOMAIN packets /\ MovesClient(packets[i - n]))
    <3>1. i \in 1..(n + Len(packets)) /\ MovesClient(to_client'[i])
      BY <2>1 DEF Answers
    <3>2. i \in 1..n \/ i \in (n + 1)..(n + Len(packets))
      BY <2>1, <3>1
    <3>3. QED
      BY <2>1, <3>1, <3>2 DEF Answers
  <2>3. ASSUME NEW i \in Answers PROVE i \in Answers'
    <3>1. i \in 1..n /\ MovesClient(to_client[i])
      BY <2>1 DEF Answers
    <3>2. i \in 1..(n + Len(packets)) /\ to_client'[i] = to_client[i]
      BY <2>1, <3>1
    <3>3. QED
      BY <2>1, <3>1, <3>2 DEF Answers
  <2>4. (\A i \in DOMAIN packets : ~MovesClient(packets[i])) => Answers' = Answers
    BY <2>2, <2>3
  <2>5. ASSUME \A i \in DOMAIN packets : MovesClient(packets[i]) => i = 1, Answers = {},
               NEW i \in Answers', NEW j \in Answers'
        PROVE  i = j
    <3>1. i \in Nat /\ j \in Nat /\ i - n = 1 /\ j - n = 1
      BY <2>2, <2>5
    <3>2. QED
      BY <2>1, <3>1
  <2>6. QED
    BY <2>4, <2>5
<1>3. QED
  BY <1>1, <1>2 DEF Send

\* A packet that does not move the client is no answer.
LEMMA SaysNothingNew ==
  ASSUME WireInv, NEW p \in ServerPackets, ~MovesClient(p), Send(<<p>>)
  PROVE  Answers' = Answers
<1> DEFINE packets == <<p>>
<1>1. packets \in Seq(ServerPackets) /\ \A i \in DOMAIN packets : ~MovesClient(packets[i])
  OBVIOUS
<1> HIDE DEF packets
<1>2. Send(packets)
  BY DEF packets
<1>3. QED
  BY <1>1, <1>2, SaidBehind

\* One packet is at most one answer.
LEMMA SaysOneAnswer ==
  ASSUME WireInv, NEW p \in ServerPackets, Send(<<p>>)
  PROVE  Answers = {} => \A i, j \in Answers' : i = j
<1> DEFINE packets == <<p>>
<1>1. packets \in Seq(ServerPackets) /\ \A i \in DOMAIN packets : i = 1
  OBVIOUS
<1> HIDE DEF packets
<1>2. Send(packets)
  BY DEF packets
<1>3. QED
  BY <1>1, <1>2, SaidBehind

\* The packet the server reads is of its phase and says what the phase knows.
LEMMA PatientReads ==
  ASSUME TalkInv, PatientInv, client = "patient", next = "read", to_server # << >>
  PROVE  Head(to_server).phase = current_state /\ Complete
<1>1. my_sock = "open" /\ ServerPhase = current_state
  BY ReadingPhase DEF TalkInv
<1>2. /\ Head(to_server) \in Commands /\ Head(to_server) = to_server[1]
      /\ 1 \in DOMAIN to_server
  BY DEF TalkInv, CommandsOK
<1>3. Head(to_server).phase = current_state
  BY <1>1, <1>2 DEF PatientInv, QueueFits
<1>4. QED
  BY <1>2, <1>3, CommandFacts DEF Complete, Request

\* A request that changes the phase is a question.
LEMMA QuestionRead ==
  ASSUME TalkInv, PatientInv, client = "patient", NEW state, Receive(state),
         state = "preauth" \/ Request \in {"select_character", "log_off_to_lobby"}
  PROVE  Question(Head(to_server))
<1>1. next = "read" /\ current_state = state /\ to_server # << >>
  BY DEF Receive
<1>2. Head(to_server).phase = current_state
  BY <1>1, PatientReads
<1>3. QED
  BY <1>1, <1>2 DEF Question, ChangesPhase, Request

\* Nothing has been asked in the beginning.
LEMMA PatientStart == ProtocolInit => PatientInv
BY DEF ProtocolInit, PatientInv, QueueFits, OneQuestion, Connected

\* Every step keeps to one question at a time.
LEMMA PatientStep == TalkInv /\ PatientInv /\ [ProtocolNext]_protocol_vars => PatientInv'
<1> SUFFICES ASSUME TalkInv, PatientInv, [ProtocolNext]_protocol_vars,
                    client' = "patient", my_sock' = "open"
             PROVE  PatientInv'
  BY PatientEnds
<1>0. VarsOK /\ CommandsOK /\ ServerFits /\ WireInv
  BY DEF TalkInv
<1>1. CASE Connect
  <2>1. /\ to_server' = << >> /\ to_client' = << >> /\ command' = <<LoginPacket>>
        /\ ServerPhase' = "preauth" /\ ~LeavingWorld'
    BY <1>1 DEF Connect, ServerPhase, InWorld, LeavingWorld
  <2>2. Questions' = {} /\ Answers' = {} /\ DOMAIN to_server' = {}
    BY <2>1 DEF Questions, Answers
  <2>3. command'[1].phase = "preauth"
    BY <2>1, CommandsAnswerable DEF Answerable
  <2>4. QED
    BY <2>1, <2>2, <2>3 DEF PatientInv, QueueFits, OneQuestion
<1>2. CASE TypeCommand
  <2>1. /\ client = "patient" /\ ~asked /\ command = << >>
        /\ UNCHANGED <<client, cs, asked, link, to_server, to_client, my_sock, current_state,
                       awaiting>>
    BY <1>2 DEF TypeCommand, wire, server_side
  <2>2. /\ Questions' = Questions /\ Answers' = Answers /\ LeavingWorld' = LeavingWorld
        /\ ServerPhase' = ServerPhase /\ Connected' = Connected
    BY <2>1 DEF Questions, Answers, LeavingWorld, ServerPhase, InWorld, Connected, Running
  <2>3. QueueFits'
    BY <2>1, <2>2 DEF PatientInv, QueueFits
  <2>4. PICK c \in CommandsOf[cs] : command' = <<c>>
    BY <1>2 DEF TypeCommand
  <2>5. c.phase = cs /\ cs # "preauth"
    BY <1>0, TypedForPhase DEF VarsOK
  <2>6. command'[1].phase = cs
    BY <2>4, <2>5
  <2>7. Connected => Questions = {} /\ Answers = {} /\ ~LeavingWorld
    BY <2>1, <2>5 DEF PatientInv, OneQuestion
  <2>8. Connected => cs = ServerPhase
    BY <1>0, <2>7, NoAnswersPhase
  <2>9. OneQuestion'
    BY <2>1, <2>2, <2>6, <2>7, <2>8 DEF OneQuestion
  <2>10. QED
    BY <2>3, <2>9 DEF PatientInv
<1>3. CASE SendCommand
  <2>1. /\ client = "patient" /\ command # << >> /\ command' = << >> /\ my_sock = "open"
        /\ UNCHANGED <<client, cs, link, to_client, my_sock, current_state, awaiting>>
    BY <1>3 DEF SendCommand, server_side
  <2>2. /\ Answers' = Answers /\ LeavingWorld' = LeavingWorld
        /\ ServerPhase' = ServerPhase /\ Connected' = Connected /\ Running
    BY <1>3, <2>1 DEF Answers, LeavingWorld, ServerPhase, InWorld, Connected, Running, SendCommand
  <2>3. CASE link # "up"
    <3>1. to_server' = to_server /\ ~Connected
      BY <1>3, <2>3 DEF SendCommand, Connected
    <3>2. Questions' = Questions
      BY <3>1 DEF Questions
    <3>3. QED
      BY <2>1, <2>2, <3>1, <3>2 DEF PatientInv, QueueFits, OneQuestion
  <2>4. CASE link = "up"
    <3>1. Connected
      BY <2>1, <2>2, <2>4 DEF Connected
    <3>2. Questions = {} /\ Answers = {} /\ ~LeavingWorld /\ command[1].phase = ServerPhase
      BY <2>1, <3>1 DEF PatientInv, OneQuestion
    <3>3. PICK c \in Commands : command = <<c>>
      BY <1>0, <2>1 DEF CommandsOK
    <3>4. c.phase = ServerPhase /\ command[1] = c
      BY <3>2, <3>3
    <3> DEFINE n == Len(to_server)
    <3>5. to_server \in Seq(Commands) /\ to_server' = to_server \o <<c>>
      BY <1>0, <1>3, <2>1, <2>4, <3>3 DEF SendCommand, CommandsOK
    <3>6. /\ n \in Nat /\ DOMAIN to_server = 1..n /\ DOMAIN to_server' = 1..(n + 1)
          /\ Len(to_server') = n + 1 /\ to_server'[n + 1] = c
          /\ \A i \in 1..n : to_server'[i] = to_server[i]
      BY <3>5
    <3> HIDE DEF n
    <3>7. \A i \in 1..(n + 1) : i \in 1..n \/ i = n + 1
      BY <3>6
    <3>8. \A i \in DOMAIN to_server' : to_server'[i].phase = ServerPhase'
      <4>1. \A i \in 1..n : to_server[i].phase = ServerPhase
        BY <2>1, <3>6 DEF PatientInv, QueueFits
      <4>2. QED
        BY <2>2, <3>4, <3>6, <3>7, <4>1
    <3>9. \A i \in Questions' : i = n + 1 /\ Question(c)
      <4>1. \A i \in 1..n : ~Question(to_server[i])
        BY <3>2, <3>6 DEF Questions
      <4>2. QED
        BY <3>6, <3>7, <4>1 DEF Questions
    <3>10. QueueFits'
      BY <2>2, <3>2, <3>6, <3>8, <3>9 DEF QueueFits
    <3>11. Questions' # {} => asked' \/ cs' = "preauth"
      <4>1. asked' = (asked \/ ChangesPhase(c))
        BY <1>3, <3>4 DEF SendCommand
      <4>2. cs = ServerPhase
        BY <1>0, <3>1, <3>2, NoAnswersPhase
      <4>3. Question(c) => ChangesPhase(c) \/ cs = "preauth"
        BY <3>4, <4>2 DEF Question
      <4>4. QED
        BY <2>1, <3>9, <4>1, <4>3
    <3>12. OneQuestion'
      BY <2>1, <2>2, <3>2, <3>11 DEF OneQuestion
    <3>13. QED
      BY <3>10, <3>12 DEF PatientInv
  <2>5. QED
    BY <2>3, <2>4
<1>4. CASE ClientReceives
  <2> DEFINE p == Head(to_client)
             meaning == Meaning(p, cs, "to_client")
  <2>1. ~Exit
    BY DEF Exit
  <2>2. /\ to_client # << >> /\ to_client' = Tail(to_client) /\ cs' = NextPhase(meaning)
        /\ asked' = (asked /\ meaning \notin {"character_selected", "moved_to_lobby"})
        /\ UNCHANGED <<client, command, link, to_server, my_sock, current_state, awaiting>>
    BY <1>4, <2>1 DEF ClientReceives, server_side
  <2>3. p \in ServerPackets /\ p.phase = cs
    BY <1>0, <2>2, ChainTail DEF WireInv
  <2>4. /\ \A i \in DOMAIN to_client' : i \in Nat /\ i >= 1 /\ i + 1 \in DOMAIN to_client
             /\ to_client'[i] = to_client[i + 1]
        /\ 1 \in DOMAIN to_client /\ p = to_client[1]
    BY <1>0, <2>2 DEF WireInv
  <2>5. \A i \in Answers' : i \in Nat /\ i >= 1 /\ i + 1 \in Answers
    BY <2>4 DEF Answers
  <2>6. MovesClient(p) => 1 \in Answers
    BY <2>4 DEF Answers
  <2>7. /\ Questions' = Questions /\ LeavingWorld' = LeavingWorld
        /\ ServerPhase' = ServerPhase /\ Connected' = Connected /\ client = "patient"
    BY <2>2 DEF Questions, LeavingWorld, ServerPhase, InWorld, Connected, Running
  <2>8. QueueFits'
    BY <2>2, <2>7 DEF PatientInv, QueueFits
  <2>9. CASE ~Connected
    BY <2>7, <2>8, <2>9 DEF PatientInv, OneQuestion
  <2>10. CASE Connected /\ MovesClient(p)
    <3>1. command = << >> /\ to_server = << >> /\ ~LeavingWorld /\ \A i, j \in Answers : i = j
      BY <2>6, <2>7, <2>10 DEF PatientInv, OneQuestion
    <3>2. Answers' = {}
      <4> SUFFICES ASSUME NEW i \in Answers' PROVE FALSE
        OBVIOUS
      <4>1. i \in Nat /\ i >= 1 /\ i + 1 = 1
        BY <2>5, <2>6, <2>10, <3>1
      <4>2. QED
        BY <4>1
    <3>3. Questions' = {}
      BY <2>2, <3>1 DEF Questions
    <3>4. OneQuestion'
      BY <2>2, <2>7, <3>1, <3>2, <3>3 DEF OneQuestion
    <3>5. QED
      BY <2>8, <3>4 DEF PatientInv
  <2>11. CASE Connected /\ ~MovesClient(p)
    <3>1. cs' = cs
      BY <2>2, <2>3, <2>11, ReadingMoves DEF After
    <3>2. asked' = asked
      BY <2>2, <2>3, <2>11, <1>0 DEF MovesClient, Says, VarsOK
    <3>3. Answers' # {} => Answers # {}
      BY <2>5
    <3>4. \A i, j \in Answers' : i = j
      <4> TAKE i, j \in Answers'
      <4>1. i \in Nat /\ j \in Nat /\ i + 1 = j + 1
        BY <2>5, <2>7, <2>11 DEF PatientInv, OneQuestion
      <4>2. QED
        BY <4>1
    <3>5. OneQuestion'
      BY <2>2, <2>7, <2>11, <3>1, <3>2, <3>3, <3>4 DEF PatientInv, OneQuestion
    <3>6. QED
      BY <2>8, <3>5 DEF PatientInv
  <2>12. QED
    BY <2>9, <2>10, <2>11
<1>5. CASE ClientError \/ ClientQuits
  BY <1>5 DEF ClientError, ClientQuits, Exit
<1>6. CASE LinkLost
  <2>1. ~Connected' /\ UNCHANGED <<client, to_server, my_sock, current_state, awaiting>>
    BY <1>6 DEF LinkLost, Connected, client_side, server_side
  <2>2. Questions' = Questions
    BY <2>1 DEF Questions
  <2>3. QED
    BY <2>1, <2>2 DEF PatientInv, QueueFits, OneQuestion, ServerPhase, InWorld, LeavingWorld
<1>7. CASE LoginAccepted
  <2>1. /\ Receive("preauth") /\ Send(<<ok_response>>) /\ ScheduleTransition("lobby")
    BY <1>7 DEF LoginAccepted
  <2>2. UNCHANGED <<client_side, link>> /\ to_server # << >> /\ to_server' = Tail(to_server)
        /\ current_state = "preauth"
    BY <2>1 DEF Receive
  <2>3. client = "patient" /\ my_sock = "open" /\ ~LeavingWorld'
    BY <2>1, <2>2 DEF client_side, ScheduleTransition, LeavingWorld
  <2>4. Question(Head(to_server))
    BY <2>1, <2>3, QuestionRead
  <2>5. ok_response \in ServerPackets
    BY DEF ServerPackets
  <2>6. Answers = {} => \A i, j \in Answers' : i = j
    BY <1>0, <2>1, <2>5, SaysOneAnswer
  <2>7. QED
    BY <1>0, <2>2, <2>3, <2>4, <2>6, QuestionTaken
<1>8. CASE LoginRejected \/ SelectFails \/ LobbyClose \/ InGameClose \/ RecvError
  <2>1. my_sock' = "null"
    BY <1>8 DEF LoginRejected, SelectFails, LobbyClose, InGameClose, RecvError, ForceClose
  <2>2. QED
    BY <2>1
<1>9. CASE SelectCharacter
  <2>1. /\ Receive("lobby") /\ ScheduleTransition("ingame") /\ Request = "select_character"
    BY <1>9 DEF SelectCharacter
  <2>2. UNCHANGED <<client_side, link>> /\ to_server # << >> /\ to_server' = Tail(to_server)
    BY <2>1 DEF Receive
  <2>3. client = "patient" /\ my_sock = "open" /\ ~LeavingWorld'
    BY <2>1, <2>2 DEF client_side, ScheduleTransition, LeavingWorld
  <2>4. Question(Head(to_server))
    BY <2>1, <2>3, QuestionRead
  <2>5. PICK friends \in {<< >>, <<friend_online_while_you_login>>} :
          Send(<<character_selected>> \o friends)
    BY <1>9 DEF SelectCharacter
  <2> DEFINE packets == <<character_selected>> \o friends
  <2>6. /\ character_selected \in ServerPackets /\ friend_online_while_you_login \in ServerPackets
        /\ ~MovesClient(friend_online_while_you_login)
    BY PacketFacts DEF ServerPackets, News
  <2>7. /\ packets \in Seq(ServerPackets)
        /\ \A i \in DOMAIN packets : i = 1 \/ packets[i] = friend_online_while_you_login
    <3>1. CASE friends = << >>
      BY <2>6, <3>1
    <3>2. CASE friends = <<friend_online_while_you_login>>
      BY <2>6, <3>2
    <3>3. QED
      BY <3>1, <3>2
  <2>8. Send(packets)
    BY <2>5
  <2> HIDE DEF packets
  <2>9. Answers = {} => \A i, j \in Answers' : i = j
    BY <1>0, <2>6, <2>7, <2>8, SaidBehind
  <2>10. QED
    BY <1>0, <2>2, <2>3, <2>4, <2>9, QuestionTaken
<1>10. CASE CreateCharacter \/ DeleteCharacter
  <2>1. PICK p \in LobbyReplies : Send(<<p>>)
    BY <1>10 DEF CreateCharacter, DeleteCharacter, LobbyReplies
  <2>2. p \in ServerPackets /\ ~MovesClient(p)
    BY PacketFacts DEF ServerPackets
  <2>3. Answers' = Answers
    BY <1>0, <2>1, <2>2, SaysNothingNew
  <2>4. Receive("lobby") /\ ReadAgain
    BY <1>10 DEF CreateCharacter, DeleteCharacter
  <2>5. QED
    BY <1>0, <2>3, <2>4, PatientGoesOn, ReadAgainPhase DEF Receive, ReadAgain, LeavingWorld
<1>11. CASE LogOffToLobby
  <2>1. /\ Receive("ingame") /\ ScheduleTransition("lobby") /\ Request = "log_off_to_lobby"
        /\ UNCHANGED to_client
    BY <1>11 DEF LogOffToLobby
  <2>2. UNCHANGED <<client_side, link>> /\ to_server # << >> /\ to_server' = Tail(to_server)
    BY <2>1 DEF Receive
  <2>3. client = "patient" /\ my_sock = "open"
    BY <2>1, <2>2 DEF client_side, ScheduleTransition
  <2>4. Question(Head(to_server)) /\ Answers' = Answers
    BY <2>1, <2>3, QuestionRead DEF Answers
  <2>5. QED
    BY <1>0, <2>2, <2>3, <2>4, QuestionTaken
<1>12. CASE InGameRequest \/ UnknownRequest
  <2>1. /\ Receive("lobby") \/ Receive("ingame")
        /\ ReadAgain /\ UNCHANGED to_client
    BY <1>12 DEF InGameRequest, UnknownRequest
  <2>2. Answers' = Answers
    BY <2>1 DEF Answers
  <2>3. QED
    BY <1>0, <2>1, <2>2, PatientGoesOn, ReadAgainPhase DEF Receive, ReadAgain, LeavingWorld
<1>13. CASE RunTransition
  <2>1. /\ my_sock = "open" /\ UNCHANGED <<client_side, link, to_server>>
        /\ current_state' = awaiting /\ awaiting' = "none" /\ ~LeavingWorld'
        /\ \/ current_state = "preauth" /\ awaiting = "lobby"
           \/ current_state = "lobby" /\ awaiting = "ingame"
           \/ current_state = "ingame" /\ awaiting = "lobby"
    BY <1>0, <1>13 DEF RunTransition, ServerFits, LeavingWorld
  <2>2. CASE current_state # "ingame"
    <3>1. Send(<< >>) /\ ServerPhase' = ServerPhase
      BY <1>13, <2>1, <2>2 DEF RunTransition, ServerPhase, InWorld
    <3>2. << >> \in Seq(ServerPackets) /\ DOMAIN << >> = {}
      OBVIOUS
    <3>3. Answers' = Answers
      BY <1>0, <3>1, <3>2, SaidBehind
    <3>4. QED
      BY <1>0, <2>1, <3>1, <3>3, PatientGoesOn
  <2>3. CASE current_state = "ingame"
    <3>1. Send(<<moved_to_lobby>>) /\ moved_to_lobby \in ServerPackets /\ LeavingWorld
      BY <1>13, <2>1, <2>3 DEF RunTransition, ServerPackets, LeavingWorld
    <3>2. Answers = {} => \A i, j \in Answers' : i = j
      BY <1>0, <3>1, SaysOneAnswer
    <3>3. client = "patient" /\ UNCHANGED <<client, cs, command, asked>>
      BY <2>1 DEF client_side
    <3>4. to_server = << >>
      BY <2>1, <3>1, <3>3 DEF PatientInv, QueueFits
    <3>5. to_server' = << >> /\ Questions' = {} /\ DOMAIN to_server' = {}
      BY <2>1, <3>4 DEF Questions
    <3>6. QueueFits'
      BY <2>1, <3>5 DEF QueueFits
    <3>7. Connected' => Connected
      BY <2>1, <3>3 DEF Connected, Running
    <3>8. Connected => Answers = {} /\ command = << >> /\ (asked \/ cs = "preauth")
      BY <3>1, <3>3 DEF PatientInv, OneQuestion
    <3>9. OneQuestion'
      BY <2>1, <3>2, <3>3, <3>5, <3>7, <3>8 DEF OneQuestion
    <3>10. QED
      BY <3>6, <3>9 DEF PatientInv
  <2>4. QED
    BY <2>2, <2>3
<1>14. CASE RunDatabase
  <2>1. /\ UNCHANGED <<client_side, link, to_server, to_client, my_sock, current_state, awaiting>>
    BY <1>14 DEF RunDatabase, wire
  <2>2. Answers' = Answers /\ ServerPhase' = ServerPhase /\ LeavingWorld' = LeavingWorld
    BY <2>1 DEF Answers, ServerPhase, InWorld, LeavingWorld
  <2>3. QED
    BY <1>0, <2>1, <2>2, PatientGoesOn
<1>15. CASE RunLobbyChars
  <2>1. /\ Send(<<character_list>>)
        /\ UNCHANGED <<client_side, link, to_server, my_sock, current_state, awaiting>>
    BY <1>15 DEF RunLobbyChars
  <2>2. character_list \in ServerPackets /\ ~MovesClient(character_list)
    BY PacketFacts DEF ServerPackets, LobbyReplies
  <2>3. Answers' = Answers
    BY <1>0, <2>1, <2>2, SaysNothingNew
  <2>4. ServerPhase' = ServerPhase /\ LeavingWorld' = LeavingWorld
    BY <2>1 DEF ServerPhase, InWorld, LeavingWorld
  <2>5. QED
    BY <1>0, <2>1, <2>3, <2>4, PatientGoesOn
<1>16. CASE RunFinalize
  BY <1>16 DEF RunFinalize
<1>17. CASE NewsArrive
  <2>1. PICK p \in News : Send(<<p>>)
    BY <1>17 DEF NewsArrive
  <2>2. p \in ServerPackets /\ ~MovesClient(p)
    BY PacketFacts DEF ServerPackets
  <2>3. Answers' = Answers
    BY <1>0, <2>1, <2>2, SaysNothingNew
  <2>4. /\ UNCHANGED <<client_side, link, to_server, my_sock, current_state, awaiting>>
    BY <1>17 DEF NewsArrive, server_side
  <2>5. ServerPhase' = ServerPhase /\ LeavingWorld' = LeavingWorld
    BY <2>4 DEF ServerPhase, InWorld, LeavingWorld
  <2>6. QED
    BY <1>0, <2>3, <2>4, <2>5, PatientGoesOn
<1>18. CASE UNCHANGED protocol_vars
  <2>1. /\ UNCHANGED <<client_side, link, to_server, to_client, my_sock, current_state, awaiting>>
    BY <1>18 DEF protocol_vars, wire, server_side
  <2>2. Answers' = Answers /\ ServerPhase' = ServerPhase /\ LeavingWorld' = LeavingWorld
    BY <2>1 DEF Answers, ServerPhase, InWorld, LeavingWorld
  <2>3. QED
    BY <1>0, <2>1, <2>2, PatientGoesOn
<1>19. QED
  BY <1>1, <1>2, <1>3, <1>4, <1>5, <1>6, <1>7, <1>8, <1>9, <1>10, <1>11, <1>12, <1>13, <1>14,
     <1>15, <1>16, <1>17, <1>18 DEF ProtocolNext, Handler, ServerTask

\* A user who waits for the answer to what changes the phase is never
\* misunderstood: the server reads each of his packets in the phase it was typed
\* in, and finds in it what it expects.
THEOREM PatientUsersUnderstood == ProtocolSpec => []CommandsReadAsMeant
<1>1. TalkInv /\ PatientInv => CommandsReadAsMeant
  BY PatientReads DEF CommandsReadAsMeant
<1>2. TalkInv /\ PatientInv /\ [ProtocolNext]_protocol_vars => PatientInv'
  BY PatientStep
<1>3. QED
  BY <1>1, <1>2, PatientStart, TalkKept, PTL DEF ProtocolSpec


(***************************************************************************)
(* The conversation is one of the connections of Session.                  *)
(***************************************************************************)

\* A session that does not exist has nothing to read.
NothingWaits == next = "none" => to_server = << >>

\* Every step keeps this: what is on its way to the server has a session to read it.
LEMMA NothingWaitsStep ==
  TalkInv /\ NothingWaits /\ [ProtocolNext]_protocol_vars => NothingWaits'
<1> SUFFICES ASSUME ServerFits, NothingWaits, [ProtocolNext]_protocol_vars, next' = "none"
             PROVE  to_server' = << >>
  BY DEF NothingWaits, TalkInv
<1>1. CASE RunFinalize
  BY <1>1 DEF RunFinalize
<1>2. CASE SendCommand
  BY <1>2 DEF SendCommand, server_side, NothingWaits, ServerFits
<1>3. CASE TypeCommand \/ ClientReceives \/ ClientError \/ ClientQuits \/ LinkLost \/ NewsArrive
           \/ UNCHANGED protocol_vars
  BY <1>3 DEF TypeCommand, ClientReceives, ClientError, ClientQuits, LinkLost, NewsArrive,
     protocol_vars, server_side, wire, NothingWaits
<1>4. CASE Connect \/ Handler \/ RunTransition \/ RunDatabase \/ RunLobbyChars
  BY <1>4 DEF Connect, Handler, LoginAccepted, LoginRejected, SelectCharacter, SelectFails,
     CreateCharacter, DeleteCharacter, LobbyClose, LogOffToLobby, InGameRequest, InGameClose,
     UnknownRequest, RecvError, ReadAgain, ForceClose, ScheduleTransition,
     RunTransition, RunDatabase, RunLobbyChars
<1>5. QED
  BY <1>1, <1>2, <1>3, <1>4 DEF ProtocolNext, ServerTask

\* A strand with one task.
LEMMA OneTask ==
  ASSUME NEW task
  PROVE  /\ Append(<< >>, task) = <<task>> /\ Tail(<<task>>) = << >>
         /\ Head(<<task>>) = task /\ <<task>> # << >>
OBVIOUS

\* While the session reads there is no task of it on either strand.
LEMMA SessionReads ==
  ASSUME TalkInv, next = "read"
  PROVE  /\ my_sock = "open" /\ awaiting = "none" /\ current_state \in Phases
         /\ to_server \in Seq(Commands)
BY DEF TalkInv, ServerFits, CommandsOK

\* What the two modules' handlers are made of.
LEMMA SessionReceives ==
  ASSUME TalkInv, NEW state, Receive(state), UNCHANGED current_state
  PROVE  OneSession!Receive(TheSession, state)
<1>1. /\ next = "read" /\ current_state = state /\ to_server # << >>
      /\ to_server' = Tail(to_server) /\ UNCHANGED <<client, link>>
  BY DEF Receive, client_side
<1>2. Len(to_server) \in Nat /\ Len(to_server) > 0 /\ Len(to_server') = Len(to_server) - 1
  BY <1>1, SessionReads
<1>3. UNCHANGED Exists /\ UNCHANGED Running
  BY <1>1 DEF Exists, Running
<1>4. QED
  BY <1>1, <1>2, <1>3 DEF OneSession!Receive, OneSession!Up, TheSession, ForTheSession

\* A handler that closes does to the one session what ForceClose does to any.
LEMMA SessionCloses ==
  ASSUME TalkInv, next = "read", ForceClose
  PROVE  /\ OneSession!ForceClose(TheSession)
         /\ OneSession!NotReading(TheSession) /\ OneSession!ReadAgain(TheSession)
<1>1. my_sock' = "null" /\ next' = "finalize" /\ UNCHANGED <<current_state, awaiting>>
      /\ awaiting = "none"
  BY SessionReads DEF ForceClose
<1>2. UNCHANGED InWorld
  BY <1>1 DEF InWorld
<1>3. OneSession!ForceClose(TheSession)
  BY <1>1, <1>2, OneTask DEF OneSession!ForceClose, OneSession!Post, OneSession!Task,
     TheSession, ForTheSession
<1>4. OneSession!NotReading(TheSession) /\ OneSession!ReadAgain(TheSession)
  BY <1>1 DEF OneSession!NotReading, OneSession!ReadAgain, TheSession, ForTheSession
<1>5. QED
  BY <1>3, <1>4

\* The same for one that schedules a transition.
LEMMA SessionSchedules ==
  ASSUME TalkInv, next = "read", NEW state \in {"lobby", "ingame"}, ScheduleTransition(state)
  PROVE  /\ OneSession!ScheduleTransition(TheSession, state)
         /\ OneSession!NotReading(TheSession) /\ OneSession!ReadAgain(TheSession)
<1>1. /\ awaiting' = state /\ next' = "transition" /\ UNCHANGED <<current_state, my_sock>>
      /\ state # "none"
  BY SessionReads DEF ScheduleTransition
<1>2. OneSession!Post(OneSession!Task("transition", TheSession))
  BY <1>1, OneTask DEF OneSession!Post, OneSession!Task
<1>3. OneSession!ScheduleTransition(TheSession, state)
  BY <1>1, <1>2 DEF OneSession!ScheduleTransition, TheSession, ForTheSession
<1>4. OneSession!NotReading(TheSession) /\ OneSession!ReadAgain(TheSession)
  BY <1>1 DEF OneSession!NotReading, OneSession!ReadAgain, TheSession, ForTheSession
<1>5. QED
  BY <1>3, <1>4

\* The same for one that reads again.
LEMMA SessionReadsAgain ==
  ASSUME TalkInv, next = "read", ReadAgain, current_state \in {"lobby", "ingame"}
  PROVE  /\ OneSession!ReadAgain(TheSession)
         /\ UNCHANGED <<ForTheSession(my_sock), OneSession!object>>
<1>1. /\ my_sock = "open" /\ awaiting = "none" /\ next' = "read"
      /\ UNCHANGED <<my_sock, current_state, awaiting>>
  BY SessionReads DEF ReadAgain
<1>2. UNCHANGED InWorld
  BY <1>1 DEF InWorld
<1>3. OneSession!ReadAgain(TheSession)
  BY <1>1 DEF OneSession!ReadAgain, TheSession, ForTheSession
<1>4. UNCHANGED <<ForTheSession(my_sock), OneSession!object>>
  BY <1>1, <1>2 DEF OneSession!object, TheSession, ForTheSession
<1>5. QED
  BY <1>3, <1>4

\* Handlers and tasks, one by one.
LEMMA LoginIsSessions ==
  ASSUME TalkInv, LoginAccepted \/ LoginRejected
  PROVE  OneSession!Preauth(TheSession)
<1>1. next = "read" /\ next' # "query" /\ UNCHANGED current_state /\ Receive("preauth")
  BY DEF LoginAccepted, LoginRejected, Receive, ScheduleTransition, ForceClose
<1>2. OneSession!Receive(TheSession, "preauth") /\ current_state = "preauth" /\ awaiting = "none"
      /\ my_sock = "open"
  BY <1>1, SessionReceives, SessionReads DEF Receive
<1>3. CASE LoginAccepted
  <2>1. ScheduleTransition("lobby")
    BY <1>3 DEF LoginAccepted
  <2>2. awaiting' = "lobby" /\ UNCHANGED <<my_sock, InWorld>>
    BY <1>1, <1>2, <2>1 DEF ScheduleTransition, InWorld
  <2>3. /\ OneSession!ScheduleTransition(TheSession, "lobby")
        /\ OneSession!NotReading(TheSession)
    BY <1>1, <2>1, SessionSchedules
  <2>4. OneSession!LoginAllowed(TheSession, "account")
    BY DEF OneSession!LoginAllowed
  <2>5. OneSession!LoginAccepted(TheSession, "account")
    BY <1>1, <1>2, <2>2, <2>3, <2>4 DEF OneSession!LoginAccepted, TheSession, ForTheSession
  <2>6. QED
    BY <2>5 DEF OneSession!Preauth
<1>4. CASE LoginRejected
  <2>1. ForceClose
    BY <1>4 DEF LoginRejected
  <2>2. OneSession!ForceClose(TheSession) /\ OneSession!NotReading(TheSession)
    BY <1>1, <2>1, SessionCloses
  <2>3. UNCHANGED InWorld
    BY <2>1 DEF ForceClose, InWorld
  <2>4. OneSession!LoginRejected(TheSession)
    BY <1>1, <1>2, <2>2, <2>3 DEF OneSession!LoginRejected
  <2>5. QED
    BY <2>4 DEF OneSession!Preauth
<1>5. QED
  BY <1>3, <1>4

\* Each handler of the lobby is one of Session.
LEMMA LobbyIsSessions ==
  ASSUME TalkInv, Receive("lobby"),
         \/ SelectCharacter \/ SelectFails \/ CreateCharacter \/ DeleteCharacter
         \/ LobbyClose \/ UnknownRequest
  PROVE  OneSession!Lobby(TheSession)
<1>1. next = "read" /\ next' # "query" /\ UNCHANGED current_state
  BY DEF SelectCharacter, SelectFails, CreateCharacter, DeleteCharacter, LobbyClose,
     UnknownRequest, Receive, ScheduleTransition, ForceClose, ReadAgain
<1>2. OneSession!Receive(TheSession, "lobby") /\ current_state = "lobby" /\ awaiting = "none"
      /\ my_sock = "open" /\ ~InWorld
  BY <1>1, SessionReceives, SessionReads DEF Receive, InWorld
<1>3. CASE SelectCharacter
  <2>1. ScheduleTransition("ingame")
    BY <1>3 DEF SelectCharacter
  <2>2. awaiting' = "ingame" /\ UNCHANGED my_sock /\ InWorld'
    BY <2>1 DEF ScheduleTransition, InWorld
  <2>3. /\ OneSession!ScheduleTransition(TheSession, "ingame")
        /\ OneSession!ReadAgain(TheSession)
    BY <1>1, <2>1, SessionSchedules
  <2>4. OneSession!EnterWorld(TheSession, "character")
    BY <1>2, <2>2 DEF OneSession!EnterWorld, OneSession!Register, TheSession, ForTheSession
  <2>5. OneSession!Select(TheSession, "character")
    BY <1>1, <1>2, <2>2, <2>3, <2>4 DEF OneSession!Select, TheSession, ForTheSession
  <2>6. QED
    BY <2>5 DEF OneSession!Lobby
<1>4. CASE SelectFails \/ LobbyClose
  <2>1. ForceClose
    BY <1>4 DEF SelectFails, LobbyClose
  <2>2. OneSession!ForceClose(TheSession) /\ OneSession!ReadAgain(TheSession)
    BY <1>1, <2>1, SessionCloses
  <2>3. UNCHANGED InWorld
    BY <2>1 DEF ForceClose, InWorld
  <2>4. OneSession!LobbyClose(TheSession)
    BY <1>1, <1>2, <2>2, <2>3 DEF OneSession!LobbyClose
  <2>5. QED
    BY <2>4 DEF OneSession!Lobby
<1>5. CASE CreateCharacter \/ DeleteCharacter \/ UnknownRequest
  <2>1. ReadAgain
    BY <1>5 DEF CreateCharacter, DeleteCharacter, UnknownRequest
  <2>2. /\ OneSession!ReadAgain(TheSession)
        /\ UNCHANGED <<ForTheSession(my_sock), OneSession!object>>
    BY <1>1, <1>2, <2>1, SessionReadsAgain
  <2>3. UNCHANGED InWorld /\ next' = "read"
    BY <2>1 DEF ReadAgain, InWorld
  <2>4. OneSession!LobbyRequest(TheSession)
    BY <1>1, <1>2, <2>2, <2>3 DEF OneSession!LobbyRequest
  <2>5. QED
    BY <2>4 DEF OneSession!Lobby
<1>6. QED
  BY <1>3, <1>4, <1>5

\* Each handler of the game is one of Session.
LEMMA InGameIsSessions ==
  ASSUME TalkInv, Receive("ingame"),
         LogOffToLobby \/ InGameRequest \/ InGameClose \/ UnknownRequest
  PROVE  OneSession!InGame(TheSession)
<1>1. next = "read" /\ next' # "query" /\ UNCHANGED current_state
  BY DEF LogOffToLobby, InGameRequest, InGameClose, UnknownRequest, Receive,
     ScheduleTransition, ForceClose, ReadAgain
<1>2. OneSession!Receive(TheSession, "ingame") /\ current_state = "ingame" /\ awaiting = "none"
      /\ my_sock = "open" /\ InWorld /\ InWorld'
  BY <1>1, SessionReceives, SessionReads DEF Receive, InWorld
<1>3. CASE LogOffToLobby
  <2>1. ScheduleTransition("lobby")
    BY <1>3 DEF LogOffToLobby
  <2>2. awaiting' = "lobby" /\ UNCHANGED my_sock
    BY <2>1 DEF ScheduleTransition
  <2>3. /\ OneSession!ScheduleTransition(TheSession, "lobby")
        /\ OneSession!ReadAgain(TheSession)
    BY <1>1, <2>1, SessionSchedules
  <2>4. OneSession!LogOffToLobby(TheSession)
    BY <1>1, <1>2, <2>2, <2>3 DEF OneSession!LogOffToLobby, TheSession, ForTheSession
  <2>5. QED
    BY <2>4 DEF OneSession!InGame
<1>4. CASE InGameClose
  <2>1. ForceClose
    BY <1>4 DEF InGameClose
  <2>2. OneSession!ForceClose(TheSession) /\ OneSession!NotReading(TheSession)
    BY <1>1, <2>1, SessionCloses
  <2>3. OneSession!InGameClose(TheSession)
    BY <1>1, <1>2, <2>2 DEF OneSession!InGameClose
  <2>4. QED
    BY <2>3 DEF OneSession!InGame
<1>5. CASE InGameRequest \/ UnknownRequest
  <2>1. ReadAgain
    BY <1>5 DEF InGameRequest, UnknownRequest
  <2>2. /\ OneSession!ReadAgain(TheSession)
        /\ UNCHANGED <<ForTheSession(my_sock), OneSession!object>>
    BY <1>1, <1>2, <2>1, SessionReadsAgain
  <2>3. next' = "read"
    BY <2>1 DEF ReadAgain
  <2>4. OneSession!InGameRequest(TheSession)
    BY <1>1, <1>2, <2>2, <2>3 DEF OneSession!InGameRequest
  <2>5. QED
    BY <2>4 DEF OneSession!InGame
<1>6. QED
  BY <1>3, <1>4, <1>5

\* A failed read is one of Session.
LEMMA ErrorIsSessions ==
  ASSUME TalkInv, RecvError
  PROVE  OneSession!RecvError(TheSession)
<1>1. /\ next = "read" /\ (link = "lost" \/ ~Running) /\ ForceClose
      /\ UNCHANGED <<client, link, to_server>>
  BY DEF RecvError, client_side, wire
<1>2. OneSession!ForceClose(TheSession) /\ OneSession!NotReading(TheSession)
  BY <1>1, SessionCloses
<1>3. /\ UNCHANGED InWorld /\ UNCHANGED Exists /\ UNCHANGED Running
      /\ next' # "query"
  BY <1>1 DEF ForceClose, InWorld, Exists, Running
<1>4. QED
  BY <1>1, <1>2, <1>3 DEF OneSession!RecvError, OneSession!Up, TheSession, ForTheSession

\* The task of a transition is that of Session.
LEMMA TransitionIsSessions ==
  ASSUME TalkInv, RunTransition
  PROVE  OneSession!RunTransition(TheSession)
<1>1. /\ next = "transition" /\ my_sock = "open" /\ UNCHANGED <<client, link, to_server, my_sock>>
      /\ current_state' = awaiting /\ awaiting' = "none"
      /\ next' = IF awaiting = "lobby" THEN "query" ELSE "read"
      /\ \/ current_state = "preauth" /\ awaiting = "lobby"
         \/ current_state = "lobby" /\ awaiting = "ingame"
         \/ current_state = "ingame" /\ awaiting = "lobby"
  BY DEF RunTransition, TalkInv, ServerFits, client_side
<1>2. UNCHANGED Exists /\ UNCHANGED Running
  BY <1>1 DEF Exists, Running
<1>3. OneSession!LeaveWorld(TheSession)
  <2>1. CASE current_state = "ingame"
    <3>1. ~InWorld' /\ InWorld
      BY <1>1, <2>1 DEF InWorld
    <3>2. QED
      BY <2>1, <3>1 DEF OneSession!LeaveWorld, OneSession!Unregister, TheSession, ForTheSession
  <2>2. CASE current_state # "ingame"
    <3>1. UNCHANGED InWorld
      BY <1>1, <2>2 DEF InWorld
    <3>2. QED
      BY <2>2, <3>1 DEF OneSession!LeaveWorld, TheSession, ForTheSession
  <2>3. QED
    BY <2>1, <2>2
<1>4. OneSession!IsNext(OneSession!Task("transition", TheSession))
  BY <1>1, OneTask DEF OneSession!IsNext, OneSession!Task
<1>5. QED
  BY <1>1, <1>2, <1>3, <1>4, OneTask DEF OneSession!RunTransition, OneSession!Up,
     TheSession, ForTheSession

\* The task of the database strand is that of Session.
LEMMA DatabaseIsSessions ==
  ASSUME TalkInv, RunDatabase
  PROVE  OneSession!RunDatabase
<1>1. /\ next = "query" /\ next' = "lobby_chars" /\ my_sock = "open" /\ current_state = "lobby"
      /\ UNCHANGED <<client, link, to_server, my_sock, current_state, awaiting>>
  BY DEF RunDatabase, TalkInv, ServerFits, client_side, wire
<1>2. UNCHANGED Exists /\ UNCHANGED Running /\ UNCHANGED InWorld
  BY <1>1 DEF Exists, Running, InWorld
<1>3. UNCHANGED <<OneSession!connection, OneSession!object>>
  BY <1>1, <1>2 DEF OneSession!connection, OneSession!object
<1>4. QED
  BY <1>1, <1>2, <1>3, OneTask DEF OneSession!RunDatabase, OneSession!Up, OneSession!Post,
     OneSession!Task

\* The answer of the database is that of Session.
LEMMA LobbyCharsIsSessions ==
  ASSUME TalkInv, RunLobbyChars
  PROVE  OneSession!RunLobbyChars(TheSession)
<1>1. /\ next = "lobby_chars" /\ next' = "read" /\ my_sock = "open" /\ current_state = "lobby"
      /\ UNCHANGED <<client, link, to_server, my_sock, current_state, awaiting>>
  BY DEF RunLobbyChars, TalkInv, ServerFits, client_side
<1>2. UNCHANGED Exists /\ UNCHANGED Running /\ UNCHANGED InWorld
  BY <1>1 DEF Exists, Running, InWorld
<1>3. UNCHANGED OneSession!object
  BY <1>1, <1>2 DEF OneSession!object
<1>4. OneSession!IsNext(OneSession!Task("lobby_chars", TheSession))
  BY <1>1, OneTask DEF OneSession!IsNext, OneSession!Task
<1>5. QED
  BY <1>1, <1>2, <1>3, <1>4, OneTask DEF OneSession!RunLobbyChars, OneSession!Up,
     TheSession, ForTheSession

\* The task that destroys the session is that of Session.
LEMMA FinalizeIsSessions ==
  ASSUME TalkInv, RunFinalize
  PROVE  OneSession!RunFinalize(TheSession)
<1>1. /\ next = "finalize" /\ next' = "none" /\ awaiting = "none" /\ awaiting' = "none"
      /\ my_sock' = "none" /\ current_state' = "none" /\ to_server' = << >>
  BY DEF RunFinalize, TalkInv, ServerFits
<1>2. ~Exists' /\ ~InWorld' /\ Len(to_server') = 0
  BY <1>1 DEF Exists, InWorld
<1>3. OneSession!LeaveWorld(TheSession)
  <2>1. CASE current_state = "ingame"
    <3>1. InWorld
      BY <2>1 DEF InWorld
    <3>2. QED
      BY <1>2, <2>1, <3>1 DEF OneSession!LeaveWorld, OneSession!Unregister, TheSession,
         ForTheSession
  <2>2. CASE current_state # "ingame"
    <3>1. ~InWorld
      BY <1>1, <2>2 DEF InWorld
    <3>2. QED
      BY <1>2, <2>2, <3>1 DEF OneSession!LeaveWorld, TheSession, ForTheSession
  <2>3. QED
    BY <2>1, <2>2
<1>4. OneSession!IsNext(OneSession!Task("finalize", TheSession))
  BY <1>1, OneTask DEF OneSession!IsNext, OneSession!Task
<1>5. /\ ForTheSession(Len(to_server))' = [ForTheSession(Len(to_server)) EXCEPT ![TheSession] = 0]
      /\ ForTheSession(current_state)' = [ForTheSession(current_state) EXCEPT ![TheSession] = "none"]
      /\ ForTheSession(my_sock)' = [ForTheSession(my_sock) EXCEPT ![TheSession] = "none"]
      /\ UNCHANGED ForTheSession(awaiting) /\ UNCHANGED ForTheSession(next = "read")
  <2>1. ForTheSession(Len(to_server))' = [ForTheSession(Len(to_server)) EXCEPT ![TheSession] = 0]
    BY <1>2 DEF TheSession, ForTheSession
  <2>2. (next = "read") = FALSE /\ (next = "read")' = FALSE
    BY <1>1
  <2>3. UNCHANGED ForTheSession(next = "read")
    BY <2>2 DEF ForTheSession
  <2>4. QED
    BY <1>1, <2>1, <2>3 DEF TheSession, ForTheSession
<1>6. QED
  BY <1>1, <1>2, <1>3, <1>4, <1>5, OneTask DEF OneSession!RunFinalize, OneSession!Up,
     TheSession, ForTheSession

\* A client that connects is a connection accepted by Session.
LEMMA ConnectIsSessions ==
  ASSUME TalkInv, NothingWaits, Connect
  PROVE  OneSession!Accept(TheSession)
<1>1. current_state = "none" /\ next = "none" /\ awaiting = "none" /\ my_sock = "none"
  BY DEF Connect, Exists, TalkInv, VarsOK, ServerFits, Phases
<1>2. to_server = << >> /\ to_server' = << >> /\ Len(to_server) = Len(to_server')
  BY <1>1 DEF NothingWaits, Connect
<1>3. /\ my_sock' = "open" /\ current_state' = "preauth" /\ awaiting' = "none" /\ next' = "read"
      /\ Running' /\ Exists' /\ link' = "up" /\ ~InWorld /\ ~InWorld'
  BY <1>1 DEF Connect, Running, Exists, InWorld
<1>4. OneSession!Up /\ ~OneSession!Exists(TheSession)
  BY <1>1 DEF OneSession!Up, OneSession!Exists, TheSession, ForTheSession
<1>5. QED
  BY <1>1, <1>2, <1>3, <1>4 DEF OneSession!Accept, TheSession, ForTheSession

\* Whatever the client and the network do, the server sees a packet or a loss.
LEMMA SendIsSessions ==
  ASSUME TalkInv, SendCommand
  PROVE  OneSession!ClientSends(TheSession) \/ UNCHANGED OneSession!vars
<1>1. Running /\ UNCHANGED <<client, link, my_sock, current_state, awaiting, next>>
  BY DEF SendCommand, server_side
<1>2. UNCHANGED Exists /\ UNCHANGED Running /\ UNCHANGED InWorld
  BY <1>1 DEF Exists, Running, InWorld
<1>3. UNCHANGED OneSession!object
  BY <1>1, <1>2 DEF OneSession!object
<1>4. CASE link = "up" /\ my_sock = "open"
  <2>1. PICK c \in Commands : command = <<c>>
    BY DEF TalkInv, CommandsOK, SendCommand
  <2>2. to_server' = to_server \o <<c>> /\ to_server \in Seq(Commands)
        /\ Len(to_server) < Pipelined
    BY <1>4, <2>1 DEF SendCommand, TalkInv, CommandsOK
  <2>3. Len(to_server') = Len(to_server) + 1
    BY <2>2
  <2>4. Exists
    BY <1>4 DEF Exists, TalkInv, VarsOK, ServerFits, Phases
  <2>5. OneSession!ClientSends(TheSession)
    BY <1>1, <1>2, <1>3, <1>4, <2>2, <2>3, <2>4 DEF OneSession!ClientSends, OneSession!Up,
       TheSession, ForTheSession
  <2>6. QED
    BY <2>5
<1>5. CASE ~(link = "up" /\ my_sock = "open")
  <2>1. UNCHANGED to_server
    BY <1>5 DEF SendCommand
  <2>2. QED
    BY <1>1, <1>2, <1>3, <2>1 DEF OneSession!vars, OneSession!connection
<1>6. QED
  BY <1>4, <1>5

\* Whatever else client and network do, the session loses its peer or nothing
\* happens to it.
LEMMA LossIsSessions ==
  ASSUME UNCHANGED <<to_server, server_side>>,
         \/ ~Running' /\ link' = link
         \/ UNCHANGED <<client, link>>
         \/ client' = client /\ link = "up" /\ link' = "lost"
  PROVE  OneSession!PeerLost(TheSession) \/ UNCHANGED OneSession!vars
<1>1. UNCHANGED <<my_sock, current_state, awaiting, next>>
  BY DEF server_side
<1>2. UNCHANGED Exists /\ UNCHANGED InWorld
  BY <1>1 DEF Exists, InWorld
<1>3. UNCHANGED OneSession!object
  BY <1>1, <1>2 DEF OneSession!object
<1> DEFINE up == Exists /\ Running /\ link = "up"
<1>4. UNCHANGED up \/ (up /\ ~up')
  BY <1>2 DEF Running
<1>5. CASE UNCHANGED up
  BY <1>1, <1>2, <1>3, <1>5 DEF OneSession!vars, OneSession!connection
<1>6. CASE up /\ ~up'
  BY <1>1, <1>2, <1>3, <1>6 DEF OneSession!PeerLost, OneSession!Up, TheSession, ForTheSession
<1>7. QED
  BY <1>4, <1>5, <1>6

\* Every step is one of Session.
LEMMA SessionStep ==
  TalkInv /\ NothingWaits /\ [ProtocolNext]_protocol_vars
    => [OneSession!Next]_(OneSession!vars)
<1> SUFFICES ASSUME TalkInv, NothingWaits, [ProtocolNext]_protocol_vars
             PROVE  OneSession!Next \/ UNCHANGED OneSession!vars
  OBVIOUS
<1>1. CASE Connect
  BY <1>1, ConnectIsSessions DEF OneSession!Next, OneSession!Client
<1>2. CASE SendCommand
  BY <1>2, SendIsSessions DEF OneSession!Next, OneSession!Client
<1>3. CASE TypeCommand \/ ClientReceives \/ ClientError \/ ClientQuits \/ LinkLost \/ NewsArrive
           \/ UNCHANGED protocol_vars
  <2>1. /\ UNCHANGED <<to_server, server_side>>
        /\ \/ ~Running' /\ link' = link
           \/ UNCHANGED <<client, link>>
           \/ client' = client /\ link = "up" /\ link' = "lost"
    BY <1>3 DEF TypeCommand, ClientReceives, ClientError, ClientQuits, LinkLost, NewsArrive,
       Exit, Running, Users, protocol_vars, client_side, wire
  <2>2. QED
    BY <2>1, LossIsSessions DEF OneSession!Next, OneSession!Client
<1>4. CASE LoginAccepted \/ LoginRejected
  BY <1>4, LoginIsSessions DEF OneSession!Next
<1>5. CASE SelectCharacter \/ SelectFails \/ CreateCharacter \/ DeleteCharacter \/ LobbyClose
  <2>1. Receive("lobby")
    BY <1>5 DEF SelectCharacter, SelectFails, CreateCharacter, DeleteCharacter, LobbyClose
  <2>2. QED
    BY <1>5, <2>1, LobbyIsSessions DEF OneSession!Next
<1>6. CASE LogOffToLobby \/ InGameRequest \/ InGameClose
  <2>1. Receive("ingame")
    BY <1>6 DEF LogOffToLobby, InGameRequest, InGameClose
  <2>2. QED
    BY <1>6, <2>1, InGameIsSessions DEF OneSession!Next
<1>7. CASE UnknownRequest
  <2>1. Receive("lobby") \/ Receive("ingame")
    BY <1>7 DEF UnknownRequest
  <2>2. QED
    BY <1>7, <2>1, LobbyIsSessions, InGameIsSessions DEF OneSession!Next
<1>8. CASE RecvError
  BY <1>8, ErrorIsSessions DEF OneSession!Next
<1>9. CASE RunTransition \/ RunFinalize \/ RunLobbyChars
  BY <1>9, TransitionIsSessions, FinalizeIsSessions, LobbyCharsIsSessions
     DEF OneSession!Next, OneSession!GameLoop
<1>10. CASE RunDatabase
  BY <1>10, DatabaseIsSessions DEF OneSession!Next
<1>11. QED
  BY <1>1, <1>2, <1>3, <1>4, <1>5, <1>6, <1>7, <1>8, <1>9, <1>10
     DEF ProtocolNext, Handler, ServerTask

\* Seen without the contents of its packets, the server's side of the conversation
\* takes the steps of Session for one connection, whatever the client does.
THEOREM ConversationRefines == ProtocolSpec => ImplementsSession
<1>1. ProtocolInit => OneSession!Init
  <2> SUFFICES ASSUME ProtocolInit PROVE OneSession!Init
    OBVIOUS
  <2>1. ~Exists /\ ~InWorld /\ Len(to_server) = 0
    BY DEF ProtocolInit, Exists, InWorld
  <2>2. /\ my_sock = "none" /\ current_state = "none" /\ awaiting = "none" /\ next = "none"
    BY DEF ProtocolInit
  <2>3. QED
    BY <2>1, <2>2 DEF OneSession!Init, TheSession, ForTheSession
<1>2. ProtocolInit => NothingWaits
  BY DEF ProtocolInit, NothingWaits
<1>3. TalkInv /\ NothingWaits /\ [ProtocolNext]_protocol_vars => NothingWaits'
  BY NothingWaitsStep
<1>4. TalkInv /\ NothingWaits /\ [ProtocolNext]_protocol_vars
      => [OneSession!Next]_(OneSession!vars)
  BY SessionStep
<1>5. QED
  BY <1>1, <1>2, <1>3, <1>4, TalkKept, PTL DEF ProtocolSpec, ImplementsSession, OneSession!Spec
===============================================================================
