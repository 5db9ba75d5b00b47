------------------------------- MODULE Packets --------------------------------
(***************************************************************************)
(* The packets of the two ends.  A packet is an opcode, one byte whose     *)
(* meaning depends on the phase its reader is in, and fields one after     *)
(* another without tags: a reader takes what it expects, fails when the    *)
(* packet is too short for it, and ignores the rest.                       *)
(*                                                                         *)
(* A packet records the phase it was written for; no reader looks at it.   *)
(* What the fields say is left out, only their kinds remain.               *)
(***************************************************************************)
EXTENDS Integers, Sequences, SequencesExt

Phases == {"preauth", "lobby", "ingame"}

(***************************************************************************)
(* The enumerations: the position of a name, from 0, is its opcode.        *)
(***************************************************************************)

PreauthOpcodes == [
  to_client |-> <<"good_boy_good_keys", "fuck_you_bad_keys">>,
  to_server |-> <<"loginserver_keys">>]

LobbyOpcodes == [
  to_client |-> <<"character_list", "character_selected", "character_created",
                  "character_creation_fail">>,
  to_server |-> <<"select_character", "create_character", "delete_character",
                  "log_off">>]

InGameOpcodes == [
  to_client |-> <<"moved_to_lobby", "user_joined_chat", "user_left_chat", "chat_msg",
                  "whisper_message", "friend_online_while_you_login", "friend_login",
                  "friend_leave", "new_friendship", "broken_friendship",
                  "friendship_request", "friend_add_fail", "friend_removal_fail",
                  "friend_add_result">>,
  to_server |-> <<"log_off_to_lobby", "join_chat", "leave_chat", "send_chat_msg",
                  "send_whisper", "friend_add", "friend_remove">>]

Opcodes == [preauth |-> PreauthOpcodes, lobby |-> LobbyOpcodes, ingame |-> InGameOpcodes]

Packet(phase, direction, name, fields) ==
  [phase |-> phase,
   opcode |-> (CHOOSE i \in DOMAIN Opcodes[phase][direction] :
                 Opcodes[phase][direction][i] = name) - 1,
   fields |-> fields]

ToClient(phase, name, fields) == Packet(phase, "to_client", name, fields)
ToServer(phase, name, fields) == Packet(phase, "to_server", name, fields)

\* What a reader in this phase takes the opcode for.
Meaning(packet, phase, direction) ==
  IF packet.opcode + 1 \in DOMAIN Opcodes[phase][direction]
    THEN Opcodes[phase][direction][packet.opcode + 1]
    ELSE "unknown"

(***************************************************************************)
(* What the server writes: the responses of preauth_state and the packet   *)
(* constructors s2c.  An "enum" takes four bytes, a "size" as many as the  *)
(* server's size_t.                                                        *)
(***************************************************************************)

ok_response == ToClient("preauth", "good_boy_good_keys", << >>)
fuck_you_response == ToClient("preauth", "fuck_you_bad_keys", << >>)

character_list == ToClient("lobby", "character_list", <<"size", "characters">>)
character_selected == ToClient("lobby", "character_selected", <<"string">>)
character_created == ToClient("lobby", "character_created", <<"unsigned", "string">>)
character_creation_fail == ToClient("lobby", "character_creation_fail", <<"enum">>)

moved_to_lobby == ToClient("ingame", "moved_to_lobby", << >>)
user_joined_chat == ToClient("ingame", "user_joined_chat", <<"string", "string">>)
user_left_chat == ToClient("ingame", "user_left_chat", <<"string", "string">>)
chat_msg == ToClient("ingame", "chat_msg", <<"string", "string", "string">>)
whisper_message == ToClient("ingame", "whisper_message", <<"string", "string">>)
friend_online_while_you_login ==
  ToClient("ingame", "friend_online_while_you_login", <<"string">>)
friend_login == ToClient("ingame", "friend_login", <<"string">>)
friend_leave == ToClient("ingame", "friend_leave", <<"string">>)
new_friendship == ToClient("ingame", "new_friendship", <<"string">>)
broken_friendship == ToClient("ingame", "broken_friendship", <<"string">>)
friendship_request == ToClient("ingame", "friendship_request", <<"string">>)
friend_add_fail == ToClient("ingame", "friend_add_fail", <<"enum", "string">>)
friend_removal_fail == ToClient("ingame", "friend_removal_fail", <<"string">>)
friend_add_result == ToClient("ingame", "friend_add_result", <<"enum", "string">>)

\* What the chat and the friend system send to a player.
News == {user_joined_chat, user_left_chat, chat_msg, whisper_message,
         friend_online_while_you_login, friend_login, friend_leave, new_friendship,
         broken_friendship, friendship_request, friend_add_fail, friend_removal_fail,
         friend_add_result}

(***************************************************************************)
(* What the client reads, by its phase and by what it takes the opcode     *)
(* for.                                                                    *)
(***************************************************************************)

ClientReadsInPreauth == [
  good_boy_good_keys |-> << >>,
  fuck_you_bad_keys |-> << >>]

ClientReadsInLobby == [
  character_list |-> <<"size", "characters">>,
  character_selected |-> <<"string">>,
  character_created |-> <<"unsigned", "string">>,
  character_creation_fail |-> <<"enum">>]

ClientReadsInGame == [
  moved_to_lobby |-> << >>,
  user_joined_chat |-> <<"string", "string">>,
  user_left_chat |-> <<"string", "string">>,
  chat_msg |-> <<"string", "string", "string">>,
  whisper_message |-> <<"string", "string">>,
  friend_online_while_you_login |-> <<"string">>,
  friend_login |-> <<"string">>,
  friend_leave |-> <<"string">>,
  new_friendship |-> <<"string">>,
  broken_friendship |-> <<"string">>,
  friendship_request |-> <<"string">>,
  friend_add_fail |-> <<"enum", "string">>,
  friend_removal_fail |-> <<"string">>,
  friend_add_result |-> <<"enum", "string">>]

ClientReads == [preauth |-> ClientReadsInPreauth, lobby |-> ClientReadsInLobby,
                ingame |-> ClientReadsInGame]

(***************************************************************************)
(* What the client writes.  The numbers after the strings are redundant    *)
(* data the server is not meant to read, like the string of 'q' in game.   *)
(***************************************************************************)

LoginPacket == ToServer("preauth", "loginserver_keys", <<"string", "string">>)

LobbyCommands == {
  ToServer("lobby", "create_character", <<"string", "int">>),
  ToServer("lobby", "delete_character", <<"string">>),
  ToServer("lobby", "select_character", <<"string">>),
  ToServer("lobby", "log_off", <<"int">>)}

InGameCommands == {
  ToServer("ingame", "send_whisper", <<"string", "string">>),
  ToServer("ingame", "friend_add", <<"string">>),
  ToServer("ingame", "friend_remove", <<"string">>),
  ToServer("ingame", "join_chat", <<"string">>),
  ToServer("ingame", "leave_chat", <<"string">>),
  ToServer("ingame", "send_chat_msg", <<"string", "string">>),
  ToServer("ingame", "log_off_to_lobby", <<"string">>)}

CommandsOf == [preauth |-> {}, lobby |-> LobbyCommands, ingame |-> InGameCommands]

\* The commands that make client and server change their phases.
ChangesPhase(command) ==
  Meaning(command, command.phase, "to_server")
    \in {"select_character", "log_off", "log_off_to_lobby"}

(***************************************************************************)
(* What the server reads: the constructors of the requests, c2s.           *)
(***************************************************************************)

loginserver_keys == <<"string", "string">>
request_character_select == <<"string">>
request_character_create == <<"string">>
request_character_delete == <<"string">>
request_lobby_log_off == << >>
log_off_to_lobby == << >>
join_chat == <<"string">>
leave_chat == <<"string">>
send_chat_msg == <<"string", "string">>
send_whisper == <<"string", "string">>
friend_add == <<"string">>
friend_remove == <<"string">>

ServerReads == [
  preauth |-> [loginserver_keys |-> loginserver_keys],
  lobby |-> [select_character |-> request_character_select,
             create_character |-> request_character_create,
             delete_character |-> request_character_delete,
             log_off |-> request_lobby_log_off],
  ingame |-> [log_off_to_lobby |-> log_off_to_lobby, join_chat |-> join_chat,
              leave_chat |-> leave_chat, send_chat_msg |-> send_chat_msg,
              send_whisper |-> send_whisper, friend_add |-> friend_add,
              friend_remove |-> friend_remove]]

\* Reading succeeds if the fields are there, and the rest is ignored.  Of the
\* fields of a known packet only a number behind the last string can be taken
\* for another kind, for the size of a string: it is more than the bytes that
\* are left, so this read fails too.
Readable(packet, reads) == IsPrefix(reads, packet.fields)
===============================================================================
