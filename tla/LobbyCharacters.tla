--------------------------- MODULE LobbyCharacters ---------------------------
(***************************************************************************)
(* The characters of an account: table characters, the copy lobby_chars_   *)
(* that each lobby_state loads through the database strand and then        *)
(* maintains itself, and the characters taken into the world.  The query   *)
(* of the database strand takes time: the handlers of other clients run    *)
(* while it is under way.                                                  *)
(***************************************************************************)
EXTENDS Naturals, FiniteSets

CONSTANTS
  Sessions,   \* clients past the login
  Accounts,
  Names,      \* nicknames of characters, valid ones
  None,       \* no account, no character
  Limit,      \* characters per account (5)
  LoginTwice  \* may an account be logged in twice?

ASSUME LobbyAssumption ==
  /\ Limit \in Nat
  /\ LoginTwice \in BOOLEAN
  /\ None \notin Accounts \union Names

VARIABLES
  owner,        \* table characters: nickname is its key; None: no such row
  stage,        \* where each client is on its way through the lobby
  account,      \* acc_data_ of each client
  snapshot,     \* the answer of the query on its way to the callback
  lobby_chars,  \* lobby_chars_ of each lobby_state
  playing       \* the character each client is in the world with

lvars == <<owner, stage, account, snapshot, lobby_chars, playing>>

\* "queued": the query is posted to the database strand; "running": it runs
\* there; "answered": the callback is posted to the game loop; "ready": the
\* lobby reads requests.
Stages == {"away", "queued", "running", "answered", "ready", "ingame"}

CharactersOf(a) == {c \in Names : owner[c] = a}

LInit ==
  /\ owner = [c \in Names |-> None]
  /\ stage = [s \in Sessions |-> "away"]
  /\ account = [s \in Sessions |-> None]
  /\ snapshot = [s \in Sessions |-> {}]
  /\ lobby_chars = [s \in Sessions |-> {}]
  /\ playing = [s \in Sessions |-> None]

At(s, from, to) == stage[s] = from /\ stage' = [stage EXCEPT ![s] = to]

LoggedIn(a) == \E s \in Sessions : account[s] = a

\* A login is accepted: get_account_data, then lobby_state::start.
Login(s, a) ==
  /\ At(s, "away", "queued")
  /\ LoginTwice \/ ~LoggedIn(a)
  /\ account' = [account EXCEPT ![s] = a]
  /\ UNCHANGED <<owner, snapshot, lobby_chars, playing>>

\* The database strand runs one task at a time (the order of those that wait
\* is left open here).
BeginQuery(s) ==
  /\ \A t \in Sessions : stage[t] # "running"
  /\ At(s, "queued", "running")
  /\ UNCHANGED <<owner, account, snapshot, lobby_chars, playing>>

\* psql_facade::get_lobby_chars returns.
EndQuery(s) ==
  /\ At(s, "running", "answered")
  /\ snapshot' = [snapshot EXCEPT ![s] = CharactersOf(account[s])]
  /\ UNCHANGED <<owner, account, lobby_chars, playing>>

\* The callback of lobby_state::start.
ReceiveLobbyChars(s) ==
  /\ At(s, "answered", "ready")
  /\ lobby_chars' = [lobby_chars EXCEPT ![s] = snapshot[s]]
  /\ snapshot' = [snapshot EXCEPT ![s] = {}]
  /\ UNCHANGED <<owner, account, playing>>

\* A bug in the limit: > instead of >=.
CreateOneTooMany(s, c) ==
  /\ stage[s] = "ready"
  /\ Cardinality(lobby_chars[s]) <= Limit
  /\ owner[c] = None
  /\ owner' = [owner EXCEPT ![c] = account[s]]
  /\ lobby_chars' = [lobby_chars EXCEPT ![s] = @ \union {c}]
  /\ UNCHANGED <<stage, account, snapshot, playing>>

\* A bug in the creation: the nickname is not looked up, and the row of
\* another account is taken over.
CreateTakenName(s, c) ==
  /\ stage[s] = "ready"
  /\ Cardinality(lobby_chars[s]) < Limit
  /\ owner' = [owner EXCEPT ![c] = account[s]]
  /\ lobby_chars' = [lobby_chars EXCEPT ![s] = @ \union {c}]
  /\ UNCHANGED <<stage, account, snapshot, playing>>

\* request_character_create: the limit is checked on the list of this lobby,
\* the nickname in the table.
CreateCharacter(s, c) ==
  /\ stage[s] = "ready"
  /\ Cardinality(lobby_chars[s]) < Limit
  /\ owner[c] = None
  /\ owner' = [owner EXCEPT ![c] = account[s]]
  /\ lobby_chars' = [lobby_chars EXCEPT ![s] = @ \union {c}]
  /\ UNCHANGED <<stage, account, snapshot, playing>>

\* The limit is reached, or the nickname is taken.
CreateRefused(s, c) ==
  /\ stage[s] = "ready"
  /\ Cardinality(lobby_chars[s]) >= Limit \/ owner[c] # None
  /\ UNCHANGED <<owner, stage, account, snapshot, lobby_chars, playing>>

\* A bug in the deletion: the list keeps the character.
DeleteKeepingEntry(s, c) ==
  /\ stage[s] = "ready" /\ c \in lobby_chars[s]
  /\ owner' = [owner EXCEPT ![c] = None]
  /\ UNCHANGED <<stage, account, snapshot, lobby_chars, playing>>

\* request_character_delete: the character is looked up in the list of this
\* lobby, the row is deleted by its nickname.
DeleteCharacter(s, c) ==
  /\ stage[s] = "ready" /\ c \in lobby_chars[s]
  /\ owner' = [owner EXCEPT ![c] = None]
  /\ lobby_chars' = [lobby_chars EXCEPT ![s] = @ \ {c}]
  /\ UNCHANGED <<stage, account, snapshot, playing>>

\* request_character_select: the ingame_state loads the friends.
SelectCharacter(s, c) ==
  /\ c \in lobby_chars[s]
  /\ At(s, "ready", "ingame")
  /\ playing' = [playing EXCEPT ![s] = c]
  /\ lobby_chars' = [lobby_chars EXCEPT ![s] = {}]
  /\ UNCHANGED <<owner, account, snapshot>>

\* log_off_to_lobby: a new lobby_state asks for the characters again.
LogOffToLobby(s) ==
  /\ At(s, "ingame", "queued")
  /\ playing' = [playing EXCEPT ![s] = None]
  /\ UNCHANGED <<owner, account, snapshot, lobby_chars>>

\* The session ends: logged off, lost, or closed because a request named an
\* unknown character or the database threw (as it does when the row to delete
\* is somebody's friend).  What the database refused changed nothing.
Close(s) ==
  /\ stage[s] \in {"ready", "ingame"}
  /\ stage' = [stage EXCEPT ![s] = "away"]
  /\ account' = [account EXCEPT ![s] = None]
  /\ lobby_chars' = [lobby_chars EXCEPT ![s] = {}]
  /\ playing' = [playing EXCEPT ![s] = None]
  /\ UNCHANGED <<owner, snapshot>>

LNext ==
  \E s \in Sessions :
    \/ \E a \in Accounts : Login(s, a)
    \/ BeginQuery(s) \/ EndQuery(s) \/ ReceiveLobbyChars(s)
    \/ \E c \in Names :
         \/ CreateCharacter(s, c) \/ CreateRefused(s, c)
         \/ DeleteCharacter(s, c) \/ SelectCharacter(s, c)
    \/ LogOffToLobby(s) \/ Close(s)

LSpec == LInit /\ [][LNext]_lvars

(***************************************************************************)
(* Properties.                                                             *)
(***************************************************************************)

\* Every variable keeps its type; a client that is away has no account.
LTypeOK ==
  /\ owner \in [Names -> Accounts \union {None}]
  /\ stage \in [Sessions -> Stages]
  /\ account \in [Sessions -> Accounts \union {None}]
  /\ \A s \in Sessions : stage[s] = "away" <=> account[s] = None
  /\ snapshot \in [Sessions -> SUBSET Names]
  /\ lobby_chars \in [Sessions -> SUBSET Names]
  /\ playing \in [Sessions -> Names \union {None}]
  /\ \A s \in Sessions : playing[s] # None <=> stage[s] = "ingame"

\* If nobody logs in twice, the list a lobby loaded once and maintains itself
\* is the table's, although the answer travelled through two strands.
ListMatchesTable ==
  \A s \in Sessions : stage[s] = "ready" => lobby_chars[s] = CharactersOf(account[s])

\* The same of an answer on its way to the lobby, whatever other clients did
\* to the table meanwhile; and who is logged in is so once.
AnswerMatchesTable ==
  \A s \in Sessions : stage[s] = "answered" => snapshot[s] = CharactersOf(account[s])

LoggedInOnce ==
  \A s, t \in Sessions : account[s] = account[t] /\ account[s] # None => s = t

\* What a lobby goes by is true of the table, whichever of the two strands has
\* its answer and whatever the other lobbies do.
LobbyInv == LTypeOK /\ ListMatchesTable /\ AnswerMatchesTable /\ LoggedInOnce

\* No account has more characters than the limit, which only the list of the
\* lobby is ever compared with.
CharacterLimit == \A a \in Accounts : Cardinality(CharactersOf(a)) <= Limit

\* A row is deleted only on behalf of the account that owns it, although the
\* statement names the character and no account.
OnlyOwnerDeletes ==
  [][\A c \in Names : owner[c] # None /\ owner'[c] # owner[c] =>
       /\ owner'[c] = None
       /\ \E s \in Sessions : stage[s] = "ready" /\ account[s] = owner[c]
                              /\ c \in lobby_chars[s] /\ c \notin lobby_chars'[s]]_lvars

\* Nobody is in the world with a character that has been deleted.
PlayedCharactersExist ==
  \A s \in Sessions : stage[s] = "ingame" => owner[playing[s]] = account[s]
==============================================================================
