------------------------- MODULE LobbyCharactersProofs -------------------------
(***************************************************************************)
(* Proofs about LobbyCharacters, for any number of clients, accounts and   *)
(* nicknames and any limit, under the rule that nobody logs in twice.      *)
(***************************************************************************)
EXTENDS LobbyCharacters, FiniteSetTheorems, TLAPS

\* What one handler may do to the table: nothing, or give or take a character
\* of the account of a lobby that is ready.
LEMMA TableStep ==
  ASSUME LTypeOK, [LNext]_lvars
  PROVE  \/ owner' = owner
         \/ \E s \in Sessions, c \in Names :
              CreateCharacter(s, c) \/ DeleteCharacter(s, c)
<1>1. ASSUME NEW s \in Sessions, NEW c \in Names,
             CreateRefused(s, c) \/ SelectCharacter(s, c)
      PROVE  owner' = owner
  BY <1>1 DEF CreateRefused, SelectCharacter
<1>2. ASSUME NEW s \in Sessions, NEW a \in Accounts, Login(s, a)
      PROVE  owner' = owner
  BY <1>2 DEF Login
<1>3. ASSUME NEW s \in Sessions,
             \/ BeginQuery(s) \/ EndQuery(s) \/ ReceiveLobbyChars(s)
             \/ LogOffToLobby(s) \/ Close(s)
      PROVE  owner' = owner
  BY <1>3 DEF BeginQuery, EndQuery, ReceiveLobbyChars, LogOffToLobby, Close
<1>4. CASE UNCHANGED lvars
  BY <1>4 DEF lvars
<1>5. QED
  BY <1>1, <1>2, <1>3, <1>4 DEF LNext

(***************************************************************************)
(* Types.                                                                  *)
(***************************************************************************)

\* Every step keeps the types.
LEMMA LTypeStep == LTypeOK /\ [LNext]_lvars => LTypeOK'
<1> SUFFICES ASSUME LTypeOK, [LNext]_lvars PROVE LTypeOK'
  OBVIOUS
<1> USE LobbyAssumption DEF LTypeOK, Stages, At
<1>1. ASSUME NEW s \in Sessions, NEW a \in Accounts, Login(s, a) PROVE LTypeOK'
  BY <1>1 DEF Login
<1>2. ASSUME NEW s \in Sessions, BeginQuery(s) PROVE LTypeOK'
  BY <1>2 DEF BeginQuery
<1>3. ASSUME NEW s \in Sessions, EndQuery(s) PROVE LTypeOK'
  BY <1>3 DEF EndQuery, CharactersOf
<1>4. ASSUME NEW s \in Sessions, ReceiveLobbyChars(s) PROVE LTypeOK'
  BY <1>4 DEF ReceiveLobbyChars
<1>5. ASSUME NEW s \in Sessions, NEW c \in Names, CreateCharacter(s, c) PROVE LTypeOK'
  BY <1>5 DEF CreateCharacter
<1>6. ASSUME NEW s \in Sessions, NEW c \in Names, CreateRefused(s, c) PROVE LTypeOK'
  BY <1>6 DEF CreateRefused
<1>7. ASSUME NEW s \in Sessions, NEW c \in Names, DeleteCharacter(s, c) PROVE LTypeOK'
  BY <1>7 DEF DeleteCharacter
<1>8. ASSUME NEW s \in Sessions, NEW c \in Names, SelectCharacter(s, c) PROVE LTypeOK'
  BY <1>8 DEF SelectCharacter
<1>9. ASSUME NEW s \in Sessions, LogOffToLobby(s) PROVE LTypeOK'
  BY <1>9 DEF LogOffToLobby
<1>10. ASSUME NEW s \in Sessions, Close(s) PROVE LTypeOK'
  BY <1>10 DEF Close
<1>11. CASE UNCHANGED lvars
  BY <1>11 DEF lvars
<1>12. QED
  BY <1>1, <1>2, <1>3, <1>4, <1>5, <1>6, <1>7, <1>8, <1>9, <1>10, <1>11 DEF LNext

(***************************************************************************)
(* What a lobby goes by is true of the table.                              *)
(***************************************************************************)

\* Creating or deleting a character changes nothing for the other accounts.
LEMMA OthersUntouched ==
  ASSUME LobbyInv, NEW s \in Sessions, NEW c \in Names,
         CreateCharacter(s, c) \/ DeleteCharacter(s, c),
         NEW t \in Sessions, t # s, account[t] # None
  PROVE  {d \in Names : owner'[d] = account[t]} = CharactersOf(account[t])
<1>1. account[s] # None /\ account[s] # account[t]
  BY DEF LobbyInv, LTypeOK, LoggedInOnce, CreateCharacter, DeleteCharacter
<1>2. \A d \in Names \ {c} : owner'[d] = owner[d]
  BY DEF LobbyInv, LTypeOK, CreateCharacter, DeleteCharacter
<1>3. owner[c] # account[t] /\ owner'[c] # account[t]
  <2>1. CASE CreateCharacter(s, c)
    BY <1>1, <2>1 DEF LobbyInv, LTypeOK, CreateCharacter
  <2>2. CASE DeleteCharacter(s, c)
    BY <1>1, <2>2 DEF LobbyInv, LTypeOK, ListMatchesTable, CharactersOf, DeleteCharacter
  <2>3. QED
    BY <2>1, <2>2
<1>4. QED
  BY <1>2, <1>3 DEF CharactersOf

\* Every step keeps an account in one lobby or world at a time.
LEMMA OnceStep ==
  ASSUME ~LoginTwice, LTypeOK, LoggedInOnce, [LNext]_lvars
  PROVE  LoggedInOnce'
<1> USE DEF LTypeOK, LoggedInOnce
<1>1. ASSUME NEW s \in Sessions, NEW a \in Accounts, Login(s, a) PROVE LoggedInOnce'
  <2>1. account' = [account EXCEPT ![s] = a] /\ \A t \in Sessions : account[t] # a
    BY <1>1 DEF Login, LoggedIn
  <2>2. QED
    BY <2>1
<1>2. ASSUME NEW s \in Sessions, Close(s) PROVE LoggedInOnce'
  BY <1>2 DEF Close
<1>3. ASSUME account' = account PROVE LoggedInOnce'
  BY <1>3
<1>4. QED
  BY <1>1, <1>2, <1>3 DEF LNext, lvars, BeginQuery, EndQuery, ReceiveLobbyChars,
     CreateCharacter, CreateRefused, DeleteCharacter, SelectCharacter, LogOffToLobby

\* The answer is true when the query ends, and stays so on its way: its lobby
\* cannot act meanwhile, and the others touch only their own accounts.
LEMMA AnswerStep ==
  ASSUME LobbyInv, [LNext]_lvars
  PROVE  AnswerMatchesTable'
<1> SUFFICES ASSUME NEW t \in Sessions, stage'[t] = "answered"
             PROVE  snapshot'[t] = {d \in Names : owner'[d] = account'[t]}
  BY DEF AnswerMatchesTable, CharactersOf
<1> USE DEF LobbyInv, LTypeOK, At
<1>1. ASSUME NEW s \in Sessions, EndQuery(s)
      PROVE  snapshot'[t] = {d \in Names : owner'[d] = account'[t]}
  BY <1>1 DEF EndQuery, AnswerMatchesTable, CharactersOf
<1>2. ASSUME NEW s \in Sessions, NEW c \in Names, CreateCharacter(s, c) \/ DeleteCharacter(s, c)
      PROVE  snapshot'[t] = {d \in Names : owner'[d] = account'[t]}
  <2>1. stage[t] = "answered" /\ t # s /\ snapshot'[t] = snapshot[t] /\ account' = account
    BY <1>2 DEF CreateCharacter, DeleteCharacter
  <2>2. {d \in Names : owner'[d] = account[t]} = CharactersOf(account[t])
    BY <1>2, <2>1, OthersUntouched
  <2>3. QED
    BY <2>1, <2>2 DEF AnswerMatchesTable
<1>3. ASSUME stage[t] = "answered", snapshot'[t] = snapshot[t], account'[t] = account[t],
             owner' = owner
      PROVE  snapshot'[t] = {d \in Names : owner'[d] = account'[t]}
  BY <1>3 DEF AnswerMatchesTable, CharactersOf
<1>4. ASSUME NEW s \in Sessions,
             \/ \E a \in Accounts : Login(s, a)
             \/ BeginQuery(s) \/ ReceiveLobbyChars(s) \/ LogOffToLobby(s) \/ Close(s)
             \/ \E c \in Names : CreateRefused(s, c) \/ SelectCharacter(s, c)
      PROVE  /\ stage[t] = "answered" /\ snapshot'[t] = snapshot[t]
             /\ account'[t] = account[t] /\ owner' = owner
  BY <1>4 DEF Login, BeginQuery, ReceiveLobbyChars, LogOffToLobby, Close, CreateRefused,
     SelectCharacter
<1>5. CASE UNCHANGED lvars
  BY <1>3, <1>5 DEF lvars
<1>6. QED
  BY <1>1, <1>2, <1>3, <1>4, <1>5 DEF LNext

\* Every step keeps the lists true.
LEMMA ListStep ==
  ASSUME LobbyInv, [LNext]_lvars
  PROVE  ListMatchesTable'
<1> SUFFICES ASSUME NEW t \in Sessions, stage'[t] = "ready"
             PROVE  lobby_chars'[t] = {d \in Names : owner'[d] = account'[t]}
  BY DEF ListMatchesTable, CharactersOf
<1> USE DEF LobbyInv, LTypeOK, At
<1>1. ASSUME NEW s \in Sessions, ReceiveLobbyChars(s)
      PROVE  lobby_chars'[t] = {d \in Names : owner'[d] = account'[t]}
  BY <1>1 DEF ReceiveLobbyChars, AnswerMatchesTable, ListMatchesTable, CharactersOf
<1>2. ASSUME NEW s \in Sessions, NEW c \in Names, CreateCharacter(s, c) \/ DeleteCharacter(s, c)
      PROVE  lobby_chars'[t] = {d \in Names : owner'[d] = account'[t]}
  <2>1. stage[t] = "ready" /\ account' = account
    BY <1>2 DEF CreateCharacter, DeleteCharacter
  <2>2. CASE t # s
    <3>1. {d \in Names : owner'[d] = account[t]} = CharactersOf(account[t])
      BY <1>2, <2>1, <2>2, OthersUntouched
    <3>2. lobby_chars'[t] = lobby_chars[t]
      BY <1>2, <2>2 DEF CreateCharacter, DeleteCharacter
    <3>3. QED
      BY <2>1, <3>1, <3>2 DEF ListMatchesTable
  <2>3. CASE t = s
    <3>1. lobby_chars[t] = {d \in Names : owner[d] = account[t]}
      BY <2>1 DEF ListMatchesTable, CharactersOf
    <3>2. CASE CreateCharacter(s, c)
      BY <2>1, <2>3, <3>1, <3>2 DEF CreateCharacter
    <3>3. CASE DeleteCharacter(s, c)
      BY <2>1, <2>3, <3>1, <3>3 DEF DeleteCharacter
    <3>4. QED
      BY <1>2, <3>2, <3>3
  <2>4. QED
    BY <2>2, <2>3
<1>3. ASSUME stage[t] = "ready", lobby_chars'[t] = lobby_chars[t], account'[t] = account[t],
             owner' = owner
      PROVE  lobby_chars'[t] = {d \in Names : owner'[d] = account'[t]}
  BY <1>3 DEF ListMatchesTable, CharactersOf
<1>4. ASSUME NEW s \in Sessions,
             \/ \E a \in Accounts : Login(s, a)
             \/ BeginQuery(s) \/ EndQuery(s) \/ LogOffToLobby(s) \/ Close(s)
             \/ \E c \in Names : CreateRefused(s, c) \/ SelectCharacter(s, c)
      PROVE  /\ stage[t] = "ready" /\ lobby_chars'[t] = lobby_chars[t]
             /\ account'[t] = account[t] /\ owner' = owner
  BY <1>4 DEF Login, BeginQuery, EndQuery, LogOffToLobby, Close, CreateRefused,
     SelectCharacter
<1>5. CASE UNCHANGED lvars
  BY <1>3, <1>5 DEF lvars
<1>6. QED
  BY <1>1, <1>2, <1>3, <1>4, <1>5 DEF LNext

\* If nobody logs in twice, what every lobby goes by is true of the table.
THEOREM ListsAreTrue == ASSUME ~LoginTwice PROVE LSpec => []LobbyInv
<1>1. LInit => LobbyInv
  BY LobbyAssumption DEF LInit, LobbyInv, LTypeOK, Stages, ListMatchesTable,
     AnswerMatchesTable, LoggedInOnce
<1>2. LobbyInv /\ [LNext]_lvars => LobbyInv'
  <2> SUFFICES ASSUME LobbyInv, [LNext]_lvars PROVE LobbyInv'
    OBVIOUS
  <2>1. LTypeOK'
    BY LTypeStep DEF LobbyInv
  <2>2. LoggedInOnce'
    BY OnceStep DEF LobbyInv
  <2>3. ListMatchesTable' /\ AnswerMatchesTable'
    BY ListStep, AnswerStep
  <2>4. QED
    BY <2>1, <2>2, <2>3 DEF LobbyInv
<1>3. QED
  BY <1>1, <1>2, PTL DEF LSpec

(***************************************************************************)
(* What is decided by the list of a lobby holds for the table.             *)
(***************************************************************************)

FiniteAndLimited ==
  \A a \in Accounts :
    IsFiniteSet(CharactersOf(a)) /\ Cardinality(CharactersOf(a)) <= Limit

\* Every step keeps the accounts within the limit.
LEMMA LimitStep ==
  ASSUME LobbyInv, FiniteAndLimited, [LNext]_lvars
  PROVE  FiniteAndLimited'
<1> SUFFICES ASSUME NEW a \in Accounts
             PROVE  /\ IsFiniteSet({d \in Names : owner'[d] = a})
                    /\ Cardinality({d \in Names : owner'[d] = a}) <= Limit
  BY DEF FiniteAndLimited, CharactersOf
<1> DEFINE Now == CharactersOf(a)
           Then == {d \in Names : owner'[d] = a}
<1>0. IsFiniteSet(Now) /\ Cardinality(Now) <= Limit /\ Cardinality(Now) \in Nat /\ Limit \in Nat
  BY FS_CardinalityType, LobbyAssumption DEF FiniteAndLimited
<1>1. ASSUME Then = Now PROVE IsFiniteSet(Then) /\ Cardinality(Then) <= Limit
  BY <1>0, <1>1, Zenon
<1>2. ASSUME NEW s \in Sessions, NEW c \in Names, CreateCharacter(s, c), account[s] = a
      PROVE  IsFiniteSet(Then) /\ Cardinality(Then) <= Limit
  <2>1. lobby_chars[s] = Now /\ Cardinality(Now) < Limit
    BY <1>2 DEF CreateCharacter, LobbyInv, ListMatchesTable
  <2>2. Then = Now \union {c}
    BY <1>2 DEF CreateCharacter, CharactersOf, LobbyInv, LTypeOK
  <2>3. c \notin Now
    BY <1>2 DEF CreateCharacter, CharactersOf, LobbyInv, LTypeOK
  <2>4. IsFiniteSet(Now \union {c}) /\ Cardinality(Now \union {c}) = Cardinality(Now) + 1
    BY <1>0, <2>3, FS_AddElement
  <2>5. Cardinality(Now \union {c}) <= Limit
    BY <1>0, <2>1, <2>4
  <2>6. QED
    BY <2>2, <2>4, <2>5, Zenon
<1>3. ASSUME NEW s \in Sessions, NEW c \in Names, CreateCharacter(s, c), account[s] # a
      PROVE  Then = Now
  BY <1>3, LobbyAssumption DEF CreateCharacter, CharactersOf, LobbyInv, LTypeOK
<1>4. ASSUME NEW s \in Sessions, NEW c \in Names, DeleteCharacter(s, c)
      PROVE  IsFiniteSet(Then) /\ Cardinality(Then) <= Limit
  <2>1. Then \in SUBSET Now
    BY <1>4, LobbyAssumption DEF DeleteCharacter, CharactersOf, LobbyInv, LTypeOK
  <2>2. IsFiniteSet(Then) /\ Cardinality(Then) <= Cardinality(Now) /\ Cardinality(Then) \in Nat
    BY <1>0, <2>1, FS_Subset, FS_CardinalityType
  <2>3. QED
    BY <1>0, <2>2
<1>5. ASSUME owner' = owner PROVE Then = Now
  BY <1>5 DEF CharactersOf
<1>6. QED
  BY <1>1, <1>2, <1>3, <1>4, <1>5, TableStep DEF LobbyInv

\* No account ever has more characters than the limit, although each lobby
\* compares only its own list with it.
THEOREM LimitHolds == ASSUME ~LoginTwice PROVE LSpec => []CharacterLimit
<1>1. LInit => FiniteAndLimited
  <2> SUFFICES ASSUME LInit, NEW a \in Accounts
               PROVE  IsFiniteSet(CharactersOf(a)) /\ Cardinality(CharactersOf(a)) <= Limit
    BY DEF FiniteAndLimited
  <2>1. CharactersOf(a) = {}
    BY LobbyAssumption DEF LInit, CharactersOf
  <2>2. QED
    BY <2>1, FS_EmptySet, LobbyAssumption
<1>2. LobbyInv /\ FiniteAndLimited /\ [LNext]_lvars => FiniteAndLimited'
  BY LimitStep
<1>3. FiniteAndLimited => CharacterLimit
  BY DEF FiniteAndLimited, CharacterLimit
<1>4. QED
  BY <1>1, <1>2, <1>3, ListsAreTrue, PTL DEF LSpec

\* Every step keeps the characters played in the table.
LEMMA PlayedStep ==
  ASSUME LobbyInv, PlayedCharactersExist, [LNext]_lvars
  PROVE  PlayedCharactersExist'
<1> SUFFICES ASSUME NEW t \in Sessions, stage'[t] = "ingame"
             PROVE  owner'[playing'[t]] = account'[t]
  BY DEF PlayedCharactersExist
<1> USE DEF LobbyInv, LTypeOK, At
<1>1. ASSUME NEW s \in Sessions, NEW c \in Names, SelectCharacter(s, c)
      PROVE  owner'[playing'[t]] = account'[t]
  BY <1>1 DEF SelectCharacter, ListMatchesTable, CharactersOf, PlayedCharactersExist
<1>2. ASSUME NEW s \in Sessions, NEW c \in Names, CreateCharacter(s, c) \/ DeleteCharacter(s, c)
      PROVE  owner'[playing'[t]] = account'[t]
  <2>1. stage[t] = "ingame" /\ t # s /\ playing' = playing /\ account' = account
    BY <1>2 DEF CreateCharacter, DeleteCharacter
  <2>2. account[t] # None /\ playing[t] \in Names /\ owner[playing[t]] = account[t]
    BY <2>1 DEF PlayedCharactersExist
  <2>3. {d \in Names : owner'[d] = account[t]} = CharactersOf(account[t])
    BY <1>2, <2>1, <2>2, OthersUntouched
  <2>4. QED
    BY <2>1, <2>2, <2>3 DEF CharactersOf
<1>3. ASSUME stage[t] = "ingame", playing'[t] = playing[t], account'[t] = account[t],
             owner' = owner
      PROVE  owner'[playing'[t]] = account'[t]
  BY <1>3 DEF PlayedCharactersExist
<1>4. ASSUME NEW s \in Sessions,
             \/ \E a \in Accounts : Login(s, a)
             \/ BeginQuery(s) \/ EndQuery(s) \/ ReceiveLobbyChars(s)
             \/ LogOffToLobby(s) \/ Close(s)
             \/ \E c \in Names : CreateRefused(s, c)
      PROVE  /\ stage[t] = "ingame" /\ playing'[t] = playing[t]
             /\ account'[t] = account[t] /\ owner' = owner
  BY <1>4 DEF Login, BeginQuery, EndQuery, ReceiveLobbyChars, LogOffToLobby, Close,
     CreateRefused
<1>5. CASE UNCHANGED lvars
  BY <1>3, <1>5 DEF lvars
<1>6. QED
  BY <1>1, <1>2, <1>3, <1>4, <1>5 DEF LNext

\* Nobody is in the world with a character that has been deleted, or that
\* belongs to another account.
THEOREM PlayedExist == ASSUME ~LoginTwice PROVE LSpec => []PlayedCharactersExist
<1>1. LInit => PlayedCharactersExist
  BY DEF LInit, PlayedCharactersExist
<1>2. LobbyInv /\ PlayedCharactersExist /\ [LNext]_lvars => PlayedCharactersExist'
  BY PlayedStep
<1>3. QED
  BY <1>1, <1>2, ListsAreTrue, PTL DEF LSpec

\* A row is deleted only by a lobby of its owner: the lobby's list is the only
\* thing that says whose it is.
THEOREM OwnersDelete == ASSUME ~LoginTwice PROVE LSpec => OnlyOwnerDeletes
<1> DEFINE Deletion ==
      \A c \in Names : owner[c] # None /\ owner'[c] # owner[c] =>
        /\ owner'[c] = None
        /\ \E s \in Sessions : stage[s] = "ready" /\ account[s] = owner[c]
                               /\ c \in lobby_chars[s] /\ c \notin lobby_chars'[s]
<1>1. LobbyInv /\ [LNext]_lvars => [Deletion]_lvars
  <2> SUFFICES ASSUME LobbyInv, [LNext]_lvars, NEW c \in Names,
                      owner[c] # None, owner'[c] # owner[c]
               PROVE  /\ owner'[c] = None
                      /\ \E s \in Sessions : stage[s] = "ready" /\ account[s] = owner[c]
                                /\ c \in lobby_chars[s] /\ c \notin lobby_chars'[s]
    OBVIOUS
  <2>1. PICK s \in Sessions, d \in Names : CreateCharacter(s, d) \/ DeleteCharacter(s, d)
    BY TableStep DEF LobbyInv
  <2>2. ~CreateCharacter(s, d)
    BY DEF CreateCharacter, LobbyInv, LTypeOK
  <2>3. d = c
    BY <2>1, <2>2 DEF DeleteCharacter, LobbyInv, LTypeOK
  <2>4. QED
    BY <2>1, <2>2, <2>3 DEF DeleteCharacter, LobbyInv, LTypeOK, ListMatchesTable, CharactersOf
<1>2. QED
  BY <1>1, ListsAreTrue, PTL DEF LSpec, OnlyOwnerDeletes
================================================================================
