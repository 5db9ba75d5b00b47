SPECIFICATION LSpec
CONSTANTS
  s1 = s1
  s2 = s2
  s3 = s3
  anna = anna
  bob = bob
  c1 = c1
  c2 = c2
  c3 = c3
  c4 = c4
  Sessions = {s1, s2, s3}
  Accounts = {anna, bob}
  Names = {c1, c2, c3, c4}
  None = None
  Limit = 2
  LoginTwice = FALSE
INVARIANTS
  LobbyInv
  CharacterLimit
  PlayedCharactersExist
PROPERTY
  OnlyOwnerDeletes
