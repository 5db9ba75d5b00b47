SPECIFICATION Spec
CONSTANTS
  s1 = s1
  s2 = s2
  anna = anna
  bob = bob
  a1 = a1
  a2 = a2
  b1 = b1
  Sessions = {s1, s2}
  Accounts = {anna, bob}
  Characters = {a1, a2, b1}
  Owner <- TwoAccounts
  None = None
  MaxInflight = 2
  Relogin = "after_disconnect"
  FaultsEscape = FALSE
CHECK_DEADLOCK FALSE
INVARIANT
  CharacterRegisteredOnce
