SPECIFICATION PSpec
CONSTANTS
  anna = anna
  bob = bob
  Users = {anna, bob}
  Ttl = 3
  Period = 3
  MaxLateness = 1
  MaxTime = 11
INVARIANT
  RepeatedRequestStillWaits
