SPECIFICATION ASpec
CONSTANTS
  anna = anna
  bob = bob
  Users = {anna, bob}
  Ttl = 3
  Period = 3
  MaxLateness = 1
  MaxTime = 8
INVARIANTS OnlySetbacksCross SecondCleanupForgets
