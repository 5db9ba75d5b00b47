SPECIFICATION FSpec
CONSTANTS
  anna = anna
  bob = bob
  Users = {anna, bob}
  Ttl = 3
  Period = 3
  MaxLateness = 1
  MaxTime = 11
  MaxRows = 2
  MaxFailed = 1
INVARIANTS
  NoRequestBetweenFriends
  AtMostOneRow
  NoCrossedRequests
  MemoryMatchesTable
  PresenceKnown
PROPERTY
  ImplementsWindow
