SPECIFICATION WorldSpec
CONSTANTS
  anna = anna
  bob = bob
  carl = carl
  Players = {anna, bob, carl}
  Friendship <- TwoFriendships
INVARIANTS WorldInv LookupsSucceed GoodbyeIsLast
