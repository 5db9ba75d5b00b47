SPECIFICATION SendsFairSpec
CONSTANTS
  anna = anna
  bob = bob
  Clients = {anna, bob}
  InboxSize = 1
  OutboxSize = 1
INVARIANT SendsInv
PROPERTIES HandlersEnd WritesEnd
