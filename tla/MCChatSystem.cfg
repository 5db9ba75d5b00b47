SPECIFICATION ChatSpec
CONSTANTS
  anna = anna
  bob = bob
  carl = carl
  dora = dora
  red = red
  blue = blue
  m1 = m1
  m2 = m2
  Entities = {anna, bob, carl, dora}
  Rooms = {red, blue}
  Addresses = {m1, m2}
  None = None
SYMMETRY ChatSymmetry
INVARIANTS
  ChatTypeOK
  RoomsConsistent
  NothingBroken
  RosterSound
  EarlierKnowsLater
PROPERTY
  ImplementsMembership
