CONSTANTS
  Conn = {c1, c2}
  MaxFrames = 2
SPECIFICATION FairSpec
INVARIANTS
  NoHalfRelay
  RelayedInOrder
PROPERTIES
  UpgradeSettles
  AbandonedRelaysEnd
