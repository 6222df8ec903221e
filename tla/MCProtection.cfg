CONSTANTS
  None = None
  Call = {c1, c2, c3}
  Refresh = 3
  MaxRooms = 2
  MaxFaults = 1
SPECIFICATION FairSpec
PROPERTIES
  NeverExpiresInUse
  ProtectionFollowsRooms
