CONSTANTS
  low = low
  upp = upp
  Null = Null
  Socket = {s1, s2, s3}
  Code <- Codes
  Normal <- NormalOf
  Capacity = 2
SPECIFICATION FairSpec
INVARIANTS
  MembershipAgrees
  RoomsAreSound
PROPERTIES
  JoinIsAnswered
  SilentPeersLeave
