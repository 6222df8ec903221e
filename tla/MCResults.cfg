CONSTANTS
  u1 = u1
  u2 = u2
  Null = Null
  Game <- FourGames
  User <- Users
  Roster <- FourRosters
  Worker = {wa, wb}
  Request = {ra, rb}
  Invalid = {4}
  Broken = {1}
  FaultBound = 1
SPECIFICATION FairSpec
CHECK_DEADLOCK FALSE
INVARIANTS
  NoResultVanishes
PROPERTIES
  RecordedAtMostOnce
  QueuedIsSettled
