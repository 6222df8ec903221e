CONSTANTS
  Null = Null
  Player = {p1, p2, p3, p4, p5}
  Capacity = 4
  MinPlayersToStart = 2
  MaxRounds = 3
SPECIFICATION FairSpec
PROPERTIES
  GameEnds
  QueuedPlayerDraws
