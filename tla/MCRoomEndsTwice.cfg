CONSTANTS
  p1 = p1
  p2 = p2
  p3 = p3
  p4 = p4
  w1 = w1
  w2 = w2
  m1 = m1
  Null = Null
  Player <- ThreePlayers
  Word <- TwoWords
  Mark <- OneMark
  Capacity = 3
  MinPlayersToStart = 2
  MaxRounds = 3
  MaxBufferedStrokes = 0
  RoundDuration = 1
  BaseAnswerScore = 1
  SpeedBonusScore = 0
  DrawerScorePerSolver = 1
  GameBound = 1
SPECIFICATION Spec
CHECK_DEADLOCK FALSE
INVARIANTS
  EachRoundEndsOnce
