CONSTANTS
  p1 = p1
  p2 = p2
  p3 = p3
  p4 = p4
  w1 = w1
  m1 = m1
  m2 = m2
  Null = Null
  Player <- FourPlayers
  Word <- OneWord
  Mark <- TwoMarks
  Me = p1
  Capacity = 3
  MinPlayersToStart = 2
  MaxRounds = 1
  MaxBufferedStrokes = 1
  RoundDuration = 1
  BaseAnswerScore = 1
  SpeedBonusScore = 0
  DrawerScorePerSolver = 0
  GameBound = 2
  InboxBound = 0
  OutboxBound = 2
  CanvasBound = 2
SPECIFICATION ClientSpec
SYMMETRY Alike
VIEW Observed
CHECK_DEADLOCK FALSE
INVARIANTS
  ClientTypeOK
  ViewAgrees
  RoundSecretsAgree
  CanvasAgrees
