CONSTANTS
  p1 = p1
  p2 = p2
  p3 = p3
  p4 = p4
  w1 = w1
  w2 = w2
  m1 = m1
  Null = Null
  Player <- FourPlayers
  Word <- TwoWords
  Mark <- OneMark
  Capacity = 3
  MinPlayersToStart = 2
  MaxRounds = 3
  MaxBufferedStrokes = 1
  RoundDuration = 1
  BaseAnswerScore = 1
  SpeedBonusScore = 0
  DrawerScorePerSolver = 1
  GameBound = 2
SPECIFICATION Spec
SYMMETRY SymmetricFour
CHECK_DEADLOCK FALSE
INVARIANTS
  GameNeverStuck
  RoundFieldsAgree
  OpenRoundHasGuesser
  TurnsAreUnique
  TurnsAreComplete
  EveryGamePublishedOnce
  ResultsAreMeaningful
  FinishedRoundsRevealed
  StrokesOfThisRound
PROPERTIES
  NoRoundSkipsIntermission
  GameEndsAfterEveryTurn
  ImplementsTurns
