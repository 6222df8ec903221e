CONSTANTS
  ca = ca
  cb = cb
  ra = ra
  rb = rb
  Null = Null
  Code <- Codes
  Run <- Runs
  MaxAssigns = 1
  Game <- Three
  User <- Two
  FinishedAt <- Times
  Players <- Events
  Name <- Names
  Migrated = {1}
  PageSize = 2
  Limit = 1
  Viewed = 1
  Me = 2
  MaxClicks = 1
  MaxPoints = 3
SPECIFICATION TabSpec
SYMMETRY Alike
INVARIANTS
  StatsMatchGames
  ListIsWhole
  RankingIsCurrent
  OneSeatPerTab
  EveryPointIsSent
