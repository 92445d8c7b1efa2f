SPECIFICATION PictureSpec
CONSTANTS
  Songs <- MCSongs
  Turns <- MCTurns
  Edits <- MCEdits
  MaxWrites = 1
  Videos <- MCVideos
  MaxRedos = 1
INVARIANTS
  ScenarioBuilds
  PictureInTime
  OpeningsKept
  SectionsFollow
CHECK_DEADLOCK FALSE
