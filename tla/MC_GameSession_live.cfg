SPECIFICATION FairSpec
CONSTANTS
  Ann = Ann
  Bob = Bob
  User <- Players
  Capacity = 2
  MaxSockets = 2
  MaxClosing = 2
  MaxGames = 1
  MaxRooms = 1
  MaxWaiting = 2
  DatabaseFails = TRUE
  None = None
INVARIANT
  GraceOnlyForAbsent
PROPERTIES
  PauseIsLifted
  EndedIsFreed
CHECK_DEADLOCK FALSE
