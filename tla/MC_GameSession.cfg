SPECIFICATION Spec
CONSTANTS
  Ann = Ann
  Bob = Bob
  User <- Players
  Capacity = 2
  MaxSockets = 1
  MaxClosing = 2
  MaxGames = 2
  MaxRooms = 1
  MaxWaiting = 2
  DatabaseFails = TRUE
  None = None
SYMMETRY PlayerSymmetry
INVARIANTS
  OneFinisher
  ClaimIsExclusive
  ClockFollowsGame
CHECK_DEADLOCK FALSE
