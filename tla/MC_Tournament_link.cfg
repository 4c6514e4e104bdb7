SPECIFICATION Spec
CONSTANTS
  Ann = Ann
  Bob = Bob
  Cleo = Cleo
  Dan = Dan
  Eve = Eve
  User <- Four
  Creator = Ann
  Rounds = 2
  WRITE_ATTEMPTS = 2
  MaxGames = 3
  MaxRestarts = 0
  DatabaseFails = FALSE
  None = None
INVARIANTS
  ResultIsRecorded
CHECK_DEADLOCK FALSE
