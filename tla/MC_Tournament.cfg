SPECIFICATION Spec
CONSTANTS
  Ann = Ann
  Bob = Bob
  Cleo = Cleo
  Dan = Dan
  Eve = Eve
  User <- Five
  Creator = Ann
  Rounds = 2
  WRITE_ATTEMPTS = 2
  MaxGames = 4
  MaxRestarts = 1
  DatabaseFails = TRUE
  None = None
SYMMETRY FiveSymmetry
INVARIANTS
  TypeOK
  BracketSeatsEntrants
  WinnersAdvance
  LastOneStanding
PROPERTIES
  HostedGameRunsOn
CHECK_DEADLOCK FALSE
