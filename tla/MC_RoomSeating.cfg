SPECIFICATION Spec
CONSTANTS
  Ann = Ann
  Bob = Bob
  Robot = Robot
  User <- Users
  Bot <- Robots
  Capacity = 2
  MAX_OPEN_ROOMS = 2
  MaxRooms = 2
  MaxTasks = 2
  MaxPairings = 2
  None = None
SYMMETRY UserSymmetry
INVARIANTS
  TypeOK
  SeatsWithinCapacity
  OneLobbySeat
  OwnerIsSeated
PROPERTIES
  NobodyJoinsInGame
