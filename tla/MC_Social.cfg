SPECIFICATION Spec
CONSTANTS
  Ann = Ann
  Bob = Bob
  R1 = R1
  R2 = R2
  User <- Pair
  Request <- Tabs
  MaxRows = 2
  MaxMessages = 2
  DatabaseFails = TRUE
  None = None
SYMMETRY PairSymmetry
INVARIANTS
  AcceptedOnce
PROPERTIES
  FollowsLifecycle
  BlockStands
  SendsDryUp
CHECK_DEADLOCK FALSE
