SPECIFICATION Spec
CONSTANTS
  r1 = r1
  r2 = r2
  s1 = s1
  s2 = s2
  k1 = k1
  k2 = k2
  Request <- TwoRequests
  Setup <- TwoSetups
  Slot <- TwoSlots
  MaxVersion = 1
  MaxChallenge = 4
  None = None
SYMMETRY RequestSymmetry
INVARIANTS
  ChallengeOnce
  RecoveryCodeOnce
  SecretIsProven
PROPERTIES
  OldFactorStands
