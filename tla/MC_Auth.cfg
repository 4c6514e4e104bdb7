SPECIFICATION FairSpec
CONSTANTS
  r1 = r1
  r2 = r2
  old = old
  new = new
  mail1 = mail1
  Request <- Two
  Password <- Passwords
  ResetId <- OneMail
  MAX_LOGIN_ATTEMPTS = 2
  MaxVersion = 1
  Allowlisted = TRUE
  None = None
INVARIANTS
  CurrentEntryAgrees
  LiveTokenIsProven
  ResetOnce
PROPERTIES
  RevokedTokenDies
