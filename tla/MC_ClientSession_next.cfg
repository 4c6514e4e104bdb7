SPECIFICATION Spec
CONSTANTS
  MaxTokens = 2
  MaxCalls = 3
  OtherTabs = FALSE
  None = None
INVARIANTS
  NextUserSeesOwnData
