SPECIFICATION Spec
CONSTANTS
  MaxTokens = 3
  MaxCalls = 3
  OtherTabs = TRUE
  None = None
INVARIANTS
  SocketIsOfSession
  HoldsOwnDataOnly
PROPERTIES
  LateLoadsChangeNothing
