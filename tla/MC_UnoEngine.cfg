SPECIFICATION Spec
CONSTANTS
  NumPlayers = 2
  Deck <- DuelDeck
  CARDS_PER_PLAYER = 2
  UNO_PENALTY_CARDS = 2
  None = None
VIEW NonceFree
INVARIANTS
  CardsInOnePlace
  WinnerIffEmptyHand
PROPERTIES
  CardsLostOnlyAtExhaustion
  NoMoveAfterWin
  UnoSettledByNextPlay
CHECK_DEADLOCK FALSE
