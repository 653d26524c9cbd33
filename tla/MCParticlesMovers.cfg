CONSTANTS
  Decks <- MoverDecks
  UINT_MAX = 65535
  MaxStep = 1
SPECIFICATION Spec
INVARIANT MoversFit
