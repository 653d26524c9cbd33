CONSTANTS
  Decks <- MCDecks
  UINT_MAX = 65535
  MaxStep = 2
SPECIFICATION Spec
INVARIANTS TypeOK Sorted Accounted EveryoneCollides OncePerKernel MoversInOrder
