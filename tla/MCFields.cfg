CONSTANT Decks <- MCDecks
SPECIFICATION Spec
INVARIANTS TypeOK DividedIsUndivided GaussLaw NoMonopoles NoDesync
