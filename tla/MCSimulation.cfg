SPECIFICATION FairSpec
CONSTANTS
  NRank = 3
  NumStep = 6
  ModSteps = {3, 5}
  Interval = 2
  AtZero = FALSE
  Policies = {"toggle", "late"}
  MaxLives = 3
CHECK_DEADLOCK FALSE
INVARIANT TypeOK
INVARIANT RanksInStep
PROPERTY RecoverableByToggle
PROPERTY JobEnds
