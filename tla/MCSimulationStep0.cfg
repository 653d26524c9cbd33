SPECIFICATION Spec
CONSTANTS
  NRank = 2
  NumStep = 2
  ModSteps = {}
  Interval = 1
  AtZero = TRUE
  Policies = {"step"}
  MaxLives = 2
CHECK_DEADLOCK FALSE
INVARIANT RestoreFindsSimulation
