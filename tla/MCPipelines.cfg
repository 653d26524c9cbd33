CONSTANTS
  MaxPipeline = 3
  TppArgs = {0, 2, 3, 4}
  DthArgs = {0, 1}
  MaxDispatch = 2
SPECIFICATION FairSpec
INVARIANTS TypeOK NeverAmiss WaitMeansDone ArgsAlive NoJobLost ThreadsAccountedFor
PROPERTIES ImplementsForkJoin EveryCallReturns
