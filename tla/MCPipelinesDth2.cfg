CONSTANTS
  MaxPipeline = 3
  TppArgs = {2, 3}
  DthArgs = {2}
  MaxDispatch = 1
SPECIFICATION Spec
INVARIANT DispatchReachesEveryPipeline
