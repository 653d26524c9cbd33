SPECIFICATION FairSpec
CONSTANT Settings <- MCSettings
INVARIANTS TypeOK Conserved SizesMatch MoversMonotone StorageFits Delivered
PROPERTIES StepCompletes
