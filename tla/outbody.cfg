\* A freed stream is the end of the model: every other state can free it.
CONSTANTS
    Shapes <- MCShapes
    MaxBuf = 2
    MaxWindow = 3
SPECIFICATION FairSpec
INVARIANTS TypeOK WindowsSafe
PROPERTIES BodyFlows OutStreamSpec
CHECK_DEADLOCK FALSE
