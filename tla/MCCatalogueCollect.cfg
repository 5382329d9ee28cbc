CONSTANTS
    None = None
    Norm <- MCNorm
    Words <- MCWords
    Terminals = {"Ticen", "TITRI"}
    MaxLength = 6
    Sites <- MCSites
    Limit = 3
    Concurrency = 2
    Retries = 1
SPECIFICATION Spec
INVARIANTS
    CollectTypeOK
    CompleteOrNothing
    SegmentsCoverDirections
    LabelsNameDirections
    MapOrderIrrelevant
PROPERTIES CollectEnds
CHECK_DEADLOCK FALSE
