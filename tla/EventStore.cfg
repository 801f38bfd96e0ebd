SPECIFICATION FairSpec

CONSTANTS
    Types = {"ALERT", "NORMAL"}
    MAX_TOTAL = 3
    PRUNE_COUNT = 2
    EVENTS = 5
    OTHERS = 2
    FAULTS = 1

INVARIANTS
    RowsHaveImages
    ImagesHaveRows

PROPERTIES
    KeepsLog
    StoredWhenReturned
    LimitOrNothing
    LogReturns
