SPECIFICATION FairSpec
CONSTANTS
    Sentinels <- TwoSentinels
    Values = {0, 1}
    CountsUp = TRUE
INVARIANTS
    TypeOK
    NoOrphanThread
    ShutdownReadable
PROPERTIES
    WakeReported
CHECK_DEADLOCK FALSE
