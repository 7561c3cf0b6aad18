SPECIFICATION FairSpec
CONSTANTS
    Sentinels <- OneSentinel
    Values = {0, 1}
    CountsUp = FALSE
PROPERTIES
    ShutdownReturns
