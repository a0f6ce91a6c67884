SPECIFICATION Spec
CONSTANTS
    InternalLength = 1
    SwingLength = 2
    AtrPeriod = 2
    Markets <- MCMarkets
    Corrections <- MCCorrections
    PageSize = 2
    MaxAttempts = 2
INVARIANTS TypeOK DiskIsSound EngineFollowsFile BlocksFollowCandles RestartRebuildsStructure
CONSTRAINT Followed
CHECK_DEADLOCK FALSE
