CONSTANTS
    Ids = {1, 2, 3, 4}
    Ticker = auto
    Flushers = {auto, app}
    MaxFaults = 2
SPECIFICATION FairSpec
INVARIANTS
    TypeOK
    AckedWereProcessed
    RecordedIsKept
    CoveredIsPrefix
PROPERTIES
    ImplementsAckWindow
    CoveredIsAcked
CHECK_DEADLOCK FALSE
