CONSTANTS
    Ids = {1, 2, 3, 4}
    Ticker = auto
    Flushers = {auto, app}
    MaxFaults = 2
SPECIFICATION Spec
INVARIANT PendingAscending
CHECK_DEADLOCK FALSE
