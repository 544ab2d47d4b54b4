SPECIFICATION Spec
CONSTANTS
    BufferSize = 1
    BatchSize = 2
    MaxQueues = 2
    MaxSends = 1
    MaxLog = 2
    MaxCrashes = 1
    MaxTime = 1
    MaxRegs = 2
    MaxFailures = 1
    MaxSets = 2
    MaxWatches = 1
    Cool = 1
    MaxElapsed = 2
    MaxRegisters = 2
    MaxLeases = 4
    MaxFaults = 1
    MaxRev = 2
    MaxEvents = 3
    MaxDrops = 1
    MaxChanges = 1
INVARIANTS
    TypeOK
    NoSendOnClosed
    
    
    
PROPERTIES
    ShutdownEnds
    
    
    OverloadEnds
CHECK_DEADLOCK FALSE
