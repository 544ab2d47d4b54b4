CONSTANTS
    c1 = c1
    c2 = c2
    c3 = c3
    Nobody = Nobody
    Consumers <- TwoConsumers
    Buffer = 1
    ReadCount = 1
    MaxBatch = 1
    MaxId = 2
    MaxHistory = 1
    MaxTerm = 2
    MaxLead = 2
    Maintained = {}
    MaxFaults = 1
    Faults <- Failover
    Closing = TRUE
    Partitions = FALSE
    QuietLive = FALSE
SPECIFICATION FairSpec
INVARIANTS
    TypeOK
    NothingStranded
    OneActive
PROPERTIES
    EverythingProcessed
    SomebodyLeads
    CloseReturns
CHECK_DEADLOCK FALSE
