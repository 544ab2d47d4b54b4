CONSTANTS
    c1 = c1
    c2 = c2
    c3 = c3
    Nobody = Nobody
    Consumers <- TwoConsumers
    Buffer = 1
    ReadCount = 2
    MaxBatch = 2
    MaxId = 2
    MaxHistory = 0
    MaxTerm = 2
    MaxLead = 2
    Maintained = {}
    MaxFaults = 1
    Faults <- AllFaults
    Closing = TRUE
    Partitions = TRUE
    QuietLive = FALSE
SPECIFICATION Spec
SYMMETRY Names
INVARIANTS
    AckedWereProcessed
    DeliveredInOrder
CHECK_DEADLOCK FALSE
