CONSTANTS
    c1 = c1
    c2 = c2
    c3 = c3
    Nobody = Nobody
    Consumers <- ThreeConsumers
    Buffer = 1
    ReadCount = 2
    MaxBatch = 2
    MaxId = 3
    MaxHistory = 0
    MaxTerm = 3
    MaxLead = 2
    Maintained = {2, 3}
    MaxFaults = 3
    Faults <- Failover
    Closing = FALSE
    Partitions = FALSE
    QuietLive = FALSE
SPECIFICATION Spec
SYMMETRY Names
INVARIANTS
    NothingStranded
    Retained
CHECK_DEADLOCK FALSE
