CONSTANTS
    c1 = c1
    c2 = c2
    c3 = c3
    Nobody = Nobody
    Consumers <- TwoConsumers
    Buffer = 1
    ReadCount = 1
    MaxBatch = 1
    MaxId = 1
    MaxHistory = 0
    MaxTerm = 3
    MaxLead = 2
    Maintained = {2}
    MaxFaults = 0
    Faults <- NoFaults
    Closing = FALSE
    Partitions = TRUE
    QuietLive = TRUE
SPECIFICATION Spec
SYMMETRY Names
INVARIANTS
    Retained
CHECK_DEADLOCK FALSE
