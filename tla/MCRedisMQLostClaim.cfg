CONSTANTS
    c1 = c1
    c2 = c2
    c3 = c3
    Nobody = Nobody
    Consumers <- TwoConsumers
    Buffer = 1
    ReadCount = 1
    MaxBatch = 1
    MaxId = 2
    MaxHistory = 0
    MaxTerm = 2
    MaxLead = 2
    Maintained = {}
    MaxFaults = 2
    Faults <- LostClaim
    Closing = FALSE
    Partitions = FALSE
    QuietLive = FALSE
SPECIFICATION Spec
SYMMETRY Names
INVARIANTS
    NothingStranded
CHECK_DEADLOCK FALSE
