SPECIFICATION Spec
CONSTANTS
    Tasks = {"x", "y", "z"}
    MaxFaults = 1
    MaxAdds = 3
    MaxTime = 4
    MaxRestarts = 1
    MaxGen = 1
    MaxPeriods = 3
    MaxDeletes = 1
    MaxSize = 21
    MaxHops = 2
    MaxWraps = 1
    MaxLen = 3
    MaxNow = 40
    MaxEntries = 5
    MaxCalls = 3
    MaxCloses = 1
    MaxReports = 3
    MaxConfigs = 1
    MaxLatency = 2
    MaxRev = 2
    MaxOpts = 1
    MaxGens = 3
    MaxChanges = 1
    MaxOps = 2
INVARIANTS
    TypeOK
    
    NoDuplicate
    DamagePerFault
    
    BuiltIsFit
    NoStranded
    
    
    
PROPERTIES
    
    
    
    HopPreserves
CHECK_DEADLOCK FALSE
