SPECIFICATION RegistrySpec
CONSTANTS
    Procs = {1, 2, 3}
    NPerProc = 2
    Grace = 1
    Cycles = 4
    MaxShortages = 1
    hz = 100
    ncpus = 2
    PolicyMetrics <- MCPolicyMetrics
    Readings <- MCReadings
INVARIANTS
    StoreTypeOK
    HistoryIsLast
    GraceUpper
    RegistryFollowsStore
    
PROPERTIES
    GraceLower
    HistorySpec
CHECK_DEADLOCK FALSE
