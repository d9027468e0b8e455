SPECIFICATION Spec
CONSTANTS
    Pids = {1}
    Starts = {1}
    Catalog <- LadderCatalog
    Readings <- MCReadings
    Scans <- OneProcess
    Intervals = {1, 2}
    Cycles = 10
    SanityMs = 3
    MaxCagedProcesses = 1
    DryRun = FALSE
    CageBackend = FALSE
    MaxKillsPerMinute = 1
    KillWindow = 4
    StartMs = 1
INVARIANTS
    TypeOK
    SanityBeforeStop
    ProtectedUntouched
PROPERTIES
    EscalationOrder
    EmissionNeedsStreak
    DeactivationNeedsLow
    ActivatesOnStreak
