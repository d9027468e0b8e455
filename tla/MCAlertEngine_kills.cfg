SPECIFICATION Spec
CONSTANTS
    Pids = {1, 2}
    Starts = {1}
    Catalog <- KillsCatalog
    Readings <- HighOnly
    Scans <- TwoProcesses
    Intervals = {1, 2}
    Cycles = 5
    SanityMs = 1
    MaxCagedProcesses = 0
    DryRun = FALSE
    CageBackend = FALSE
    MaxKillsPerMinute = 2
    KillWindow = 3
    StartMs = 1
INVARIANTS
    KillCeiling
    CeilingExact
PROPERTIES
    BudgetSpec
    RungNeedsCall
