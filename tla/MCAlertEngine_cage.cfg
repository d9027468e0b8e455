SPECIFICATION FairSpec
CONSTANTS
    Pids = {1, 2}
    Starts = {1, 2}
    Catalog <- CageCatalog
    Readings <- HighOnly
    Scans <- Recycled
    Intervals = {1}
    Cycles = 3
    SanityMs = 0
    MaxCagedProcesses = 2
    DryRun = FALSE
    CageBackend = TRUE
    MaxKillsPerMinute = 0
    KillWindow = 3
    StartMs = 1
INVARIANTS
    CagedWithinCap
    GcComplete
PROPERTIES
    Terminates
    MovesOn
