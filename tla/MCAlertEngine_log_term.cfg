SPECIFICATION Spec
CONSTANTS
    Pids = {1}
    Starts = {1}
    Catalog <- TermCatalog
    Readings <- MCReadings
    Scans <- OneProcess
    Intervals = {1}
    Cycles = 4
    SanityMs = 2
    MaxCagedProcesses = 1
    DryRun = FALSE
    CageBackend = TRUE
    MaxKillsPerMinute = 1
    KillWindow = 4
    StartMs = 1
INVARIANTS
    LogTruthful
