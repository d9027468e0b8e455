SPECIFICATION Spec
CONSTANTS
    Pids = {1, 2}
    Starts = {1}
    Catalog <- DryCatalog
    Readings <- HighOrLow
    Scans <- TwoOrOne
    Intervals = {1}
    Cycles = 6
    SanityMs = 3
    MaxCagedProcesses = 1
    DryRun = TRUE
    CageBackend = TRUE
    MaxKillsPerMinute = 1
    KillWindow = 4
    StartMs = 1
INVARIANTS
    DryRunHarmless
