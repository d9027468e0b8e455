SPECIFICATION GovernanceSpec
CONSTANTS
    Pids = {2, 3}
    Starts = {1, 2}
    Catalog <- MCCatalog
    Readings <- HighOnly
    Scans <- MCScans
    Intervals = {1}
    Cycles = 2
    SanityMs = 0
    MaxCagedProcesses = 1
    DryRun = FALSE
    CageBackend = TRUE
    MaxKillsPerMinute = 1
    KillWindow = 3
    StartMs = 1
    PidSpace = {2, 3}
    Initial <- MCInitial
    Images <- TwoImages
    MaxStarts = 2
    MaxExecs = 1
INVARIANTS
    ReleasedIsEmpty
