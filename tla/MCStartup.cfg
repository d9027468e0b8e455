SPECIFICATION StartupSpec
CONSTANTS
    Words <- MCWords
    Files <- MCFiles
    Names = {"a", "b"}
    Numerals <- MCNumerals
    IntMax <- MCIntMax
INVARIANTS
    CatalogTypeOK
    AcceptsExactly
    LastValueWins
    FailureLeavesDefaults
    IniErrorIsFirst
    NothingLeaks
    RunningIsReady
