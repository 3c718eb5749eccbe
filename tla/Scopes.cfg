SPECIFICATION Spec
CONSTANTS
    Names = {"x"}
    Values = {0, 1}
    Null = 0
    Closures = {"f", "i"}
    Inlines = {"i"}
    Script = "f"
    MaxFrames = 3
    MaxScopes = 2
    MaxTables = 11
    MaxCells = 3
    MaxSteps = 4
    MaxScopeSteps = 2
INVARIANTS SharedAsAsked ScopesOwned WatchesReport
CHECK_DEADLOCK FALSE
