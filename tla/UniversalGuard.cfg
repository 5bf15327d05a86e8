SPECIFICATION Spec
CONSTANTS
    FileBuf = 3
    LitCount = 2
    ClauseCount = 1
    MaxAssumptions = 2
    AllowMissing = FALSE
    MaxPrefix = 2
    MaxLen = 1
    ClauseLits <- MCClauseLits
    MaxSolves = 1
    MaxCube = 2
    ReadSizes <- MCReadSizes
    Habits = {}
INVARIANT
    UniversalsAssigned
