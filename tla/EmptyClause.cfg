SPECIFICATION Spec
CONSTANTS
    FileBuf = 3
    LitCount = 2
    ClauseCount = 2
    MaxAssumptions = 1
    AllowMissing = FALSE
    MaxPrefix = 0
    MaxLen = 1
    ClauseLits <- MCClauseLits
    MaxSolves = 1
    MaxCube = 1
    ReadSizes <- MCReadSizes
    Habits = {"empty_clause"}
INVARIANT
    DeliversFormula
