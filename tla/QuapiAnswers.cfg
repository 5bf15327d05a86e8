SPECIFICATION Spec
CONSTANTS
    FileBuf = 3
    ClauseCount = 2
    MaxAssumptions = 2
    AllowMissing = FALSE
    Regex = FALSE
    Callback = FALSE
    ReportsBy = {"code"}
    Chatter = 0
    Satisfiable <- MCSatisfiable
    Lits = {1, 2}
    MaxKids = 4
    OutCap = 1
    Uses = {}
    Faults = {}
INVARIANTS
    OwnQuestion
    SolveSound
PROPERTIES
    ImplementsSolver
