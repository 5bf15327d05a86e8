SPECIFICATION Spec
CONSTANTS
    FileBuf = 3
    ClauseCount = 1
    MaxAssumptions = 1
    AllowMissing = FALSE
    Regex = FALSE
    Callback = TRUE
    ReportsBy = {"line"}
    Chatter = 1
    Satisfiable <- MCSatisfiable
    Lits = {1}
    MaxKids = 3
    OutCap = 4
    Uses = {}
    Faults = {}
INVARIANT
    SolveSound
PROPERTY
    CallsReturn
