SPECIFICATION Spec
CONSTANTS
    FileBuf = 3
    ClauseCount = 1
    MaxAssumptions = 1
    AllowMissing = FALSE
    Regex = FALSE
    Callback = FALSE
    ReportsBy = {"code"}
    Chatter = 0
    Satisfiable <- MCSatisfiable
    Lits = {1}
    MaxKids = 2
    OutCap = 1
    Uses = {"terminate"}
    Faults = {}
PROPERTY
    TerminateIsForThisSolve
