SPECIFICATION Spec
CONSTANTS
    FileBuf = 3
    ClauseCount = 1
    MaxAssumptions = 2
    AllowMissing = FALSE
    Regex = FALSE
    Callback = FALSE
    ReportsBy = {"code"}
    Chatter = 0
    Satisfiable <- MCSatisfiable
    Lits = {1}
    MaxKids = 3
    OutCap = 1
    Uses = {"reset", "terminate"}
    Faults = {"crash", "early"}
INVARIANTS
    TypeOK
    AtMostOneChild
    OwnExitCode
    ProtocolInv
    ClausesConserved
PROPERTIES
    CallsReturn
    ReleaseEndsAll
