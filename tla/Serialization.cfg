SPECIFICATION Spec
CONSTANTS
    FileBuf = 3
    LitCount = 2
    ClauseCount = 2
    MaxAssumptions = 2
    AllowMissing = FALSE
    MaxPrefix = 3
    MaxLen = 2
    ClauseLits <- MCClauseLits
    MaxSolves = 2
    MaxCube = 2
    ReadSizes <- MCReadSizes
    Habits = {"close_block", "reads_past_eof"}
INVARIANTS
    TypeOK
    DeliversFormula
    SeedNeverEnds
    ClausesAccounted
    NoFalseRefusal
    RuntimeSurvives
PROPERTY
    EverySolveReturns
