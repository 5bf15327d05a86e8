SPECIFICATION Spec
CONSTANTS
    Files <- MCFiles
    CommandLines <- MCCommandLines
    AllowMissing = FALSE
INVARIANTS
    TypeOK
    SplitsExact
    OnlyRefusalsMix
    EveryListOnce
    HeaderSuffices
    CallsAllowed
PROPERTIES
    Terminates
