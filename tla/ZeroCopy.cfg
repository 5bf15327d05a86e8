SPECIFICATION Spec
CONSTANTS
    PageCells = 2
    BufPages = 3
    PipePages = 3
    HeaderCells = 3
    MaxSent = 14
INVARIANTS
    TypeOK
    PagesSettled
    PreparedIsNext
    BuffersUsedUp
PROPERTIES
    ImplementsChannel
