SPECIFICATION Spec
CONSTANTS
    Files <- MCFiles
    CommandLines <- UnevenCommandLines
    AllowMissing = FALSE
INVARIANTS
    RowsAnswerTheirLists
