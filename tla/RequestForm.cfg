CONSTANTS
    MaxEdits = 3
SPECIFICATION FormSpec
CHECK_DEADLOCK FALSE
INVARIANTS
    ReopensAsSent
    RowsMatchUrl
