CONSTANTS
    Jobs = {j1, j2}
    Runs = {r1, r2}
    Permits = 1
    MaxResults = 1
    MaxTime = 1
    MaxCrashes = 1
    MaxErrors = 1
    None = None
SPECIFICATION Spec
CHECK_DEADLOCK FALSE
INVARIANTS
    CreatedJobsPersist
    OncePerInterval
PROPERTIES
    RunsEnd
