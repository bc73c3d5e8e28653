CONSTANTS
    Cap = 1
    Drivers = {"http", "sse", "websocket"}
    MaxRetries = 0
    MaxChunks = 2
    SseCap = 1
    MaxPersisted = 1
    StoreMayFail = TRUE
    ClientMayLeave = TRUE
SPECIFICATION Spec
INVARIANTS
    StreamIsFaithful
    ClientToldVerdict
    HistoryMatchesOutcome
PROPERTIES
    Settles
