CONSTANTS
    Cap = 1
    Drivers = {"http", "sse", "websocket"}
    MaxRetries = 1
    MaxChunks = 2
SPECIFICATION CollectSpec
INVARIANTS
    NoEventLost
    CollectedAll
    WholeResponseJudged
PROPERTIES
    Returns
