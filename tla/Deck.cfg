CONSTANTS
    Interface = api
    Cases = {c1}
    SocketRequests = {t1}
    Slots = {s1}
    MaxTabs = 2
    MaxIds = 3
    MaxSaves = 2
    MaxSteps = 7
    None = None
SPECIFICATION Spec
CHECK_DEADLOCK FALSE
INVARIANTS
    TabShowsItsRequest
    OneTabPerRequest
