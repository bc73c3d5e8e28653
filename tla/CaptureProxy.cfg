CONSTANTS
    Starts = {s1, s2}
    Stops = {k1, k2}
    Addresses = {a1, a2}
    Conns = {c1}
    MaxExchanges = 2
    MaxRequests = 3
    Absent = Absent
SPECIFICATION CaptureSpec
CHECK_DEADLOCK FALSE
INVARIANTS
    StatusHonest
PROPERTIES
    StopEnds
