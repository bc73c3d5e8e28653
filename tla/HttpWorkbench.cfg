SPECIFICATION Spec
CONSTANTS
    Tabs = {t1}
    Interface = api
    Cases = {c1, c2}
    SavedCases = {c1}
    Urls = {0, 1}
    Fields = {0, 1, 2}
    BadFields = {2}
    Asynchronous = {"save", "create", "case", "update", "replay"}
    MaxSends = 2
    MaxSteps = 6
    None = None
CHECK_DEADLOCK FALSE
INVARIANTS
    AnswersBelong
PROPERTIES
    SendSettles
