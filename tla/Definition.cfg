CONSTANTS
    Tabs = {t1}
    Values = {0, 1}
    Asynchronous = {"load", "save", "bind"}
    MaxDefinitions = 2
    MaxSteps = 3
    MaxFileParts = 1
    Absent = Absent
    t1 = t1
SPECIFICATION DefinitionSpec
CHECK_DEADLOCK FALSE
INVARIANTS
    ReopensAsSaved
    OneDefinition
