CONSTANTS
    DefaultProject = p0
    None = None
    OtherProjects = {p1}
    Names = {"a", "b"}
    MaxCalls = 2
    MaxFaults = 1
    Records = {h1, h2, h3}
    HttpRecords = {h1}
    Lost = {h3}
    Origin = 1
    Filters = {all, failed}
    NoFilter = all
    Nobody = Nobody
    Senders = {s1, s2}
    Streaming = {s1}
    NoExecution = NoExecution
    Contents = {"none", "x"}
    NoContent = "none"
    Resources = {"e1", "e2"}
    Secrets = {"s"}
    Widths = {0, 48, 200, 500}
    MaxWidth = 400
    DragStep = 10
    IMPORT_MAX_DEPTH = 3
    IMPORT_MAX_NODES = 6
    IMPORT_MAX_REFS = 3
    IMPORT_MAX_REQUESTS = 2
    Members = {m1, m2}
    Workspaces = {v1, v2}
    SharedWorkspace = v1
    Syncs = {y1, y2}
    Agents = {a1, a2}
    NoToken = NoToken
    AgentCalls = {c1, c2}
    Windows = {"w1", "w2"}
    Texts = {"", "x"}
    DefaultText = ""
    PreferencePages <- MCPages
    Files <- MCFiles
    Imports <- Outcomes
    Scenarios <- MCScenarios
SPECIFICATION Spec
CHECK_DEADLOCK FALSE
INVARIANTS
    TreeIsStored
    CopiesFaithful
    HistoryFaithful
    OwnEventsOnly
    NoOrphanSocket
    EnvironmentKept
    ImportResolves
    NoBlindOverwrite
    SessionUsed
    PagesAgree
PROPERTIES
    TreeIsView
