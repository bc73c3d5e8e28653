CONSTANTS
    w0 = w0  w1 = w1  p0 = p0  p1 = p1  c0 = c0  c1 = c1  c2 = c2  e0 = e0  e1 = e1
    NoId = NoId
    Workspaces = {w0, w1}
    Projects = {p0, p1}
    Collections = {c0, c1, c2}
    Environments = {e0, e1}
    DefaultWorkspace = w0
    DefaultProject = p0
    DefaultCollection = c0
    DefaultEnv = e0
    MaxModules = 1
    MaxFaults = 2
SPECIFICATION TablesSpec
SYMMETRY Symmetry
INVARIANTS
    Forest
    Homes
    NoOrphans
