CONSTANTS
    r1 = r1  r2 = r2  x1 = x1  c1 = c1  c2 = c2  b1 = b1  b2 = b2
    main = main  other = other  top = top  child = child
    None = None
    Requests = {r1, r2}
    Executions = {x1}
    Projects = {main, other}
    DefaultProject = main
    Collections = {top, child}
    SubtreeOf <- MCSubtreeOf
    ProjectOf <- MCProjectOf
    Contents = {c1, c2}
    Blobs = {b1, b2}
    MaxFaults = 1
    MaxMismatches = 1
SYMMETRY Symmetry
SPECIFICATION Spec
INVARIANTS
    ReadsBack
    NoLeak
