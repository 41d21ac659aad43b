SPECIFICATION Spec
CONSTANTS
    h1 = h1
    h2 = h2
    u1 = u1
    p1 = p1
    p2 = p2
    Heads = {h1, h2}
    FirstHead = h1
    SameDiff = {}
    Reviewers = {u1}
    Required = 1
    RequireChecks = TRUE
    HasCI = FALSE
    Procs = {p1, p2}
    MaxTarget = 2
    MaxCommands = 4
    MaxCrashes = 1
    Ancestors <- MCAncestors
INVARIANTS
    MRTypeOK
    MergedIsLanded
    LandsOnce
PROPERTY
    TargetOnlyGrows
SYMMETRY ProcSymmetry
CHECK_DEADLOCK FALSE
