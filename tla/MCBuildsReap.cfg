SPECIFICATION Spec
CONSTANTS
    r1 = r1
    r2 = r2
    s1 = s1
    s2 = s2
    test = test
    nightly = nightly
    release = release
    scan = scan
    main = main
    v1 = v1
    mr = mr
    t1 = t1
    w1 = w1
    w2 = w2
    Repos = {r1}
    Shas = {s1}
    Jobs = {test, scan}
    Scheduled = {}
    TagJobs = {}
    SecurityJob = scan
    Refs = {main}
    Branches = {main}
    Tags = {}
    DefaultBranch = main
    Trees = {t1}
    Runners = {w1}
    Isolating = {w1}
    MaxBuilds = 2
    MaxQueueing = 1
    MaxCrashes = 0
    MaxDeaths = 0
    TreeOf <- MCTreeOf
    MayClaim <- MCMayClaim
INVARIANT
    ReapsOnlyGone
CHECK_DEADLOCK FALSE
