SPECIFICATION FairSpec
CONSTANTS
    r1 = r1
    r2 = r2
    s1 = s1
    s2 = s2
    test = test
    nightly = nightly
    release = release
    scan = scan
    main = main
    v1 = v1
    mr = mr
    t1 = t1
    w1 = w1
    w2 = w2
    Repos = {r1}
    Shas = {s1}
    Jobs = {release, scan}
    Scheduled = {}
    TagJobs = {release}
    SecurityJob = scan
    Refs = {main, v1}
    Branches = {main}
    Tags = {v1}
    DefaultBranch = main
    Trees = {t1}
    Runners = {w1}
    Isolating = {w1}
    MaxBuilds = 2
    MaxQueueing = 0
    MaxCrashes = 1
    MaxDeaths = 1
    TreeOf <- MCTreeOf
    MayClaim <- MCMayClaim
PROPERTY
    EveryClaimResolves
CHECK_DEADLOCK FALSE
