SPECIFICATION Spec
CONSTANTS
    w1 = w1
    r1 = r1
    r2 = r2
    NoCall = NoCall
    Workers <- OneWorker
    Requests <- TwoRequests
    JobLimit = 2
    GroupCount = 2
    PageCount = 1
    VersionLimit = 0
    OthersHaveJobs = FALSE
    CrashLimit = 1
SYMMETRY Sym
INVARIANT CancelledByOwner
