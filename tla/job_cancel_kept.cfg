SPECIFICATION Spec
CONSTANTS
    w1 = w1
    r1 = r1
    r2 = r2
    NoCall = NoCall
    Workers <- OneWorker
    Requests <- TwoRequests
    JobLimit = 1
    GroupCount = 1
    PageCount = 1
    VersionLimit = 0
    OthersHaveJobs = FALSE
    CrashLimit = 0
SYMMETRY Sym
PROPERTY CancelledNotRestarted
