SPECIFICATION FairSpec
CONSTANTS
    w1 = w1
    r1 = r1
    r2 = r2
    NoCall = NoCall
    Workers <- OneWorker
    Requests <- OneRequest
    JobLimit = 1
    GroupCount = 1
    PageCount = 1
    VersionLimit = 1
    OthersHaveJobs = TRUE
    CrashLimit = 1
PROPERTY StoppedJobEnds
