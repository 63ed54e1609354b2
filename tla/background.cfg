SPECIFICATION Spec
SYMMETRY Symmetry
CHECK_DEADLOCK FALSE
CONSTANTS
    p1 = p1
    p2 = p2
    e1 = e1
    e2 = e2
    e3 = e3
    None = None
    TrustedSources = {"s1"}
    Links <- MCLinks
    Versions = {"va", "vb"}
    Tagged = {"va", "vb"}
    CheckLimit = 2
    Checkers = {p1, p2}
    CheckLease = 1
    Frequency = 1
    BackoffLimit = 2
    ScheduleLimit = 1
    SourceClockEnd = 1
    FetchLimit = 2
    Refreshers = {p1, p2}
    MockWorkers = {p1, p2}
    NoWorker = NoWorker
    NoTime = NoTime
    RefreshLimit = 3
    RefreshClockEnd = 4
    Cooldown = 2
    MockLease = 1
    Analysts = {p1, p2}
    Events = {e1, e2, e3}
    InputLimit = 1
    ProjectedTokens = 1
    CallTokens = 2
    TokenLimit = 1
    AnalysisLease = 1
    MonthLength = 1
    AnalysisClockEnd = 1
    LossLimit = 1
    Nobody = Nobody
    Watched = {"c1"}
    Schedulers = {p1, p2}
    CheckJobMax = 2
    CheckWorkers = 1
    WatchInterval = 1
    WatchIntervalMax = 2
    NoChangeAfter = 1
    WatchCooldown = 1
    FailureWaitMax = 2
    BatchMax = 1
    WatchClockEnd = 1
    Targets = {"t1", "t2"}
    NoTarget = NoTarget
    Submissions = {p1, p2}
    PetitionMax = 2
    RaiseMax = 1
    DailyBase = 1
    MonthlyBase = 1
    RaiseExtra = 1
    RequestCooldown = 1
    DayLength = 1
    DaysPerMonth = 2
    MemberClockEnd = 1
    Reports = {"n1", "n2", "a1", "a2", "b1"}
    CuratedRecords = {"c1"}
    ClaimOf <- MCClaimOf
    Filers = {p1, p2}
    Undisclosed = Undisclosed
    WithdrawalMax = 2
    Passages = {"q1", "q2", "q3"}
    Baselines = {"b"}
    QuoteOf <- MCQuoteOf
    ReadingOf <- MCReadingOf
    Recorders = {p1, p2}
    Unstated = Unstated
    StrikeMax = 2
INVARIANTS
    TypeOK
    OneRoundEach
    MattersHoldTogether
    OneRefreshPerCooldown
    MonthlyTokensBounded
    RequestsAdmitted
PROPERTIES
    NotRevived
    AnswersInOrder
    ChecksAreLeased
    RefreshesAreLeased
    AnalysesAreLeased
    ChecksSpaced
