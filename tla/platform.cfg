SPECIFICATION Spec
SYMMETRY Symmetry
CHECK_DEADLOCK FALSE
CONSTANTS
    p1 = p1
    p2 = p2
    Origins = {"a", "b"}
    PageLists <- MCPageLists
    RequestMax = 4
    RetryMax = 1
    RedirectMax = 1
    FetcherLimit = 2
    Clerks = {p1, p2}
    Leads = {"l1", "l2"}
    FactOf <- MCFactOf
    LeadOf <- MCLeadOf
    Records = {"r1", "r2", "r3"}
    FromMonitoring = {"r1"}
    Reviews = {"v"}
    Curators = {p1, p2}
    Workbooks = {"w1", "w2", "w3"}
    VersionIn <- MCVersionIn
    Reviewed = {"w1", "w2"}
    NoVersion = NoVersion
    CuratedClockEnd = 1
    Operators = {p1, p2}
    Attempts = {"t1"}
    TroubleMax = 1
    NoAttempt = "none"
    NoOperator = NoOperator
    Switchers = {p1, p2}
    Releasings = {"t1", "t2", "t3"}
    TargetOf <- MCTargetOf
    FirstRelease = "R"
    NoReleasing = "none"
    NoSwitcher = NoSwitcher
    Logins = {"l"}
    TokenMax = 3
    Exchanges = {p1, p2}
    AccessTtl = 1
    RefreshTtl = 2
    CodeTtl = 1
    LoginTtl = 1
    ReauthTtl = 2
    GrantMax = 2
    OAuthClockEnd = 5
    Callers = {p1, p2}
    SlotMax = 1
    HttpMax = 1
    ChargeMax = 2
    ReserveBytes = 1
    DayBytes = 1
    AuditWindow = 1
    AuditClockEnd = 1
    Items = {"e1"}
    VersionMax = 2
    Tabs = {p1, p2}
    ReportKeys = {"k1", "k2"}
    ReportLimit = 1
    NoReport = NoReport
    InquiryCount = 2
    Subjects = {"s"}
    SubjectOf <- MCSubjectOf
    IdentityWorkers = {p1, p2}
    Desks = {"d"}
    SearchMax = 1
    FetchMax = 2
    SearchAnswers <- MCSearchAnswers
    FetchReserve = 1
    IdentityLease = 1
    CoalesceWait = 1
    IdentityClockEnd = 2
    CandidateMax = 3
    GroupMax = 2
    TopicOf <- MCTopicOf
    Directory = {}
    Doubtful = {}
    TitleOf <- MCTitleOf
    Denied = {3}
    AnswerMax = 1
    QueueMax = 2
    DocumentMax = 1
    SearchCallMax = 1
    FetchCallMax = 1
    Notices = {1, 2, 3}
    HolderOf <- MCHolderOf
    TextOf <- MCTextOf
    Approvers = {p1, p2}
    NotStated = NotStated
    LossMax = 1
INVARIANTS
    TypeOK
    SharedAsDecided
    IsolationHolds
    OneChainUntilRevoked
    AuditTellsDelivery
    SeenWasShown
    OneIdentityCall
    CompleteMeansRead
    ReviewedLastIsShown
PROPERTIES
    OriginRulesKept
    RetractedForGood
    NewestConfirmationShown
    SwitchedAsPrepared
    WorkersKeepCancellation
    ReadOnce
