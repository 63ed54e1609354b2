SPECIFICATION Spec
CONSTANTS
    w1 = w1
    w2 = w2
    k1 = k1
    k2 = k2
    k3 = k3
    old = old
    NoKey = NoKey
    NoSubject = NoSubject
    Callers <- MCCallers
    Keys <- MCKeys
    LegacyKeys <- MCLegacyKeys
    TaskOf <- MCTaskOf
    SubjectOf <- MCSubjectOf
    OperationOf <- AllSearches
    ReservedCalls <- OneRequest
    UnitPrice <- Free
    UnknownPriceUpperBound = 0
    TaskCallLimit = 2
    TaskBaseline = 1
    DailySearchLimit = 1
    MonthlySearchLimit = 2
    TaskCostLimit = 0
    CompanyDailyLimit = 0
    CompanyWeeklyLimit = 0
    SystemWeeklyLimit = 0
    SystemMonthlyLimit = 0
    WeekStart <- EverySecondDay
    MonthStart <- EverySecondDay
    CallCounts = {1, 2}
    LegacyCounts = {0, 1}
    Costs = {0}
    MaxDay = 2
SYMMETRY CallerSymmetry
INVARIANTS TypeOK CalledAtMostOnce CallIsLiability CallsWithinLimits
PROPERTIES ConfirmedIsFinal HeldUntilConfirmed
CHECK_DEADLOCK FALSE
