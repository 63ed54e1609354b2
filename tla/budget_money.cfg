SPECIFICATION Spec
CONSTANTS
    w1 = w1
    w2 = w2
    k1 = k1
    k2 = k2
    k3 = k3
    old = old
    NoKey = NoKey
    NoSubject = NoSubject
    Callers = {w1}
    Keys <- MCKeys
    LegacyKeys <- MCLegacyKeys
    TaskOf <- MCTaskOf
    SubjectOf <- MCSubjectOf
    OperationOf <- SearchesAndFetch
    ReservedCalls <- MixedRequests
    UnitPrice <- MixedPrices
    UnknownPriceUpperBound = 2
    TaskCallLimit = 3
    TaskBaseline = 0
    DailySearchLimit = 9
    MonthlySearchLimit = 9
    TaskCostLimit = 3
    CompanyDailyLimit = 2
    CompanyWeeklyLimit = 3
    SystemWeeklyLimit = 4
    SystemMonthlyLimit = 5
    WeekStart <- EverySecondDay
    MonthStart <- EveryThirdDay
    CallCounts = {1, 2}
    LegacyCounts = {1}
    Costs = {0, 3}
    MaxDay = 2
INVARIANTS MoneyWithinLimits
CHECK_DEADLOCK FALSE
