SPECIFICATION FinancingSpec
CHECK_DEADLOCK FALSE
CONSTANTS
    Reports = {"n1", "n2", "a1", "a2", "b1"}
    CuratedRecords = {"c1"}
    ClaimOf <- MCClaimOf
    Filers = {"f"}
    Undisclosed = Undisclosed
    WithdrawalMax = 2
INVARIANT RoundsNeverJoined
