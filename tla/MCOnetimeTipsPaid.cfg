CONSTANTS
    QueryId = {q1}
    Account = {a1}
    None = None
    ReportingLock = 2
    MaxDisputedTimeSeries = 3
    StakeMultiples = {3}
    StartTime = 3
    MaxTime = 9
    MaxReports = 4
    ClaimBuffer = 2
    TipAmounts = {1, 2}
    Fee = 500
    MaxClaimTimestamps = 2
    ExistentialDeposit = 1
    InitialBalance = 4
    MaxTipped = 4
SPECIFICATION TipsSpec
CHECK_DEADLOCK FALSE
INVARIANTS
    PaidInFull
