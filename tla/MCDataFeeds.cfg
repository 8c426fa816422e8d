CONSTANTS
    QueryId = {q1}
    Account = {a1}
    None = None
    ReportingLock = 2
    MaxDisputedTimeSeries = 3
    StakeMultiples = {3}
    StartTime = 3
    MaxTime = 8
    MaxReports = 3
    ClaimBuffer = 2
    TipAmounts = {1}
    Fee = 500
    MaxClaimTimestamps = 2
    ExistentialDeposit = 1
    InitialBalance = 4
    MaxTipped = 3
    FeedParams <- MCFeedParams
    FundAmounts = {0, 2}
    ReportedValues = {1, 2}
    ClaimExpiry = 5
SPECIFICATION FeedsSpec
INVARIANTS
    FeedsTypeOK
    FeedFundedIffBalance
    TipsAccountCoversAll
    OnePaidPerWindow
    QuotedRewardIsPaid
CHECK_DEADLOCK FALSE
