CONSTANTS
    QueryId = {usd, local}
    StakingTokenPriceQueryId = usd
    StakingToLocalTokenPriceQueryId = local
    Account = {a1}
    None = None
    ReportingLock = 2
    MaxDisputedTimeSeries = 2
    StakeMultiples = {5}
    StartTime = 1
    MaxTime = 6
    MaxReports = 2
    MaxCounts = {}
    DECIMALS = 1
    Decimals = 0
    SettlePeriod = 2
    PriceUnit = 10
    MinPrice = 10
    MaxPrice = 30
    StakeAmountCurrencyTarget = 1500
    MinimumStakeAmount = 1000
    InitialDisputeFee = 7
    UpdateStakeAmountInterval = 1
    ReportedPrices = {10, 20, 30}
SPECIFICATION StakeAmountSpec
INVARIANTS
    AmountsExplained
PROPERTIES
    DuePricesApply
