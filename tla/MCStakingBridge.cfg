CONSTANTS
    Account = {a1}
    Address = {x1, x2}
    None = None
    Failed = Failed
    DECIMALS = 1
    Decimals = 0
    ExistentialDeposit = 2
    RewardPeriod = 2
    WithdrawalPeriod = 1
    Deposits = {15}
    Requests = {15}
    Slashes = {20}
    RewardAmounts = {5}
    StakeAmounts = {10}
    MaxTime = 2
    MaxStake = 30
    MaxRewards = 7
    MaxVotes = 1
    PalletBalance = 8
    MaxInFlight = 2
    Losses = 1
SYMMETRY AddressSymmetry
SPECIFICATION BridgeSpec
INVARIANTS
    CopyInStep
    TotalsSurviveLoss
CHECK_DEADLOCK FALSE
