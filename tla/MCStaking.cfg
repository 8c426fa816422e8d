CONSTANTS
    Account = {a1, a2}
    Address = {x1}
    None = None
    Failed = Failed
    DECIMALS = 1
    Decimals = 0
    ExistentialDeposit = 2
    RewardPeriod = 2
    WithdrawalPeriod = 1
    Deposits = {15}
    Requests = {10}
    Slashes = {15}
    RewardAmounts = {5}
    StakeAmounts = {10, 20}
    MaxTime = 2
    MaxStake = 30
    MaxRewards = 7
    MaxVotes = 1
SYMMETRY MCSymmetry
SPECIFICATION StakingSpec
INVARIANTS
    TotalsMatchStakers
    RewardsCovered
    ReportsApplyWhenFunded
PROPERTIES
    WithdrawalsWait
CHECK_DEADLOCK FALSE
