CONSTANTS
    a1 = a1
    a2 = a2
    QueryId = {q1, q2}
    Account = {a1, a2}
    None = None
    ReportingLock = 1
    MaxDisputedTimeSeries = 2
    StakeMultiples = {1}
    StartTime = 2
    MaxTime = 4
    MaxReports = 1
    Day = 2
    SendDelay = 1
    MaxVotingPeriod = 3
    MaxVoteRounds = 2
    MaxVotesPerBlock = 1
    SendVotesInputs = {0, 1}
    DisputeFees = {1}
    UserTips <- MCUserTips
    ExistentialDeposit = 1
    InitialBalance = 4
    Voters = {a1}
SPECIFICATION FairGovSpec
PROPERTIES
    VotesSentWithinVotingPeriod
