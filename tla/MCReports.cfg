CONSTANTS
    QueryId = {q1, q2}
    Account = {a1, a2}
    None = None
    ReportingLock = 4
    MaxDisputedTimeSeries = 2
    StakeMultiples = {1, 2, 5}
    StartTime = 5
    MaxTime = 9
    MaxReports = 4
SPECIFICATION ReportsSpec
INVARIANTS
    ReportsTypeOK
    IndexConsistent
    PreviousIsLatestUndisputed
    ValueIffUndisputed
    ReportsSpacedByLock
PROPERTIES
    SettledReportsUnchanged
    ConsumerView
CHECK_DEADLOCK FALSE
