CONSTANTS
    QueryId = {q1}
    Account = {a1}
    None = None
    ReportingLock = 4
    MaxDisputedTimeSeries = 5
    StakeMultiples = {5}
    StartTime = 5
    MaxTime = 11
    MaxReports = 7
    MaxCounts = {0, 1, 2, 5}
    ReadDelay = 1
    OneDay = 5
    MaxU256 = 25
    Factors = {3}
    NotNumbers = {7}
SPECIFICATION UsingSpec
INVARIANTS
    DataBeforeIsLatest
    DataAfterIsEarliest
    MultipleValuesAreTheLatest
    DerivedFromLatest
PROPERTIES
    SettledDataIsFinal
CHECK_DEADLOCK FALSE
