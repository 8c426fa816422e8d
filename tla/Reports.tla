------------------------------ MODULE Reports ------------------------------
(***************************************************************************)
(* The report store of the Tellor pallet's oracle: the time series of      *)
(* values that staked reporters submit for each query identifier, and the  *)
(* removal of a value when a dispute begins.                               *)
(*                                                                         *)
(* Every report keeps a back pointer `previous` to the latest undisputed   *)
(* report before it, and each query a pointer LastReportedTimestamp to its *)
(* latest undisputed report.  Tips, feeds, staking rewards and every       *)
(* look-up by time rely on both.                                           *)
(*                                                                         *)
(* A dispatchable is transactional (an Err leaves storage as it was), so a *)
(* call that fails is a stuttering step and has no action.  The value      *)
(* bytes are abstracted to their presence in ReportedValuesByTimestamp.    *)
(***************************************************************************)
EXTENDS Integers, FiniteSets

CONSTANTS
    QueryId,                \* query identifiers
    Account,                \* accounts of the parachain
    None,                   \* Option::None
    ReportingLock,          \* REPORTING_LOCK
    MaxDisputedTimeSeries,  \* Config::MaxDisputedTimeSeries
    StakeMultiples,         \* values of staked_balance / StakeAmount explored
    StartTime,              \* time of the first block explored
    MaxTime,                \* bound: the clock stops here
    MaxReports              \* bound: reports per query identifier

ASSUME ReportsAssumption ==
    /\ None \notin Nat
    /\ ReportingLock \in Nat \ {0}
    /\ MaxDisputedTimeSeries \in Nat
    /\ StakeMultiples \subseteq Nat \ {0}
    /\ StartTime \in Nat \ {0}
    /\ MaxTime \in Nat
    /\ MaxReports \in Nat

VARIABLES
    now,           \* Self::now(), in whole time units
    count,         \* ReportedTimestampCount
    byIndex,       \* ReportedTimestampsByIndex
    reports,       \* Reports
    values,        \* timestamps with an entry in ReportedValuesByTimestamp
    lastReported,  \* LastReportedTimestamp
    timeOfLastNewValue,  \* TimeOfLastNewValue
    lastTimestamp, \* StakerDetails[a].reporter_last_timestamp
    submitted,     \* StakerDetails[a].reports_submitted
    submittedBy    \* StakerReportsSubmittedByQueryId

storeVars == <<count, byIndex, reports, values, lastReported>>
stakerVars == <<timeOfLastNewValue, lastTimestamp, submitted, submittedBy>>
reportsVars == <<now, storeVars, stakerVars>>

Timestamp == Nat
MaybeTimestamp == Timestamp \cup {None}

Report == [index : Nat, reporter : Account, is_disputed : BOOLEAN, previous : MaybeTimestamp]

-----------------------------------------------------------------------------
(* Storage before the first report. *)
ReportsInit ==
    /\ now = StartTime
    /\ count = [q \in QueryId |-> 0]
    /\ byIndex = [q \in QueryId |-> [i \in {} |-> 0]]
    /\ reports = [q \in QueryId |-> [t \in {} |-> 0]]
    /\ values = [q \in QueryId |-> {}]
    /\ lastReported = [q \in QueryId |-> None]
    /\ timeOfLastNewValue = None
    /\ lastTimestamp = [a \in Account |-> 0]
    /\ submitted = [a \in Account |-> 0]
    /\ submittedBy = [a \in Account |-> [q \in QueryId |-> 0]]

(* The reporting lock: a reporter with n times the stake amount waits a    *)
(* n-th of the lock, computed in thousandths.                              *)
LockExpired(a, multiple) ==
    (now - lastTimestamp[a]) * 1000 > (ReportingLock * 1000) \div multiple

(* The report that submit_value stores. *)
NewReport(a, q) ==
    [index |-> count[q], reporter |-> a, is_disputed |-> FALSE, previous |-> lastReported[q]]

(* Variant: the count is not advanced. *)
AppendReportUncounted(a, q) ==
    /\ byIndex' = [byIndex EXCEPT ![q] =
                     [i \in 0..count[q] |-> IF i = count[q] THEN now ELSE @[i]]]
    /\ reports' = [reports EXCEPT ![q] =
                     [t \in DOMAIN @ \cup {now} |-> IF t = now THEN NewReport(a, q) ELSE @[t]]]
    /\ lastReported' = [lastReported EXCEPT ![q] = now]
    /\ values' = [values EXCEPT ![q] = @ \cup {now}]
    /\ UNCHANGED count

(* Appends it to the series of q at the current time. *)
AppendReport(a, q) ==
    /\ count' = [count EXCEPT ![q] = @ + 1]
    /\ byIndex' = [byIndex EXCEPT ![q] =
                     [i \in 0..count[q] |-> IF i = count[q] THEN now ELSE @[i]]]
    /\ reports' = [reports EXCEPT ![q] =
                     [t \in DOMAIN @ \cup {now} |-> IF t = now THEN NewReport(a, q) ELSE @[t]]]
    /\ lastReported' = [lastReported EXCEPT ![q] = now]
    /\ values' = [values EXCEPT ![q] = @ \cup {now}]

(* Variant: the reporter's details are not saved back. *)
RecordSubmissionUnsaved(a, q) ==
    /\ timeOfLastNewValue' = now
    /\ submittedBy' = [submittedBy EXCEPT ![a][q] = @ + 1]
    /\ UNCHANGED <<lastTimestamp, submitted>>

(* The time of the last value and the reporter's own records. *)
RecordSubmission(a, q) ==
    /\ timeOfLastNewValue' = now
    /\ lastTimestamp' = [lastTimestamp EXCEPT ![a] = now]
    /\ submitted' = [submitted EXCEPT ![a] = @ + 1]
    /\ submittedBy' = [submittedBy EXCEPT ![a][q] = @ + 1]

(* Variant: no check that the timestamp has no report yet. *)
SubmitValueTwice(a, q, multiple) ==
    /\ count[q] < MaxReports
    /\ LockExpired(a, multiple)
    /\ AppendReport(a, q)
    /\ RecordSubmission(a, q)

(* submit_value.  `multiple` is staked_balance / StakeAmount of the        *)
(* caller; a caller for whom it is zero is refused.  The checks of the     *)
(* nonce, the value's length and the query data's hash only reject         *)
(* malformed calls.                                                        *)
SubmitValue(a, q, multiple) ==
    /\ count[q] < MaxReports
    /\ LockExpired(a, multiple)
    /\ now \notin DOMAIN reports[q]
    /\ AppendReport(a, q)
    /\ RecordSubmission(a, q)

IsDisputedAt(q, i) == reports[q][byIndex[q][i]].is_disputed

(* Variant: only the next report is repaired. *)
SeriesEndsAtOnce(q, start, stop) == stop = start

(* The loop of remove_value: from index `start` on, up to the index `stop` *)
(* of the first report that is missing or undisputed.  More than           *)
(* MaxDisputedTimeSeries iterations fail the call.                         *)
SeriesEndsAt(q, start, stop) ==
    /\ stop - start < MaxDisputedTimeSeries
    /\ \A j \in start..(stop - 1) : IsDisputedAt(q, j)
    /\ stop < count[q] => ~IsDisputedAt(q, stop)

(* Variant: the disputed report itself is deleted. *)
RelinkedWithout(q, t, start, stop) ==
    [s \in DOMAIN reports[q] \ {t} |->
        IF \E j \in start..stop : j < count[q] /\ byIndex[q][j] = s
        THEN [reports[q][s] EXCEPT !.previous = reports[q][t].previous]
        ELSE reports[q][s]]

(* The reports of q when t is disputed: every report the loop meets is     *)
(* made to point past t.                                                   *)
Relinked(q, t, start, stop) ==
    [s \in DOMAIN reports[q] |->
        IF s = t THEN [reports[q][s] EXCEPT !.is_disputed = TRUE]
        ELSE IF \E j \in start..stop : j < count[q] /\ byIndex[q][j] = s
             THEN [reports[q][s] EXCEPT !.previous = reports[q][t].previous]
             ELSE reports[q][s]]

(* Variant: the last timestamp is left pointing at the disputed report. *)
LastWithoutStale(q, t) == lastReported[q]

(* LastReportedTimestamp once t is disputed. *)
LastWithout(q, t) ==
    IF lastReported[q] = t THEN reports[q][t].previous ELSE lastReported[q]

(* Marks the report at t disputed and repairs the pointers around it. *)
DisputeReport(q, t) ==
    /\ t \in DOMAIN reports[q]
    /\ LET index == reports[q][t].index
       IN /\ ~reports[q][t].is_disputed
          /\ index < count[q] /\ byIndex[q][index] = t
          /\ \E stop \in (index + 1)..count[q] :
                /\ SeriesEndsAt(q, index + 1, stop)
                /\ reports' = [reports EXCEPT ![q] = Relinked(q, t, index + 1, stop)]
    /\ lastReported' = [lastReported EXCEPT ![q] = LastWithout(q, t)]
    /\ UNCHANGED <<count, byIndex>>

(* Variant: the disputed value stays readable. *)
RemoveValueKept(q, t) == DisputeReport(q, t) /\ UNCHANGED values

(* remove_value, called by begin_dispute in its first round. *)
RemoveValue(q, t) ==
    /\ DisputeReport(q, t)
    /\ values' = [values EXCEPT ![q] = @ \ {t}]

(* Variant: a dispute is accepted at the very end of the period. *)
WithinDisputePeriodInclusive(t) == t <= now /\ now - t <= ReportingLock

(* The time check of begin_dispute's first round. *)
WithinDisputePeriod(t) == t <= now /\ now - t < ReportingLock

-----------------------------------------------------------------------------
SubmitValueStep ==
    /\ \E a \in Account, q \in QueryId, multiple \in StakeMultiples : SubmitValue(a, q, multiple)
    /\ UNCHANGED now

(* What begin_dispute does to the report store. *)
RemoveValueStep ==
    /\ \E q \in QueryId : \E t \in DOMAIN reports[q] : WithinDisputePeriod(t) /\ RemoveValue(q, t)
    /\ UNCHANGED <<now, stakerVars>>

(* The timestamp of a new block; the timestamp inherent never goes back. *)
AdvanceTime(t) == t >= now /\ t <= MaxTime /\ now' = t

ClockStep ==
    /\ \E t \in (now + 1)..MaxTime : AdvanceTime(t)
    /\ UNCHANGED <<storeVars, stakerVars>>

ReportsNext == SubmitValueStep \/ RemoveValueStep \/ ClockStep

ReportsSpec == ReportsInit /\ [][ReportsNext]_reportsVars

-----------------------------------------------------------------------------
(* Every stored item has its type; the index of a query has exactly the    *)
(* indices below its count.                                                *)
ReportsTypeOK ==
    /\ now \in Timestamp
    /\ count \in [QueryId -> Nat]
    /\ DOMAIN byIndex = QueryId
    /\ \A q \in QueryId : byIndex[q] \in [0..(count[q] - 1) -> Timestamp]
    /\ DOMAIN reports = QueryId
    /\ \A q \in QueryId : /\ DOMAIN reports[q] \subseteq Timestamp
                         /\ reports[q] \in [DOMAIN reports[q] -> Report]
    /\ values \in [QueryId -> SUBSET Timestamp]
    /\ lastReported \in [QueryId -> MaybeTimestamp]
    /\ timeOfLastNewValue \in MaybeTimestamp
    /\ lastTimestamp \in [Account -> Timestamp]
    /\ submitted \in [Account -> Nat]
    /\ submittedBy \in [Account -> [QueryId -> Nat]]

(* ReportedTimestampsByIndex and Reports describe the same series: indices *)
(* and timestamps correspond one to one and in the same order, and no      *)
(* report is from the future.  Binary search by time depends on it.        *)
IndexConsistent ==
    \A q \in QueryId :
        /\ \A t \in DOMAIN reports[q] : /\ reports[q][t].index < count[q]
                                      /\ byIndex[q][reports[q][t].index] = t
                                      /\ t <= now
        /\ \A i \in 0..(count[q] - 1) : /\ byIndex[q][i] \in DOMAIN reports[q]
                                       /\ reports[q][byIndex[q][i]].index = i
        /\ \A i, j \in 0..(count[q] - 1) : i < j => byIndex[q][i] < byIndex[q][j]

(* The undisputed reports of q before time t. *)
UndisputedBefore(q, t) == {s \in DOMAIN reports[q] : s < t /\ ~reports[q][s].is_disputed}
Undisputed(q) == {s \in DOMAIN reports[q] : ~reports[q][s].is_disputed}

(* p is the greatest element of S, or None when S is empty. *)
IsLatest(p, S) == IF p = None THEN S = {} ELSE p \in S /\ \A s \in S : s <= p

(* Whatever reports are submitted and disputed, in whatever order, the     *)
(* back pointer of every report (disputed ones too) is the latest          *)
(* undisputed report before it.                                            *)
PreviousIsLatestUndisputed ==
    \A q \in QueryId : \A t \in DOMAIN reports[q] :
        IsLatest(reports[q][t].previous, UndisputedBefore(q, t))

(* LastReportedTimestamp is the last (non-disputed) reported timestamp. *)
LastIsLatestUndisputed ==
    \A q \in QueryId : IsLatest(lastReported[q], Undisputed(q))

(* A value can be read exactly while its report is undisputed, so a        *)
(* consumer is never given a disputed value.                               *)
ValueIffUndisputed == \A q \in QueryId : values[q] = Undisputed(q)

(* The reporting lock over the whole history: two reports of one reporter, *)
(* whatever the query identifiers, the disputes between them and the       *)
(* changes of the reporter's stake, are further apart than the lock at the *)
(* largest stake multiple.                                                 *)
ReportsSpacedByLock ==
    \A a \in Account, q1, q2 \in QueryId :
        \A t1 \in DOMAIN reports[q1], t2 \in DOMAIN reports[q2] :
            /\ reports[q1][t1].reporter = a /\ reports[q2][t2].reporter = a
            /\ t1 <= t2 /\ <<q1, t1>> # <<q2, t2>>
            => \E m \in StakeMultiples : (t2 - t1) * 1000 > (ReportingLock * 1000) \div m

(* A report older than the reporting lock is settled: no later dispute, of *)
(* it or of any other report, changes it or its back pointer.  Claims of   *)
(* tips and feed rewards, which wait for the lock to pass, rely on it.     *)
SettledReportsUnchanged ==
    [][\A q \in QueryId : \A t \in DOMAIN reports[q] :
          now - t >= ReportingLock => reports'[q][t] = reports[q][t]]_reportsVars

(* The abstract oracle over the stored series. *)
Oracle ==
    INSTANCE OracleSeries WITH
        DisputePeriod <- ReportingLock,
        seen <- [q \in QueryId |-> DOMAIN reports[q]],
        readable <- values,
        current <- lastReported

(* The store, with its indices and its repaired back pointers, is the      *)
(* oracle a consumer is promised: submit_value only adds values, each      *)
(* later than all before it, and remove_value takes back one value that is *)
(* younger than the lock, for good, and makes the latest of the others the *)
(* current one.                                                            *)
ConsumerView == Oracle!Spec
=============================================================================
