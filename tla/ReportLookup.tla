---------------------------- MODULE ReportLookup ----------------------------
(***************************************************************************)
(* Look-ups by time over the report store: the binary searches that        *)
(* consumers, the stake amount update and the dispute fee update read      *)
(* values with, each beside a definition of what it should return.         *)
(* An index is 0-based as in the code; a failed `?` yields None.           *)
(***************************************************************************)
EXTENDS Reports, Sequences, SequencesExt

CONSTANT MaxCounts      \* values of max_count explored

ASSUME LookupAssumption == MaxCounts \subseteq Nat

IsInDispute(q, t) == t \in DOMAIN reports[q] /\ reports[q][t].is_disputed

(* retrieve_data: the value at t, identified by t itself. *)
RetrieveData(q, t) == IF t \in values[q] THEN t ELSE None

(* get_current_value *)
GetCurrentValue(q) ==
    IF lastReported[q] = None THEN None ELSE RetrieveData(q, lastReported[q])

(* Variant: the report found is taken as it is. *)
UndisputedIndexAtAny(q, i) == i

(* The report at index i, or the latest undisputed one before it. *)
UndisputedIndexAt(q, i) ==
    LET report == reports[q][byIndex[q][i]]
    IN IF ~report.is_disputed THEN i
       ELSE IF report.previous = None THEN None
       ELSE reports[q][report.previous].index

(* The binary search loop of get_index_for_data_before_with_start. *)
SearchBefore(q, t, from, to) ==
    LET search[range \in Nat \X Nat] ==
          LET s == range[1]
              e == range[2]
              middle == (e - s) \div 2 + 1 + s
          IN IF e < s \/ middle >= count[q] THEN None
             ELSE IF byIndex[q][middle] < t
             THEN IF middle + 1 >= count[q] THEN None
                  ELSE IF byIndex[q][middle + 1] >= t THEN UndisputedIndexAt(q, middle)
                  ELSE search[<<middle + 1, e>>]
             ELSE IF byIndex[q][middle - 1] < t THEN UndisputedIndexAt(q, middle - 1)
                  ELSE search[<<s, middle - 1>>]
    IN search[<<from, to>>]

(* get_index_for_data_before_with_start *)
GetIndexForDataBeforeWithStart(q, t, start) ==
    IF lastReported[q] = None \/ start >= count[q] THEN None
    ELSE IF byIndex[q][start] >= t THEN None
    ELSE LET end == reports[q][lastReported[q]].index
         IN IF lastReported[q] < t THEN end ELSE SearchBefore(q, t, start, end)

(* get_index_for_data_before *)
GetIndexForDataBefore(q, t) == GetIndexForDataBeforeWithStart(q, t, 0)

(* get_data_before: the timestamp (and so the value) found, or None. *)
GetDataBefore(q, t) ==
    LET index == GetIndexForDataBefore(q, t)
    IN IF index = None THEN None ELSE RetrieveData(q, byIndex[q][index])

(* get_data_before_with_start, which the price updates use. *)
GetDataBeforeWithStart(q, t, start) ==
    LET index == GetIndexForDataBeforeWithStart(q, t, start)
    IN IF index = None THEN None ELSE RetrieveData(q, byIndex[q][index])

(* get_timestamp_by_query_id_and_index(..).unwrap_or_default() *)
TimestampAt(q, i) == IF i < count[q] THEN byIndex[q][i] ELSE 0

(* The binary search loop of get_index_for_data_after: the first index     *)
(* later than t, given that index `start` is not and index `end` is.       *)
SearchAfter(q, t, from, to) ==
    LET search[range \in Nat \X Nat] ==
          LET s == range[1]
              e == range[2]
              middle == (e + s) \div 2
          IN IF TimestampAt(q, middle) > t
             THEN IF TimestampAt(q, IF middle = 0 THEN 0 ELSE middle - 1) <= t THEN middle
                  ELSE search[<<s, IF middle = 0 THEN 0 ELSE middle - 1>>]
             ELSE IF TimestampAt(q, middle + 1) > t THEN middle + 1
                  ELSE search[<<middle + 1, e>>]
    IN search[<<from, to>>]

(* Variant: steps over one disputed value only. *)
SkipDisputedOnce(q, i) ==
    IF ~IsInDispute(q, TimestampAt(q, i)) THEN i
    ELSE IF i < count[q] - 1 THEN i + 1 ELSE None

(* The loop that steps over disputed values: the first undisputed index    *)
(* from i up to the last index, or None.                                   *)
SkipDisputed(q, i) ==
    LET skip[j \in Nat] ==
          IF ~IsInDispute(q, TimestampAt(q, j)) THEN j
          ELSE IF j < count[q] - 1 THEN skip[j + 1]
          ELSE None
    IN skip[i]

(* get_index_for_data_after *)
GetIndexForDataAfter(q, t) ==
    IF count[q] = 0 THEN None
    ELSE IF TimestampAt(q, count[q] - 1) <= t THEN None
    ELSE IF TimestampAt(q, 0) > t THEN SkipDisputed(q, 0)
    ELSE SkipDisputed(q, SearchAfter(q, t, 0, count[q] - 1))

(* get_data_after *)
GetDataAfter(q, t) ==
    LET index == GetIndexForDataAfter(q, t)
    IN IF index = None THEN None ELSE RetrieveData(q, TimestampAt(q, index))

(* The first elements of a sequence of times that are in `wanted`, in the  *)
(* same order and at most `limit` of them.                                 *)
Kept(times, wanted, limit) ==
    LET keep[x \in Nat \X Seq(Nat)] ==
          LET i == x[1]
              kept == x[2]
          IN IF i >= Len(times) \/ Len(kept) >= limit THEN kept
             ELSE keep[<<i + 1, IF times[i + 1] \in wanted THEN Append(kept, times[i + 1]) ELSE kept>>]
    IN keep[<<0, <<>>>>]

(* Variant: the first index of the range is left out. *)
BackwardsShort(q, from, to) == [i \in 1..(from - to) |-> byIndex[q][from + 1 - i]]

(* The timestamps from one index down to another. *)
Backwards(q, from, to) == [i \in 1..(from + 1 - to) |-> byIndex[q][from + 1 - i]]

(* get_multiple_values_before: the undisputed timestamps from the last     *)
(* index down to the first, then the values found at them, reversed.       *)
GetMultipleValuesBefore(q, t, maxAge, maxCount) ==
    LET start == GetIndexForDataAfter(q, IF t < maxAge THEN 0 ELSE t - maxAge)
        end == GetIndexForDataBefore(q, t)
        timestamps == Kept(Backwards(q, end, start), {s \in Nat : ~IsInDispute(q, s)}, maxCount)
    IN IF start = None \/ end = None THEN <<>>
       ELSE Kept(Reverse(timestamps), values[q], Len(timestamps))

-----------------------------------------------------------------------------
QueryTimes == 0..(MaxTime + 1)

LatestOf(S) == IF S = {} THEN None ELSE CHOOSE s \in S : \A r \in S : r <= s
EarliestOf(S) == IF S = {} THEN None ELSE CHOOSE s \in S : \A r \in S : s <= r

(* For every series of submissions and disputes and every time t,          *)
(* get_data_before returns the latest undisputed value strictly before t,  *)
(* and get_current_value the latest of all.                                *)
DataBeforeIsLatest ==
    \A q \in QueryId :
        /\ GetCurrentValue(q) = LatestOf(Undisputed(q))
        /\ \A t \in QueryTimes : GetDataBefore(q, t) = LatestOf(UndisputedBefore(q, t))

(* For every time t, get_data_after returns the earliest undisputed value  *)
(* strictly after t.                                                       *)
DataAfterIsEarliest ==
    \A q \in QueryId, t \in QueryTimes :
        GetDataAfter(q, t) = EarliestOf({s \in Undisputed(q) : s > t})

(* get_multiple_values_before returns, in increasing order of time, the    *)
(* latest max_count undisputed values later than t - max_age and before t. *)
MultipleValuesAreTheLatest ==
    \A q \in QueryId, t \in QueryTimes, maxAge \in 0..MaxTime, maxCount \in MaxCounts :
        LET oldest == IF t < maxAge THEN 0 ELSE t - maxAge
            inRange == {s \in UndisputedBefore(q, t) : s > oldest}
            result == GetMultipleValuesBefore(q, t, maxAge, maxCount)
        IN /\ \A i, j \in DOMAIN result : i < j => result[i] < result[j]
           /\ Range(result) = {s \in inRange : Cardinality({r \in inRange : r > s}) < maxCount}

(* What was reported at least a reporting lock ago is final for every      *)
(* consumer: when all reports before t are that old, no step changes the   *)
(* answer of get_data_before at t.  The stake amount and the dispute fee   *)
(* are computed from such answers.                                         *)
SettledDataIsFinal ==
    [][\A q \in QueryId, t \in QueryTimes :
          now - (t - 1) >= ReportingLock => GetDataBefore(q, t)' = GetDataBefore(q, t)]_reportsVars
=============================================================================
