---------------------------- MODULE LookupProofs ----------------------------
(***************************************************************************)
(* The look-ups by time return what they should, for every series: the     *)
(* loops of their binary searches end, and with the right index.           *)
(***************************************************************************)
EXTENDS ReportLookup, ReportsProofs, SumTheorems

(* The states of the loop of get_index_for_data_before_with_start: the     *)
(* range left, its middle, whether and with which result the loop returns  *)
(* and the range it goes on with.                                          *)
Ranges == Nat \X Nat
MidBefore(x) == (x[2] - x[1]) \div 2 + 1 + x[1]
DoneBefore(q, t) ==
    {x \in Ranges :
        \/ x[2] < x[1] \/ MidBefore(x) >= count[q]
        \/ /\ byIndex[q][MidBefore(x)] < t
           /\ MidBefore(x) + 1 >= count[q] \/ byIndex[q][MidBefore(x) + 1] >= t
        \/ /\ ~(byIndex[q][MidBefore(x)] < t)
           /\ byIndex[q][MidBefore(x) - 1] < t}
ResultBefore(q, t) ==
    [x \in Ranges |->
        IF x[2] < x[1] \/ MidBefore(x) >= count[q] THEN None
        ELSE IF byIndex[q][MidBefore(x)] < t
        THEN IF MidBefore(x) + 1 >= count[q] THEN None ELSE UndisputedIndexAt(q, MidBefore(x))
        ELSE UndisputedIndexAt(q, MidBefore(x) - 1)]
StepBefore(q, t) ==
    [x \in Ranges |->
        IF byIndex[q][MidBefore(x)] < t THEN <<MidBefore(x) + 1, x[2]>> ELSE <<x[1], MidBefore(x) - 1>>]

(* The loop of the model is that loop. *)
LEMMA SearchBeforeLoop ==
    ASSUME NEW q, NEW t
    PROVE  \E f : /\ IsLoop(f, Ranges, DoneBefore(q, t), ResultBefore(q, t), StepBefore(q, t))
                  /\ \A from, to : SearchBefore(q, t, from, to) = f[<<from, to>>]
<1> DEFINE Loop(f) == [x \in Ranges |-> IF x \in DoneBefore(q, t) THEN ResultBefore(q, t)[x]
                                        ELSE f[StepBefore(q, t)[x]]]
           At(f, x) ==
             LET s == x[1]
                 e == x[2]
                 middle == (e - s) \div 2 + 1 + s
             IN IF e < s \/ middle >= count[q] THEN None
                ELSE IF byIndex[q][middle] < t
                THEN IF middle + 1 >= count[q] THEN None
                     ELSE IF byIndex[q][middle + 1] >= t THEN UndisputedIndexAt(q, middle)
                     ELSE f[<<middle + 1, e>>]
                ELSE IF byIndex[q][middle - 1] < t THEN UndisputedIndexAt(q, middle - 1)
                     ELSE f[<<s, middle - 1>>]
           Body(f) == [x \in Nat \X Nat |-> At(f, x)]
           C == CHOOSE f : f = Body(f)
<1>1. ASSUME NEW f PROVE Body(f) = Loop(f)
  <2>1. ASSUME NEW x \in Ranges
        PROVE  At(f, x) = IF x \in DoneBefore(q, t) THEN ResultBefore(q, t)[x]
                          ELSE f[StepBefore(q, t)[x]]
    <3>1. ResultBefore(q, t)[x] =
            IF x[2] < x[1] \/ MidBefore(x) >= count[q] THEN None
            ELSE IF byIndex[q][MidBefore(x)] < t
            THEN IF MidBefore(x) + 1 >= count[q] THEN None ELSE UndisputedIndexAt(q, MidBefore(x))
            ELSE UndisputedIndexAt(q, MidBefore(x) - 1)
      BY Zenon DEF ResultBefore
    <3>2. StepBefore(q, t)[x] = IF byIndex[q][MidBefore(x)] < t
                                THEN <<MidBefore(x) + 1, x[2]>> ELSE <<x[1], MidBefore(x) - 1>>
      BY Zenon DEF StepBefore
    <3>3. QED
      BY <3>1, <3>2 DEF DoneBefore, MidBefore
  <2>2. QED
    BY <2>1 DEF Ranges
<1>2. \A x \in Ranges \ DoneBefore(q, t) : StepBefore(q, t)[x] \in Ranges
  BY DEF Ranges, DoneBefore, StepBefore, MidBefore
<1>3. \A f : f = Loop(f) <=> IsLoop(f, Ranges, DoneBefore(q, t), ResultBefore(q, t), StepBefore(q, t))
  BY Zenon DEF IsLoop
<1>4. \A from, to : SearchBefore(q, t, from, to) = C[<<from, to>>]
  BY DEF SearchBefore
<1> HIDE DEF Body, Loop
<1>5. \E f : f = Body(f)
  BY <1>1, <1>2, <1>3, TailRecursion
<1>6. C = Body(C)
  BY <1>5, Zenon
<1>7. QED
  BY <1>1, <1>3, <1>4, <1>6

(* The series of q is sorted by time. *)
Sorted(q) ==
    /\ count[q] \in Nat
    /\ \A i \in Nat : i < count[q] => byIndex[q][i] \in Nat
    /\ \A i, j \in Nat : i < j /\ j < count[q] => byIndex[q][i] < byIndex[q][j]

(* Reports are appended at the current time, so it always is. *)
LEMMA SeriesSorted ==
    ASSUME ReportsInv, NEW q \in QueryId PROVE Sorted(q)
<1>1. count[q] \in Nat /\ byIndex[q] \in [0..(count[q] - 1) -> Nat]
  BY DEF ReportsInv, ReportsTypeOK, Timestamp
<1>2. \A i \in Nat : i < count[q] => i \in 0..(count[q] - 1)
  BY <1>1
<1>3. \A i, j \in 0..(count[q] - 1) : i < j => byIndex[q][i] < byIndex[q][j]
  BY DEF ReportsInv, IndexConsistent
<1>4. \A i \in Nat : i < count[q] => byIndex[q][i] \in Nat
  BY <1>1, <1>2
<1>5. ASSUME NEW i \in Nat, NEW j \in Nat, i < j, j < count[q] PROVE byIndex[q][i] < byIndex[q][j]
  <2>1. i \in 0..(count[q] - 1) /\ j \in 0..(count[q] - 1)
    BY <1>1, <1>5
  <2>2. QED
    BY <1>3, <1>5, <2>1
<1>6. QED
  BY <1>1, <1>4, <1>5 DEF Sorted

(* Between an index before t and one that is not, the search finds the     *)
(* last index before t, and takes the latest undisputed report from there. *)
LEMMA SearchBeforeFinds ==
    ASSUME ReportsInv, NEW q \in QueryId, NEW t \in Nat,
           NEW from \in 0..(count[q] - 1), NEW to \in 0..(count[q] - 1),
           byIndex[q][from] < t, byIndex[q][to] >= t
    PROVE  \E m \in Nat : /\ m + 1 < count[q]
                          /\ byIndex[q][m] < t /\ byIndex[q][m + 1] >= t
                          /\ SearchBefore(q, t, from, to) = UndisputedIndexAt(q, m)
<1> DEFINE Inv == {x \in Ranges : /\ x[1] < x[2] /\ x[2] < count[q]
                                  /\ byIndex[q][x[1]] < t /\ byIndex[q][x[2]] >= t}
           mu == [x \in Ranges |-> x[2] - x[1]]
           Latest == {m \in Nat : m + 1 < count[q] /\ byIndex[q][m] < t /\ byIndex[q][m + 1] >= t}
           Good == {UndisputedIndexAt(q, m) : m \in Latest}
           Done == DoneBefore(q, t)
           v == ResultBefore(q, t)
           step == StepBefore(q, t)
<1>1. Sorted(q)
  BY SeriesSorted
<1> USE <1>1 DEF Sorted
<1>2. <<from, to>> \in Inv
  <2>1. from < to
    BY <1>1
  <2>2. QED
    BY <1>1, <2>1 DEF Ranges
<1>3. PICK f : /\ IsLoop(f, Ranges, Done, v, step)
               /\ SearchBefore(q, t, from, to) = f[<<from, to>>]
  BY SearchBeforeLoop
<1>4. ASSUME NEW x \in Inv
      PROVE  /\ mu[x] \in Nat
             /\ x \in Done => v[x] \in Good
             /\ x \notin Done => step[x] \in Inv /\ mu[step[x]] < mu[x]
  <2> DEFINE m == MidBefore(x)
  <2>1. x[1] \in Nat /\ x[2] \in Nat /\ x[1] < x[2] /\ x[2] < count[q] /\ x = <<x[1], x[2]>>
    BY DEF Ranges
  <2>2. m \in Nat /\ x[1] < m /\ m <= x[2] /\ m - 1 \in Nat
    BY <2>1 DEF MidBefore
  <2>3. mu[x] = x[2] - x[1] /\ mu[x] \in Nat
    BY <2>1
  <2>4. /\ byIndex[q][m] \in Nat /\ byIndex[q][m - 1] \in Nat
        /\ byIndex[q][m] < t => m < x[2] /\ byIndex[q][m + 1] \in Nat
    BY <1>1, <2>1, <2>2
  <2>5. v[x] = IF x[2] < x[1] \/ m >= count[q] THEN None
               ELSE IF byIndex[q][m] < t
               THEN IF m + 1 >= count[q] THEN None ELSE UndisputedIndexAt(q, m)
               ELSE UndisputedIndexAt(q, m - 1)
    BY Zenon DEF ResultBefore
  <2>6. step[x] = IF byIndex[q][m] < t THEN <<m + 1, x[2]>> ELSE <<x[1], m - 1>>
    BY Zenon DEF StepBefore
  <2>7. x \in Done <=> \/ byIndex[q][m] < t /\ byIndex[q][m + 1] >= t
                       \/ ~(byIndex[q][m] < t) /\ byIndex[q][m - 1] < t
    BY <1>1, <2>1, <2>2, <2>4 DEF DoneBefore
  <2> HIDE DEF Done, v, step
  <2>8. ASSUME x \in Done PROVE v[x] \in Good
    <3>1. CASE byIndex[q][m] < t /\ byIndex[q][m + 1] >= t
      <4>1. m \in Latest
        BY <1>1, <2>1, <2>2, <2>4, <3>1
      <4>2. v[x] = UndisputedIndexAt(q, m)
        BY <1>1, <2>1, <2>2, <2>4, <2>5, <3>1
      <4>3. QED
        BY <4>1, <4>2
    <3>2. CASE ~(byIndex[q][m] < t) /\ byIndex[q][m - 1] < t
      <4>1. m - 1 \in Latest
        BY <1>1, <2>1, <2>2, <2>4, <3>2
      <4>2. v[x] = UndisputedIndexAt(q, m - 1)
        BY <1>1, <2>1, <2>2, <2>4, <2>5, <3>2
      <4>3. QED
        BY <4>1, <4>2
    <3>3. QED
      BY <2>7, <2>8, <3>1, <3>2
  <2>9. ASSUME x \notin Done PROVE step[x] \in Inv /\ mu[step[x]] < mu[x]
    <3>1. CASE byIndex[q][m] < t
      <4>1. step[x] = <<m + 1, x[2]>> /\ byIndex[q][m + 1] < t
        BY <2>4, <2>6, <2>7, <2>9, <3>1
      <4>2. m + 1 < x[2]
        BY <1>1, <2>1, <2>2, <2>4, <3>1, <4>1
      <4>3. <<m + 1, x[2]>> \in Ranges /\ mu[<<m + 1, x[2]>>] = x[2] - (m + 1)
        BY <2>1, <2>2 DEF Ranges
      <4>4. <<m + 1, x[2]>>[1] = m + 1 /\ <<m + 1, x[2]>>[2] = x[2]
        OBVIOUS
      <4>5. <<m + 1, x[2]>> \in Inv
        BY <2>1, <4>1, <4>2, <4>3, <4>4
      <4>6. QED
        BY <2>1, <2>2, <2>3, <4>1, <4>3, <4>5
    <3>2. CASE ~(byIndex[q][m] < t)
      <4>1. step[x] = <<x[1], m - 1>> /\ byIndex[q][m - 1] >= t
        BY <2>4, <2>6, <2>7, <2>9, <3>2
      <4>2. x[1] < m - 1
        BY <1>1, <2>1, <2>2, <2>4, <4>1
      <4>3. <<x[1], m - 1>> \in Ranges /\ mu[<<x[1], m - 1>>] = (m - 1) - x[1]
        BY <2>1, <2>2 DEF Ranges
      <4>4. QED
        BY <2>1, <2>2, <2>3, <4>1, <4>2, <4>3
    <3>3. QED
      BY <3>1, <3>2
  <2>10. QED
    BY <2>3, <2>8, <2>9
<1>5. LoopArgument(Inv, mu, Good, Ranges, Done, v, step)
  BY <1>4 DEF LoopArgument
<1> HIDE DEF Inv, mu, Good, Done, v, step
<1>6. \A x \in Inv : f[x] \in Good
  BY <1>3, <1>5, LoopResult
<1>7. f[<<from, to>>] \in Good
  BY <1>2, <1>6
<1>8. QED
  BY <1>3, <1>7 DEF Good

-----------------------------------------------------------------------------
(* What the indices and timestamps of a series have to do with each other. *)
LEMMA SeriesIndexed ==
    ASSUME ReportsInv, NEW q \in QueryId
    PROVE  /\ \A s \in DOMAIN reports[q] : /\ s \in Nat
                                           /\ reports[q][s].index \in Nat
                                           /\ reports[q][s].index < count[q]
                                           /\ byIndex[q][reports[q][s].index] = s
                                           /\ reports[q][s].is_disputed \in BOOLEAN
                                           /\ IsLatest(reports[q][s].previous, UndisputedBefore(q, s))
           /\ \A i \in Nat : i < count[q] => /\ byIndex[q][i] \in DOMAIN reports[q]
                                             /\ reports[q][byIndex[q][i]].index = i
<1>1. /\ count[q] \in Nat /\ DOMAIN reports[q] \subseteq Nat
      /\ \A s \in DOMAIN reports[q] : reports[q][s] \in Report
  BY DEF ReportsInv, ReportsTypeOK, Timestamp
<1>2. \A i \in Nat : i < count[q] => i \in 0..(count[q] - 1)
  BY <1>1
<1>3. ASSUME NEW s \in DOMAIN reports[q]
      PROVE  reports[q][s].index \in Nat /\ reports[q][s].is_disputed \in BOOLEAN
  BY <1>1 DEF Report
<1>4. \A s \in DOMAIN reports[q] : /\ reports[q][s].index < count[q]
                                   /\ byIndex[q][reports[q][s].index] = s
  BY DEF ReportsInv, IndexConsistent
<1>5. \A i \in 0..(count[q] - 1) : /\ byIndex[q][i] \in DOMAIN reports[q]
                                   /\ reports[q][byIndex[q][i]].index = i
  BY DEF ReportsInv, IndexConsistent
<1>6. \A s \in DOMAIN reports[q] : IsLatest(reports[q][s].previous, UndisputedBefore(q, s))
  BY DEF ReportsInv, PreviousIsLatestUndisputed
<1>7. QED
  BY <1>1, <1>2, <1>3, <1>4, <1>5, <1>6

(* The greatest element is the one that LatestOf chooses. *)
LEMMA LatestIsChosen ==
    ASSUME NEW p, NEW S \in SUBSET Nat, IsLatest(p, S) PROVE LatestOf(S) = p
<1>1. CASE p = None
  BY <1>1 DEF IsLatest, LatestOf
<1>2. CASE p # None
  <2>1. p \in S /\ \A s \in S : s <= p
    BY <1>2 DEF IsLatest
  <2>2. \A s \in S : (\A r \in S : r <= s) => s = p
    BY <2>1
  <2>3. QED
    BY <2>1, <2>2 DEF LatestOf
<1>3. QED
  BY <1>1, <1>2

(* From the last index before t, undisputed or not, the code finds the     *)
(* latest undisputed report before t.                                      *)
LEMMA UndisputedFromLast ==
    ASSUME ReportsInv, NEW q \in QueryId, NEW t \in Nat, NEW m \in Nat, m + 1 < count[q],
           byIndex[q][m] < t, byIndex[q][m + 1] >= t
    PROVE  LET i == UndisputedIndexAt(q, m)
           IN  \/ i = None /\ UndisputedBefore(q, t) = {}
               \/ i \in Nat /\ i < count[q] /\ IsLatest(byIndex[q][i], UndisputedBefore(q, t))
<1> DEFINE r == byIndex[q][m]
<1>1. Sorted(q)
  BY SeriesSorted
<1>2. r \in DOMAIN reports[q] /\ r \in Nat /\ byIndex[q][m + 1] \in Nat
  BY <1>1, SeriesIndexed DEF Sorted
<1>3. ASSUME NEW s \in DOMAIN reports[q], s < t PROVE s <= r
  <2> DEFINE j == reports[q][s].index
  <2>1. j \in Nat /\ j < count[q] /\ byIndex[q][j] = s
    BY SeriesIndexed
  <2>2. CASE j <= m
    BY <1>1, <1>2, <2>1, <2>2 DEF Sorted
  <2>3. CASE j > m
    <3>1. j = m + 1 \/ m + 1 < j
      BY <2>1, <2>3
    <3>2. byIndex[q][m + 1] <= byIndex[q][j]
      BY <1>1, <1>2, <2>1, <3>1 DEF Sorted
    <3>3. QED
      BY <1>2, <1>3, <2>1, <3>2, SeriesIndexed
  <2>4. QED
    BY <2>1, <2>2, <2>3
<1>4. CASE ~reports[q][r].is_disputed
  <2>1. UndisputedIndexAt(q, m) = m
    BY <1>4 DEF UndisputedIndexAt
  <2>2. r \in UndisputedBefore(q, t) /\ \A s \in UndisputedBefore(q, t) : s <= r
    BY <1>2, <1>3, <1>4 DEF UndisputedBefore
  <2>3. r # None
    BY <1>2, ReportsAssumption
  <2>4. QED
    BY <1>1, <2>1, <2>2, <2>3 DEF IsLatest, Sorted
<1>5. CASE reports[q][r].is_disputed
  <2> DEFINE p == reports[q][r].previous
  <2>1. IsLatest(p, UndisputedBefore(q, r))
    BY <1>2, SeriesIndexed
  <2>2. UndisputedBefore(q, t) = UndisputedBefore(q, r)
    <3>1. \A s \in DOMAIN reports[q] : s \in Nat
      BY SeriesIndexed
    <3>2. \A s \in DOMAIN reports[q] : ~reports[q][s].is_disputed => (s < t <=> s < r)
      BY <1>2, <1>3, <1>5, <3>1
    <3>3. QED
      BY <3>2 DEF UndisputedBefore
  <2>3. CASE p = None
    BY <1>5, <2>1, <2>2, <2>3 DEF UndisputedIndexAt, IsLatest
  <2>4. CASE p # None
    <3>1. p \in DOMAIN reports[q]
      BY <2>1, <2>4 DEF IsLatest, UndisputedBefore
    <3>2. UndisputedIndexAt(q, m) = reports[q][p].index
      BY <1>5, <2>4 DEF UndisputedIndexAt
    <3>3. /\ reports[q][p].index \in Nat /\ reports[q][p].index < count[q]
          /\ byIndex[q][reports[q][p].index] = p
      BY <3>1, SeriesIndexed
    <3>4. IsLatest(p, UndisputedBefore(q, t))
      BY ONLY <2>1, <2>2
    <3> HIDE DEF p
    <3>5. QED
      BY ONLY <3>2, <3>3, <3>4
  <2>5. QED
    BY <2>3, <2>4
<1>6. QED
  BY <1>2, <1>4, <1>5, SeriesIndexed

(* get_index_for_data_before_with_start from any index that is itself      *)
(* before t returns the index of the latest undisputed report before t.    *)
LEMMA IndexBeforeFound ==
    ASSUME ReportsInv, NEW q \in QueryId, NEW t \in Nat, NEW start \in Nat,
           start < count[q] => byIndex[q][start] < t
    PROVE  LET i == GetIndexForDataBeforeWithStart(q, t, start)
           IN  \/ i = None /\ (start < count[q] => UndisputedBefore(q, t) = {})
               \/ i \in Nat /\ i < count[q] /\ IsLatest(byIndex[q][i], UndisputedBefore(q, t))
<1> DEFINE last == lastReported[q]
<1>1. IsLatest(last, Undisputed(q)) /\ Sorted(q)
  BY SeriesSorted DEF ReportsInv, LastIsLatestUndisputed
<1>2. CASE last = None
  <2>1. UndisputedBefore(q, t) = {}
    BY <1>1, <1>2 DEF IsLatest, Undisputed, UndisputedBefore
  <2>2. QED
    BY <1>2, <2>1 DEF GetIndexForDataBeforeWithStart
<1>3. CASE last # None /\ start >= count[q]
  BY <1>1, <1>3 DEF GetIndexForDataBeforeWithStart, Sorted
<1>4. CASE last # None /\ start < count[q]
  <2> DEFINE end == reports[q][last].index
  <2>1. /\ last \in Undisputed(q) /\ last \in DOMAIN reports[q]
        /\ \A s \in Undisputed(q) : s <= last
    BY <1>1, <1>4 DEF IsLatest, Undisputed
  <2>2. last \in Nat /\ end \in Nat /\ end < count[q] /\ byIndex[q][end] = last
    BY <2>1, SeriesIndexed
  <2>3. ~(start >= count[q]) /\ ~(byIndex[q][start] >= t)
    BY <1>1, <1>4 DEF Sorted
  <2>4. GetIndexForDataBeforeWithStart(q, t, start)
           = IF last < t THEN end ELSE SearchBefore(q, t, start, end)
    BY <1>4, <2>3 DEF GetIndexForDataBeforeWithStart
  <2>5. CASE last < t
    <3>1. last \in UndisputedBefore(q, t) /\ \A s \in UndisputedBefore(q, t) : s <= last
      BY <2>1, <2>5 DEF Undisputed, UndisputedBefore
    <3>2. QED
      BY <1>4, <2>2, <2>4, <2>5, <3>1 DEF IsLatest
  <2>6. CASE ~(last < t)
    <3>1. start \in 0..(count[q] - 1) /\ end \in 0..(count[q] - 1) /\ byIndex[q][end] >= t
      BY <1>1, <1>4, <2>2, <2>6 DEF Sorted
    <3>2. PICK m \in Nat : /\ m + 1 < count[q]
                           /\ byIndex[q][m] < t /\ byIndex[q][m + 1] >= t
                           /\ SearchBefore(q, t, start, end) = UndisputedIndexAt(q, m)
      BY <1>4, <3>1, SearchBeforeFinds
    <3>3. QED
      BY <2>4, <2>6, <3>2, UndisputedFromLast
  <2>7. QED
    BY <2>5, <2>6
<1>5. QED
  BY <1>1, <1>2, <1>3, <1>4 DEF Sorted

(* The value at the latest undisputed report can be retrieved. *)
LEMMA LatestRetrieved ==
    ASSUME ReportsInv, NEW q \in QueryId, NEW S \in SUBSET Undisputed(q), NEW p, IsLatest(p, S), p # None
    PROVE  RetrieveData(q, p) = p /\ LatestOf(S) = p
<1>1. S \subseteq Nat
  BY SeriesIndexed DEF Undisputed
<1>2. p \in values[q]
  BY DEF IsLatest, ReportsInv, ValueIffUndisputed
<1>3. LatestOf(S) = p
  BY <1>1, LatestIsChosen
<1>4. QED
  BY <1>2, <1>3 DEF RetrieveData

(* get_index_for_data_before returns the index of the latest undisputed    *)
(* report before t.                                                        *)
LEMMA IndexBeforeAny ==
    ASSUME ReportsInv, NEW q \in QueryId, NEW t \in Nat
    PROVE  LET i == GetIndexForDataBefore(q, t)
           IN  \/ i = None /\ UndisputedBefore(q, t) = {}
               \/ i \in Nat /\ i < count[q] /\ IsLatest(byIndex[q][i], UndisputedBefore(q, t))
<1> DEFINE i == GetIndexForDataBeforeWithStart(q, t, 0)
<1>1. GetIndexForDataBefore(q, t) = i
  BY DEF GetIndexForDataBefore
<1>2. Sorted(q) /\ None \notin Nat
  BY SeriesSorted, ReportsAssumption
<1>3. CASE 0 < count[q] /\ byIndex[q][0] < t
  <2>1. \/ i = None /\ UndisputedBefore(q, t) = {}
        \/ i \in Nat /\ i < count[q] /\ IsLatest(byIndex[q][i], UndisputedBefore(q, t))
    BY <1>3, IndexBeforeFound
  <2>2. QED
    BY <1>1, <2>1
<1>4. CASE ~(0 < count[q] /\ byIndex[q][0] < t)
  <2>1. i = None
    BY <1>2, <1>4 DEF GetIndexForDataBeforeWithStart, Sorted
  <2>2. ASSUME NEW s \in DOMAIN reports[q], s < t PROVE FALSE
    <3>1. PICK j \in Nat : j < count[q] /\ byIndex[q][j] = s
      BY SeriesIndexed
    <3>2. byIndex[q][0] <= byIndex[q][j]
      BY <1>2, <3>1 DEF Sorted
    <3>3. QED
      BY <1>2, <1>4, <2>2, <3>1, <3>2 DEF Sorted
  <2>3. UndisputedBefore(q, t) = {}
    BY <2>2 DEF UndisputedBefore
  <2>4. QED
    BY <1>1, <2>1, <2>3
<1>5. QED
  BY <1>3, <1>4

(* get_data_before returns the latest undisputed value before t. *)
LEMMA DataBeforeFound ==
    ASSUME ReportsInv, NEW q \in QueryId, NEW t \in Nat
    PROVE  /\ IsLatest(GetDataBefore(q, t), UndisputedBefore(q, t))
           /\ GetDataBefore(q, t) = LatestOf(UndisputedBefore(q, t))
<1>1. PICK i : i = GetIndexForDataBefore(q, t)
  OBVIOUS
<1>2. GetDataBefore(q, t) = IF i = None THEN None ELSE RetrieveData(q, byIndex[q][i])
  BY <1>1 DEF GetDataBefore
<1>3. UndisputedBefore(q, t) \in SUBSET Undisputed(q)
  BY DEF Undisputed, UndisputedBefore
<1>4. CASE i = None /\ UndisputedBefore(q, t) = {}
  BY <1>2, <1>4 DEF LatestOf, IsLatest
<1>5. CASE i \in Nat /\ i < count[q] /\ IsLatest(byIndex[q][i], UndisputedBefore(q, t))
  <2>1. byIndex[q][i] # None /\ i # None
    BY <1>5, SeriesSorted, ReportsAssumption DEF Sorted
  <2>2. QED
    BY <1>2, <1>3, <1>5, <2>1, LatestRetrieved
<1>6. QED
  BY <1>1, <1>4, <1>5, IndexBeforeAny

(* In every state of the report store's invariant the two reads return     *)
(* what they should.                                                       *)
LEMMA DataBeforeInv == ReportsInv => DataBeforeIsLatest
<1> SUFFICES ASSUME ReportsInv, NEW q \in QueryId
             PROVE  /\ GetCurrentValue(q) = LatestOf(Undisputed(q))
                    /\ \A t \in QueryTimes : GetDataBefore(q, t) = LatestOf(UndisputedBefore(q, t))
  BY DEF DataBeforeIsLatest
<1>1. IsLatest(lastReported[q], Undisputed(q)) /\ Undisputed(q) \in SUBSET Undisputed(q)
  BY DEF ReportsInv, LastIsLatestUndisputed
<1>2. GetCurrentValue(q) = LatestOf(Undisputed(q))
  <2>1. CASE lastReported[q] = None
    BY <1>1, <2>1 DEF GetCurrentValue, IsLatest, LatestOf
  <2>2. CASE lastReported[q] # None
    BY <1>1, <2>2, LatestRetrieved DEF GetCurrentValue
  <2>3. QED
    BY <2>1, <2>2
<1>3. ASSUME NEW t \in QueryTimes PROVE GetDataBefore(q, t) = LatestOf(UndisputedBefore(q, t))
  <2>1. t \in Nat
    BY ReportsAssumption DEF QueryTimes
  <2>2. QED
    BY <2>1, DataBeforeFound
<1>4. QED
  BY <1>2, <1>3

-----------------------------------------------------------------------------
(* The states of the loop of get_index_for_data_after. *)
MidAfter(x) == (x[2] + x[1]) \div 2
Pred(n) == IF n = 0 THEN 0 ELSE n - 1
DoneAfter(q, t) ==
    {x \in Ranges :
        IF TimestampAt(q, MidAfter(x)) > t THEN TimestampAt(q, Pred(MidAfter(x))) <= t
        ELSE TimestampAt(q, MidAfter(x) + 1) > t}
ResultAfter(q, t) ==
    [x \in Ranges |-> IF TimestampAt(q, MidAfter(x)) > t THEN MidAfter(x) ELSE MidAfter(x) + 1]
StepAfter(q, t) ==
    [x \in Ranges |-> IF TimestampAt(q, MidAfter(x)) > t
                      THEN <<x[1], Pred(MidAfter(x))>> ELSE <<MidAfter(x) + 1, x[2]>>]

(* The loop of the model is that loop. *)
LEMMA SearchAfterLoop ==
    ASSUME NEW q, NEW t
    PROVE  \E f : /\ IsLoop(f, Ranges, DoneAfter(q, t), ResultAfter(q, t), StepAfter(q, t))
                  /\ \A from, to : SearchAfter(q, t, from, to) = f[<<from, to>>]
<1> DEFINE Loop(f) == [x \in Ranges |-> IF x \in DoneAfter(q, t) THEN ResultAfter(q, t)[x]
                                        ELSE f[StepAfter(q, t)[x]]]
           At(f, x) ==
             LET s == x[1]
                 e == x[2]
                 middle == (e + s) \div 2
             IN IF TimestampAt(q, middle) > t
                THEN IF TimestampAt(q, IF middle = 0 THEN 0 ELSE middle - 1) <= t THEN middle
                     ELSE f[<<s, IF middle = 0 THEN 0 ELSE middle - 1>>]
                ELSE IF TimestampAt(q, middle + 1) > t THEN middle + 1
                     ELSE f[<<middle + 1, e>>]
           Body(f) == [x \in Nat \X Nat |-> At(f, x)]
           C == CHOOSE f : f = Body(f)
<1>1. ASSUME NEW f PROVE Body(f) = Loop(f)
  <2>1. ASSUME NEW x \in Ranges
        PROVE  At(f, x) = IF x \in DoneAfter(q, t) THEN ResultAfter(q, t)[x]
                          ELSE f[StepAfter(q, t)[x]]
    <3>1. ResultAfter(q, t)[x] = IF TimestampAt(q, MidAfter(x)) > t THEN MidAfter(x) ELSE MidAfter(x) + 1
      BY Zenon DEF ResultAfter
    <3>2. StepAfter(q, t)[x] = IF TimestampAt(q, MidAfter(x)) > t
                               THEN <<x[1], Pred(MidAfter(x))>> ELSE <<MidAfter(x) + 1, x[2]>>
      BY Zenon DEF StepAfter
    <3>3. QED
      BY <3>1, <3>2 DEF DoneAfter, MidAfter, Pred
  <2>2. QED
    BY <2>1 DEF Ranges
<1>2. ASSUME NEW x \in Ranges \ DoneAfter(q, t) PROVE StepAfter(q, t)[x] \in Ranges
  <2>1. PICK i \in Nat, j \in Nat : x[1] = i /\ x[2] = j
    BY DEF Ranges
  <2>2. MidAfter(x) \in Nat
    BY <2>1 DEF MidAfter
  <2>3. Pred(MidAfter(x)) \in Nat
    BY <2>2 DEF Pred
  <2>4. StepAfter(q, t)[x] = IF TimestampAt(q, MidAfter(x)) > t
                             THEN <<x[1], Pred(MidAfter(x))>> ELSE <<MidAfter(x) + 1, x[2]>>
    BY Zenon DEF StepAfter
  <2>5. QED
    BY <2>1, <2>2, <2>3, <2>4 DEF Ranges
<1>3. \A f : f = Loop(f) <=> IsLoop(f, Ranges, DoneAfter(q, t), ResultAfter(q, t), StepAfter(q, t))
  BY Zenon DEF IsLoop
<1>4. \A from, to : SearchAfter(q, t, from, to) = C[<<from, to>>]
  BY DEF SearchAfter
<1> HIDE DEF Body, Loop
<1>5. \E f : f = Body(f)
  BY <1>1, <1>2, <1>3, TailRecursion
<1>6. C = Body(C)
  BY <1>5, Zenon
<1>7. QED
  BY <1>1, <1>3, <1>4, <1>6

(* Between an index that is not after t and one that is, the search finds  *)
(* the first index after t.                                                *)
LEMMA SearchAfterFinds ==
    ASSUME ReportsInv, NEW q \in QueryId, NEW t \in Nat,
           NEW from \in Nat, NEW to \in Nat, from < count[q], to < count[q],
           byIndex[q][from] <= t, byIndex[q][to] > t
    PROVE  LET m == SearchAfter(q, t, from, to)
           IN  m \in Nat \ {0} /\ m < count[q] /\ byIndex[q][m] > t /\ byIndex[q][m - 1] <= t
<1> DEFINE Inv == {x \in Ranges : /\ x[1] < x[2] /\ x[2] < count[q]
                                  /\ byIndex[q][x[1]] <= t /\ byIndex[q][x[2]] > t}
           mu == [x \in Ranges |-> x[2] - x[1]]
           Good == {m \in Nat \ {0} : m < count[q] /\ byIndex[q][m] > t /\ byIndex[q][m - 1] <= t}
           Done == DoneAfter(q, t)
           v == ResultAfter(q, t)
           step == StepAfter(q, t)
<1>1. Sorted(q)
  BY SeriesSorted
<1> USE <1>1 DEF Sorted
<1>2. <<from, to>> \in Inv
  <2>1. from < to
    OBVIOUS
  <2>2. QED
    BY <2>1 DEF Ranges
<1>3. PICK f : /\ IsLoop(f, Ranges, Done, v, step)
               /\ SearchAfter(q, t, from, to) = f[<<from, to>>]
  BY SearchAfterLoop
<1>4. ASSUME NEW x \in Inv
      PROVE  /\ mu[x] \in Nat
             /\ x \in Done => v[x] \in Good
             /\ x \notin Done => step[x] \in Inv /\ mu[step[x]] < mu[x]
  <2> DEFINE m == MidAfter(x)
  <2>1. x[1] \in Nat /\ x[2] \in Nat /\ x[1] < x[2] /\ x[2] < count[q] /\ x = <<x[1], x[2]>>
    BY DEF Ranges
  <2>2. m \in Nat /\ x[1] <= m /\ m < x[2]
    BY <2>1 DEF MidAfter
  <2>3. mu[x] = x[2] - x[1] /\ mu[x] \in Nat
    BY <2>1
  <2>4. /\ byIndex[q][m] \in Nat /\ byIndex[q][m + 1] \in Nat /\ m + 1 < count[q]
        /\ byIndex[q][m] > t => m # 0 /\ x[1] < m /\ m - 1 \in Nat /\ byIndex[q][m - 1] \in Nat
    BY <2>1, <2>2
  <2>5. /\ TimestampAt(q, m) = byIndex[q][m] /\ TimestampAt(q, m + 1) = byIndex[q][m + 1]
        /\ byIndex[q][m] > t => Pred(m) = m - 1 /\ TimestampAt(q, Pred(m)) = byIndex[q][m - 1]
    BY <2>1, <2>2, <2>4 DEF TimestampAt, Pred
  <2>6. v[x] = IF TimestampAt(q, m) > t THEN m ELSE m + 1
    BY Zenon DEF ResultAfter
  <2>7. step[x] = IF TimestampAt(q, m) > t THEN <<x[1], Pred(m)>> ELSE <<m + 1, x[2]>>
    BY Zenon DEF StepAfter
  <2>8. x \in Done <=> IF byIndex[q][m] > t THEN byIndex[q][m - 1] <= t ELSE byIndex[q][m + 1] > t
    BY <2>5 DEF DoneAfter
  <2> HIDE DEF Done, v, step
  <2>9. ASSUME x \in Done PROVE v[x] \in Good
    <3>1. CASE byIndex[q][m] > t
      <4>1. v[x] = m /\ byIndex[q][m - 1] <= t
        BY <2>5, <2>6, <2>8, <2>9, <3>1
      <4>2. m \in Nat \ {0} /\ m < count[q]
        BY <2>1, <2>2, <2>4, <3>1
      <4>3. QED
        BY <3>1, <4>1, <4>2
    <3>2. CASE ~(byIndex[q][m] > t)
      <4>1. v[x] = m + 1 /\ byIndex[q][m + 1] > t
        BY <2>5, <2>6, <2>8, <2>9, <3>2
      <4>2. m + 1 \in Nat \ {0} /\ m + 1 < count[q] /\ (m + 1) - 1 = m
        BY <2>2, <2>4
      <4>3. byIndex[q][m] <= t
        BY <2>4, <3>2
      <4>4. QED
        BY <4>1, <4>2, <4>3
    <3>3. QED
      BY <3>1, <3>2
  <2>10. ASSUME x \notin Done PROVE step[x] \in Inv /\ mu[step[x]] < mu[x]
    <3>1. CASE byIndex[q][m] > t
      <4>1. step[x] = <<x[1], m - 1>> /\ byIndex[q][m - 1] > t
        BY <2>4, <2>5, <2>7, <2>8, <2>10, <3>1
      <4>2. x[1] < m - 1
        BY <2>1, <2>2, <2>4, <3>1, <4>1
      <4>3. <<x[1], m - 1>> \in Ranges /\ mu[<<x[1], m - 1>>] = (m - 1) - x[1]
        BY <2>1, <2>2, <2>4, <3>1 DEF Ranges
      <4>4. <<x[1], m - 1>>[1] = x[1] /\ <<x[1], m - 1>>[2] = m - 1
        OBVIOUS
      <4>5. <<x[1], m - 1>> \in Inv
        BY <2>1, <2>2, <4>1, <4>2, <4>3, <4>4
      <4>6. QED
        BY <2>1, <2>2, <2>3, <4>1, <4>3, <4>5
    <3>2. CASE ~(byIndex[q][m] > t)
      <4>1. step[x] = <<m + 1, x[2]>> /\ byIndex[q][m + 1] <= t
        BY <2>4, <2>5, <2>7, <2>8, <2>10, <3>2
      <4>2. m + 1 < x[2]
        BY <2>1, <2>2, <2>4, <4>1
      <4>3. <<m + 1, x[2]>> \in Ranges /\ mu[<<m + 1, x[2]>>] = x[2] - (m + 1)
        BY <2>1, <2>2 DEF Ranges
      <4>4. <<m + 1, x[2]>>[1] = m + 1 /\ <<m + 1, x[2]>>[2] = x[2]
        OBVIOUS
      <4>5. <<m + 1, x[2]>> \in Inv
        BY <2>1, <2>2, <4>1, <4>2, <4>3, <4>4
      <4>6. QED
        BY <2>1, <2>2, <2>3, <4>1, <4>3, <4>5
    <3>3. QED
      BY <3>1, <3>2
  <2>11. QED
    BY <2>3, <2>9, <2>10
<1>5. LoopArgument(Inv, mu, Good, Ranges, Done, v, step)
  BY <1>4 DEF LoopArgument
<1> HIDE DEF Inv, mu, Good, Done, v, step
<1>6. \A x \in Inv : f[x] \in Good
  BY <1>3, <1>5, LoopResult
<1>7. f[<<from, to>>] \in Good
  BY <1>2, <1>6
<1>8. QED
  BY <1>3, <1>7 DEF Good

(* The loop that steps over disputed reports. *)
DisputedAt(q, j) == IsInDispute(q, TimestampAt(q, j))
DoneSkip(q) == {j \in Nat : ~DisputedAt(q, j) \/ ~(j < count[q] - 1)}
ResultSkip(q) == [j \in Nat |-> IF ~DisputedAt(q, j) THEN j ELSE None]
StepSkip == [j \in Nat |-> j + 1]

(* The loop of the model is that loop. *)
LEMMA SkipDisputedLoop ==
    ASSUME NEW q
    PROVE  \E f : /\ IsLoop(f, Nat, DoneSkip(q), ResultSkip(q), StepSkip)
                  /\ \A i : SkipDisputed(q, i) = f[i]
<1> DEFINE Loop(f) == [j \in Nat |-> IF j \in DoneSkip(q) THEN ResultSkip(q)[j] ELSE f[StepSkip[j]]]
           At(f, j) == IF ~IsInDispute(q, TimestampAt(q, j)) THEN j
                       ELSE IF j < count[q] - 1 THEN f[j + 1]
                       ELSE None
           Body(f) == [j \in Nat |-> At(f, j)]
           C == CHOOSE f : f = Body(f)
<1>1. ASSUME NEW f PROVE Body(f) = Loop(f)
  <2>1. ASSUME NEW j \in Nat
        PROVE  At(f, j) = IF j \in DoneSkip(q) THEN ResultSkip(q)[j] ELSE f[StepSkip[j]]
    BY DEF DoneSkip, ResultSkip, StepSkip, DisputedAt
  <2>2. QED
    BY <2>1
<1>2. \A j \in Nat \ DoneSkip(q) : StepSkip[j] \in Nat
  BY DEF StepSkip
<1>3. \A f : f = Loop(f) <=> IsLoop(f, Nat, DoneSkip(q), ResultSkip(q), StepSkip)
  BY Zenon DEF IsLoop
<1>4. \A i : SkipDisputed(q, i) = C[i]
  BY DEF SkipDisputed
<1> HIDE DEF Body, Loop
<1>5. \E f : f = Body(f)
  BY <1>1, <1>2, <1>3, TailRecursion
<1>6. C = Body(C)
  BY <1>5, Zenon
<1>7. QED
  BY <1>1, <1>3, <1>4, <1>6

(* From index i on, it finds the first undisputed report of the series, or *)
(* None when all are disputed.                                             *)
LEMMA SkipDisputedFinds ==
    ASSUME ReportsInv, NEW q \in QueryId, NEW i \in Nat, i < count[q]
    PROVE  LET m == SkipDisputed(q, i)
           IN  \/ m = None /\ \A k \in i..(count[q] - 1) : DisputedAt(q, k)
               \/ /\ m \in Nat /\ i <= m /\ m < count[q] /\ ~DisputedAt(q, m)
                  /\ \A k \in i..(m - 1) : DisputedAt(q, k)
<1> DEFINE Found(m) == \/ m = None /\ \A k \in i..(count[q] - 1) : DisputedAt(q, k)
                       \/ /\ m \in Nat /\ i <= m /\ m < count[q] /\ ~DisputedAt(q, m)
                          /\ \A k \in i..(m - 1) : DisputedAt(q, k)
           Inv == {j \in Nat : i <= j /\ j < count[q] /\ \A k \in i..(j - 1) : DisputedAt(q, k)}
           mu == [j \in Nat |-> count[q] - j]
           Good == {m \in Nat \cup {None} : Found(m)}
           Done == DoneSkip(q)
           v == ResultSkip(q)
<1>1. count[q] \in Nat /\ None \notin Nat
  BY SeriesSorted, ReportsAssumption DEF Sorted
<1>2. i \in Inv
  OBVIOUS
<1>3. PICK f : IsLoop(f, Nat, Done, v, StepSkip) /\ SkipDisputed(q, i) = f[i]
  BY SkipDisputedLoop
<1>4. ASSUME NEW j \in Inv
      PROVE  /\ mu[j] \in Nat
             /\ j \in Done => v[j] \in Good
             /\ j \notin Done => StepSkip[j] \in Inv /\ mu[StepSkip[j]] < mu[j]
  <2>1. j \in Nat /\ i <= j /\ j < count[q] /\ \A k \in i..(j - 1) : DisputedAt(q, k)
    OBVIOUS
  <2>2. mu[j] = count[q] - j /\ mu[j] \in Nat /\ StepSkip[j] = j + 1 /\ mu[j + 1] = count[q] - (j + 1)
    BY <1>1, <2>1 DEF StepSkip
  <2>3. j \in Done <=> ~DisputedAt(q, j) \/ ~(j < count[q] - 1)
    BY <2>1 DEF DoneSkip
  <2>4. v[j] = IF ~DisputedAt(q, j) THEN j ELSE None
    BY <2>1 DEF ResultSkip
  <2>5. ASSUME DisputedAt(q, j) PROVE \A k \in i..j : DisputedAt(q, k)
    <3>1. \A k \in i..j : k = j \/ k \in i..(j - 1)
      BY <2>1
    <3>2. QED
      BY <2>1, <2>5, <3>1
  <2> HIDE DEF Done, v, Inv
  <2>6. ASSUME j \in Done PROVE v[j] \in Good
    <3>1. CASE ~DisputedAt(q, j)
      BY <2>1, <2>4, <3>1
    <3>2. CASE DisputedAt(q, j)
      <4>1. j = count[q] - 1
        BY <1>1, <2>1, <2>3, <2>6, <3>2
      <4>2. v[j] = None /\ \A k \in i..(count[q] - 1) : DisputedAt(q, k)
        BY <2>4, <2>5, <3>2, <4>1
      <4>3. QED
        BY <4>2
    <3>3. QED
      BY <3>1, <3>2
  <2>7. ASSUME j \notin Done PROVE StepSkip[j] \in Inv /\ mu[StepSkip[j]] < mu[j]
    <3>1. DisputedAt(q, j) /\ j < count[q] - 1
      BY <2>3, <2>7
    <3>2. j + 1 \in Nat /\ i <= j + 1 /\ j + 1 < count[q] /\ (j + 1) - 1 = j
      BY <1>1, <2>1, <3>1
    <3>3. j + 1 \in Inv
      BY <2>5, <3>1, <3>2 DEF Inv
    <3>4. QED
      BY <1>1, <2>1, <2>2, <3>3
  <2>8. QED
    BY <2>2, <2>6, <2>7
<1>5. LoopArgument(Inv, mu, Good, Nat, Done, v, StepSkip)
  BY <1>4 DEF LoopArgument
<1> HIDE DEF Inv, mu, Good, Done, v
<1>6. \A j \in Inv : f[j] \in Good
  BY <1>3, <1>5, LoopResult
<1>7. f[i] \in Good
  BY <1>2, <1>6
<1>8. QED
  BY <1>3, <1>7 DEF Good

(* The least element is the one that EarliestOf chooses. *)
LEMMA EarliestIsChosen ==
    ASSUME NEW S \in SUBSET Nat, NEW p \in S, \A s \in S : p <= s PROVE EarliestOf(S) = p
<1>1. \A s \in S : (\A r \in S : s <= r) => s = p
  OBVIOUS
<1>2. QED
  BY <1>1 DEF EarliestOf

(* get_index_for_data_after returns the index of the earliest undisputed   *)
(* report after t.                                                         *)
LEMMA IndexAfterFound ==
    ASSUME ReportsInv, NEW q \in QueryId, NEW t \in Nat
    PROVE  LET i == GetIndexForDataAfter(q, t)
               S == {s \in Undisputed(q) : s > t}
           IN  \/ i = None /\ S = {}
               \/ /\ i \in Nat /\ i < count[q] /\ byIndex[q][i] \in S
                  /\ \A s \in S : byIndex[q][i] <= s
<1> DEFINE S == {s \in Undisputed(q) : s > t}
           i == GetIndexForDataAfter(q, t)
<1>1. Sorted(q) /\ None \notin Nat
  BY SeriesSorted, ReportsAssumption
<1> USE <1>1 DEF Sorted
<1>3. \A j \in Nat : j < count[q] => TimestampAt(q, j) = byIndex[q][j]
  BY DEF TimestampAt
<1>4. ASSUME NEW s \in S
      PROVE  /\ s \in Nat /\ s \in DOMAIN reports[q]
             /\ \E j \in Nat : j < count[q] /\ byIndex[q][j] = s /\ ~DisputedAt(q, j)
  <2>1. s \in DOMAIN reports[q] /\ ~reports[q][s].is_disputed
    BY DEF Undisputed
  <2>2. PICK j \in Nat : j < count[q] /\ byIndex[q][j] = s
    BY <2>1, SeriesIndexed
  <2>3. ~DisputedAt(q, j)
    BY <1>3, <2>1, <2>2 DEF DisputedAt, IsInDispute
  <2>4. QED
    BY <2>1, <2>2, <2>3
<1>5. CASE count[q] = 0 \/ byIndex[q][count[q] - 1] <= t
  <2>1. i = None
    BY <1>3, <1>5 DEF GetIndexForDataAfter
  <2>2. ASSUME NEW s \in S PROVE FALSE
    <3>1. PICK j \in Nat : j < count[q] /\ byIndex[q][j] = s
      BY <1>4
    <3>2. s > t
      OBVIOUS
    <3>3. j <= count[q] - 1 /\ count[q] - 1 \in Nat /\ count[q] - 1 < count[q]
      BY <3>1
    <3>4. byIndex[q][j] <= byIndex[q][count[q] - 1]
      BY <3>1, <3>3
    <3>5. QED
      BY <1>4, <1>5, <3>1, <3>2, <3>3, <3>4
  <2>3. S = {}
    BY <2>2
  <2>4. QED
    BY <2>1, <2>3
<1>6. CASE ~(count[q] = 0 \/ byIndex[q][count[q] - 1] <= t)
  <2>1. count[q] - 1 \in Nat /\ count[q] - 1 < count[q] /\ 0 < count[q] /\ byIndex[q][count[q] - 1] > t
    BY <1>6
  <2>2. PICK m \in Nat : /\ m < count[q] /\ byIndex[q][m] > t /\ i = SkipDisputed(q, m)
                         /\ m # 0 => byIndex[q][m - 1] <= t
    <3>1. TimestampAt(q, 0) = byIndex[q][0] /\ TimestampAt(q, count[q] - 1) = byIndex[q][count[q] - 1]
      BY <1>3, <2>1
    <3>2. CASE byIndex[q][0] > t
      <4>1. i = SkipDisputed(q, 0)
        BY <1>6, <2>1, <3>1, <3>2 DEF GetIndexForDataAfter
      <4>2. QED
        BY <2>1, <3>2, <4>1
    <3>3. CASE ~(byIndex[q][0] > t)
      <4> DEFINE m == SearchAfter(q, t, 0, count[q] - 1)
      <4>1. i = SkipDisputed(q, m)
        BY <1>6, <2>1, <3>1, <3>3 DEF GetIndexForDataAfter
      <4>2. m \in Nat \ {0} /\ m < count[q] /\ byIndex[q][m] > t /\ byIndex[q][m - 1] <= t
        <5>1. byIndex[q][0] <= t
          BY <2>1, <3>3
        <5>2. QED
          BY <2>1, <5>1, SearchAfterFinds
      <4>3. QED
        BY <4>1, <4>2
    <3>4. QED
      BY <3>2, <3>3
  <2>3. ASSUME NEW s \in S, NEW j \in Nat, j < count[q], byIndex[q][j] = s PROVE m <= j
    <3> SUFFICES ASSUME j < m PROVE FALSE
      BY <2>2
    <3>1. m - 1 \in Nat /\ j <= m - 1 /\ m # 0
      BY <2>2
    <3>2. byIndex[q][j] <= byIndex[q][m - 1] /\ byIndex[q][m - 1] \in Nat
      BY <2>2, <2>3, <3>1
    <3>3. s \in Nat /\ s > t
      BY <1>4
    <3>4. QED
      BY <2>2, <2>3, <3>1, <3>2, <3>3
  <2>4. CASE i = None /\ \A k \in m..(count[q] - 1) : DisputedAt(q, k)
    <3>1. ASSUME NEW s \in S PROVE FALSE
      <4>1. PICK j \in Nat : j < count[q] /\ byIndex[q][j] = s /\ ~DisputedAt(q, j)
        BY <1>4
      <4>2. m <= j
        BY <2>3, <4>1
      <4>3. j \in m..(count[q] - 1)
        BY <2>2, <4>1, <4>2
      <4>4. QED
        BY <2>4, <4>1, <4>3
    <3>2. S = {}
      BY <3>1
    <3>3. QED
      BY <2>4, <3>2
  <2>5. CASE /\ i \in Nat /\ m <= i /\ i < count[q] /\ ~DisputedAt(q, i)
             /\ \A k \in m..(i - 1) : DisputedAt(q, k)
    <3> HIDE DEF i
    <3> DEFINE p == byIndex[q][i]
    <3>1. TimestampAt(q, i) = p /\ p \in Nat /\ p \in DOMAIN reports[q] /\ i # None
      BY <1>3, <2>5, SeriesIndexed
    <3>2. ~reports[q][p].is_disputed /\ p \in Undisputed(q)
      BY <2>5, <3>1 DEF DisputedAt, IsInDispute, Undisputed
    <3>3. p > t
      BY <2>2, <2>5, <3>1
    <3>4. p \in S
      BY <3>2, <3>3
    <3>5. ASSUME NEW s \in S PROVE p <= s
      <4>1. PICK j \in Nat : j < count[q] /\ byIndex[q][j] = s /\ ~DisputedAt(q, j)
        BY <1>4
      <4>2. m <= j
        BY <2>3, <4>1
      <4>3. i <= j
        <5> SUFFICES ASSUME j < i PROVE FALSE
          BY <2>5, <4>1
        <5>1. j \in m..(i - 1)
          BY <2>2, <2>5, <4>1, <4>2
        <5>2. QED
          BY <2>5, <4>1, <5>1
      <4>4. QED
        BY <2>5, <3>1, <4>1, <4>3
    <3>6. QED
      BY <2>5, <3>4, <3>5 DEF i
  <2>6. QED
    BY <2>2, <2>4, <2>5, SkipDisputedFinds
<1>7. QED
  BY <1>5, <1>6

(* get_data_after returns the earliest undisputed value after t. *)
LEMMA DataAfterFound ==
    ASSUME ReportsInv, NEW q \in QueryId, NEW t \in Nat
    PROVE  GetDataAfter(q, t) = EarliestOf({s \in Undisputed(q) : s > t})
<1>1. PICK i, S : i = GetIndexForDataAfter(q, t) /\ S = {s \in Undisputed(q) : s > t}
  OBVIOUS
<1>2. GetDataAfter(q, t) = IF i = None THEN None ELSE RetrieveData(q, TimestampAt(q, i))
  BY <1>1 DEF GetDataAfter
<1>3. S \in SUBSET Nat /\ S \subseteq Undisputed(q)
  BY <1>1, SeriesIndexed DEF Undisputed
<1>4. CASE i = None /\ S = {}
  BY <1>1, <1>2, <1>4 DEF EarliestOf
<1>5. CASE i \in Nat /\ i < count[q] /\ byIndex[q][i] \in S /\ \A s \in S : byIndex[q][i] <= s
  <2>1. PICK p \in S : p = byIndex[q][i] /\ \A s \in S : p <= s
    BY <1>5
  <2>2. i # None /\ TimestampAt(q, i) = p
    BY <1>5, <2>1, ReportsAssumption DEF TimestampAt
  <2>3. EarliestOf(S) = p
    BY <1>3, <2>1, EarliestIsChosen
  <2>4. p \in values[q]
    BY <1>3, <2>1 DEF ReportsInv, ValueIffUndisputed
  <2>5. QED
    BY <1>1, <1>2, <2>2, <2>3, <2>4 DEF RetrieveData
<1>6. QED
  BY <1>1, <1>4, <1>5, IndexAfterFound

(* In every state of the report store's invariant. *)
LEMMA DataAfterInv == ReportsInv => DataAfterIsEarliest
<1> SUFFICES ASSUME ReportsInv, NEW q \in QueryId, NEW t \in QueryTimes
             PROVE  GetDataAfter(q, t) = EarliestOf({s \in Undisputed(q) : s > t})
  BY DEF DataAfterIsEarliest
<1>1. t \in Nat
  BY ReportsAssumption DEF QueryTimes
<1>2. QED
  BY <1>1, DataAfterFound

-----------------------------------------------------------------------------
(* The states of the loops of get_multiple_values_before: how many times   *)
(* were seen, and the ones kept.                                           *)
KeepStates == Nat \X Seq(Nat)
DoneKeep(u, limit) == {x \in KeepStates : x[1] >= Len(u) \/ Len(x[2]) >= limit}
ResultKeep == [x \in KeepStates |-> x[2]]
KeptWith(u, wanted, i, s) == IF u[i + 1] \in wanted THEN Append(s, u[i + 1]) ELSE s
StepKeep(u, wanted) == [x \in KeepStates |-> <<x[1] + 1, KeptWith(u, wanted, x[1], x[2])>>]

(* The loop of the model is that loop. *)
LEMMA KeptLoop ==
    ASSUME NEW u \in Seq(Nat), NEW wanted, NEW limit
    PROVE  \E f : /\ IsLoop(f, KeepStates, DoneKeep(u, limit), ResultKeep, StepKeep(u, wanted))
                  /\ Kept(u, wanted, limit) = f[<<0, <<>>>>]
<1> DEFINE Loop(f) == [x \in KeepStates |-> IF x \in DoneKeep(u, limit) THEN ResultKeep[x]
                                            ELSE f[StepKeep(u, wanted)[x]]]
           At(f, x) ==
             LET i == x[1]
                 kept == x[2]
             IN IF i >= Len(u) \/ Len(kept) >= limit THEN kept
                ELSE f[<<i + 1, IF u[i + 1] \in wanted THEN Append(kept, u[i + 1]) ELSE kept>>]
           Body(f) == [x \in Nat \X Seq(Nat) |-> At(f, x)]
           C == CHOOSE f : f = Body(f)
<1>1. ASSUME NEW f PROVE Body(f) = Loop(f)
  <2>1. ASSUME NEW x \in KeepStates
        PROVE  At(f, x) = IF x \in DoneKeep(u, limit) THEN ResultKeep[x] ELSE f[StepKeep(u, wanted)[x]]
    <3>1. ResultKeep[x] = x[2]
      BY Zenon DEF ResultKeep
    <3>2. StepKeep(u, wanted)[x] =
             <<x[1] + 1, IF u[x[1] + 1] \in wanted THEN Append(x[2], u[x[1] + 1]) ELSE x[2]>>
      BY Zenon DEF StepKeep, KeptWith
    <3>3. x \in DoneKeep(u, limit) <=> x[1] >= Len(u) \/ Len(x[2]) >= limit
      BY Zenon DEF DoneKeep
    <3>4. QED
      BY <3>1, <3>2, <3>3, Zenon
  <2>2. QED
    BY <2>1, Zenon DEF KeepStates
<1>2. ASSUME NEW x \in KeepStates \ DoneKeep(u, limit) PROVE StepKeep(u, wanted)[x] \in KeepStates
  <2>1. PICK i \in Nat, s \in Seq(Nat) : x = <<i, s>>
    BY DEF KeepStates
  <2>2. x[1] = i /\ x[2] = s
    BY <2>1
  <2>3. i < Len(u)
    BY <2>2 DEF DoneKeep
  <2>4. i + 1 \in 1..Len(u)
    BY <2>3
  <2>5. u[i + 1] \in Nat
    BY <2>4
  <2>6. KeptWith(u, wanted, i, s) \in Seq(Nat)
    BY <2>5 DEF KeptWith
  <2>7. StepKeep(u, wanted)[x] = <<i + 1, KeptWith(u, wanted, i, s)>>
    BY <2>2 DEF StepKeep
  <2>8. QED
    BY <2>6, <2>7 DEF KeepStates
<1>3. \A f : f = Loop(f) <=> IsLoop(f, KeepStates, DoneKeep(u, limit), ResultKeep, StepKeep(u, wanted))
  BY Zenon DEF IsLoop
<1>4. Kept(u, wanted, limit) = C[<<0, <<>>>>]
  BY DEF Kept
<1> HIDE DEF Body, Loop
<1>5. \E f : f = Body(f)
  BY <1>1, <1>2, <1>3, TailRecursion
<1>6. C = Body(C)
  BY <1>5, Zenon
<1>7. QED
  BY <1>1, <1>3, <1>4, <1>6

(* One turn of it, from i times seen and s kept. *)
LEMMA KeepTurn ==
    ASSUME NEW u \in Seq(Nat), NEW wanted, NEW limit \in Nat, NEW i \in Nat, NEW s \in Seq(Nat)
    PROVE  /\ <<i, s>> \in KeepStates
           /\ <<i, s>> \in DoneKeep(u, limit) <=> i >= Len(u) \/ Len(s) >= limit
           /\ ResultKeep[<<i, s>>] = s
           /\ StepKeep(u, wanted)[<<i, s>>] = <<i + 1, KeptWith(u, wanted, i, s)>>
           /\ i < Len(u) => u[i + 1] \in Nat /\ KeptWith(u, wanted, i, s) \in Seq(Nat)
<1>1. <<i, s>> \in KeepStates /\ <<i, s>>[1] = i /\ <<i, s>>[2] = s
  BY DEF KeepStates
<1>2. <<i, s>> \in DoneKeep(u, limit) <=> i >= Len(u) \/ Len(s) >= limit
  BY <1>1 DEF DoneKeep
<1>3. ResultKeep[<<i, s>>] = s /\ StepKeep(u, wanted)[<<i, s>>] = <<i + 1, KeptWith(u, wanted, i, s)>>
  BY <1>1 DEF ResultKeep, StepKeep
<1>4. ASSUME i < Len(u) PROVE u[i + 1] \in Nat /\ KeptWith(u, wanted, i, s) \in Seq(Nat)
  <2>1. i + 1 \in 1..Len(u)
    BY <1>4
  <2>2. u[i + 1] \in Nat
    BY <2>1
  <2>3. QED
    BY <2>2 DEF KeptWith
<1>5. QED
  BY <1>1, <1>2, <1>3, <1>4

(* Nothing seen yet. *)
LEMMA AtStart ==
    ASSUME NEW e \in Seq(Nat)
    PROVE  <<0, e>> \in KeepStates /\ <<0, e>>[1] = 0 /\ <<0, e>>[2] = e
  BY DEF KeepStates

(* The empty sequence. *)
LEMMA NoTimes == <<>> \in Seq(Nat) /\ Len(<<>>) = 0
  OBVIOUS

(* A sequence of wanted times is kept as it is. *)
LEMMA KeptAll ==
    ASSUME NEW u \in Seq(Nat), NEW wanted, \A i \in 1..Len(u) : u[i] \in wanted
    PROVE  Kept(u, wanted, Len(u)) = u
<1> DEFINE Inv == {x \in KeepStates : /\ x[1] <= Len(u) /\ Len(x[2]) = x[1]
                                      /\ \A k \in 1..x[1] : x[2][k] = u[k]}
           mu == [x \in KeepStates |-> Len(u) - x[1]]
           Done == DoneKeep(u, Len(u))
           step == StepKeep(u, wanted)
<1>1. PICK f : IsLoop(f, KeepStates, Done, ResultKeep, step) /\ Kept(u, wanted, Len(u)) = f[<<0, <<>>>>]
  BY KeptLoop
<1>2. ASSUME NEW x \in Inv
      PROVE  /\ mu[x] \in Nat
             /\ x \in Done => ResultKeep[x] \in {u}
             /\ x \notin Done => step[x] \in Inv /\ mu[step[x]] < mu[x]
  <2>1. PICK i \in Nat, s \in Seq(Nat) : x = <<i, s>>
    BY DEF KeepStates
  <2>2. i <= Len(u) /\ Len(s) = i /\ \A k \in 1..i : s[k] = u[k]
    BY <2>1
  <2>3. mu[x] = Len(u) - i /\ mu[x] \in Nat
    BY <2>1, <2>2
  <2>4. PICK n : n = KeptWith(u, wanted, i, s)
    OBVIOUS
  <2>5. /\ x \in Done <=> i >= Len(u) \/ Len(s) >= Len(u)
        /\ ResultKeep[x] = s /\ step[x] = <<i + 1, n>>
        /\ i < Len(u) => u[i + 1] \in Nat /\ n \in Seq(Nat)
    <3> HIDE DEF Inv, mu, Done, step
    <3>1. PICK limit \in Nat : limit = Len(u)
      OBVIOUS
    <3>2. <<i, s>> \in DoneKeep(u, limit) <=> i >= Len(u) \/ Len(s) >= limit
      BY ONLY u \in Seq(Nat), KeepTurn
    <3>3. ResultKeep[<<i, s>>] = s
      BY ONLY u \in Seq(Nat), KeepTurn
    <3>4. StepKeep(u, wanted)[<<i, s>>] = <<i + 1, KeptWith(u, wanted, i, s)>>
      BY ONLY u \in Seq(Nat), KeepTurn
    <3>5. i < Len(u) => u[i + 1] \in Nat /\ KeptWith(u, wanted, i, s) \in Seq(Nat)
      BY ONLY u \in Seq(Nat), KeepTurn
    <3>6. QED
      BY <2>1, <2>4, <3>1, <3>2, <3>3, <3>4, <3>5 DEF Done, step
  <2>6. ASSUME x \in Done PROVE s = u
    <3>1. Len(s) = Len(u)
      BY <2>2, <2>5, <2>6
    <3>2. \A k \in 1..Len(s) : s[k] = u[k]
      BY <2>2
    <3>3. s = [k \in 1..Len(s) |-> s[k]] /\ u = [k \in 1..Len(u) |-> u[k]]
      OBVIOUS
    <3>4. QED
      BY ONLY <3>1, <3>2, <3>3
  <2>7. ASSUME x \notin Done PROVE step[x] \in Inv /\ mu[step[x]] < mu[x]
    <3>1. i < Len(u) /\ u[i + 1] \in Nat /\ n \in Seq(Nat)
      BY <2>2, <2>5, <2>7
    <3>2. u[i + 1] \in wanted
      <4>1. i + 1 \in 1..Len(u)
        BY <3>1
      <4>2. QED
        BY <4>1
    <3>3. n = Append(s, u[i + 1])
      BY <2>4, <3>2 DEF KeptWith
    <3>4. Len(n) = i + 1 /\ \A k \in 1..(i + 1) : n[k] = u[k]
      BY <2>2, <3>1, <3>3
    <3>5. <<i + 1, n>> \in KeepStates /\ <<i + 1, n>>[1] = i + 1 /\ <<i + 1, n>>[2] = n
      BY <3>1 DEF KeepStates
    <3>6. i + 1 <= Len(u)
      BY <3>1
    <3>7. <<i + 1, n>> \in Inv
      BY <3>4, <3>5, <3>6
    <3>8. mu[<<i + 1, n>>] = Len(u) - (i + 1)
      BY <3>5
    <3>9. QED
      BY <2>3, <2>5, <3>6, <3>7, <3>8
  <2>8. QED
    BY <2>3, <2>5, <2>6, <2>7
<1>3. LoopArgument(Inv, mu, {u}, KeepStates, Done, ResultKeep, step)
  BY <1>2 DEF LoopArgument
<1>4. <<0, <<>>>> \in Inv
  <2>1. PICK e : e = <<>> /\ e \in Seq(Nat) /\ Len(e) = 0
    BY NoTimes
  <2>2. <<0, e>> \in KeepStates /\ <<0, e>>[1] = 0 /\ <<0, e>>[2] = e
    BY <2>1, AtStart
  <2>3. 0 <= Len(u) /\ 1..0 = {}
    OBVIOUS
  <2>4. <<0, e>> \in Inv
    BY <2>1, <2>2, <2>3
  <2>5. QED
    BY <2>1, <2>4
<1> HIDE DEF Inv, mu, Done, step
<1>5. \A x \in Inv : f[x] \in {u}
  BY <1>1, <1>3, LoopResult
<1>6. QED
  BY <1>1, <1>4, <1>5

(* The elements of a sequence up to n, and that it goes back in time. *)
Elements(s, n) == {s[k] : k \in 1..n}
Decreasing(s) == \A i, j \in 1..Len(s) : i < j => s[j] < s[i]

(* s holds what is wanted of the first m times of u. *)
Picks(s, u, m, wanted) == Elements(s, Len(s)) = Elements(u, m) \cap wanted

(* A turn of the loop over times that go back. *)
LEMMA KeepDecreasing ==
    ASSUME NEW u \in Seq(Nat), Decreasing(u), NEW wanted, NEW i \in Nat, i < Len(u),
           NEW s \in Seq(Nat), Decreasing(s), Picks(s, u, i, wanted)
    PROVE  LET n == KeptWith(u, wanted, i, s)
           IN  /\ Decreasing(n) /\ Picks(n, u, i + 1, wanted)
               /\ Len(n) <= Len(s) + 1
<1>1. PICK r \in Nat : r = u[i + 1]
  <2>1. i + 1 \in 1..Len(u)
    OBVIOUS
  <2>2. QED
    BY <2>1
<1>2. Elements(u, i + 1) = Elements(u, i) \cup {r}
  <2>1. 1..(i + 1) = 1..i \cup {i + 1}
    OBVIOUS
  <2>2. QED
    BY ONLY <1>1, <2>1, Zenon DEF Elements
<1>3. CASE r \notin wanted
  <2>1. KeptWith(u, wanted, i, s) = s
    BY <1>1, <1>3 DEF KeptWith
  <2>2. Elements(u, i + 1) \cap wanted = Elements(u, i) \cap wanted
    BY ONLY <1>2, <1>3
  <2>3. Len(s) <= Len(s) + 1
    OBVIOUS
  <2>4. QED
    BY <2>1, <2>2, <2>3 DEF Picks
<1>4. CASE r \in wanted
  <2>1. PICK n : n = Append(s, r)
    OBVIOUS
  <2>2. PICK k \in Nat : k = Len(s)
    OBVIOUS
  <2>3. Len(n) = k + 1 /\ n[k + 1] = r /\ \A j \in 1..k : n[j] = s[j]
    BY <2>1, <2>2
  <2>4. KeptWith(u, wanted, i, s) = n
    BY <1>1, <1>4, <2>1 DEF KeptWith
  <2>5. Elements(n, k + 1) = Elements(s, k) \cup {r}
    <3>1. 1..(k + 1) = 1..k \cup {k + 1}
      OBVIOUS
    <3>2. Elements(n, k) = Elements(s, k)
      BY ONLY <2>3, Zenon DEF Elements
    <3>3. Elements(n, k + 1) = Elements(n, k) \cup {r}
      BY ONLY <2>3, <3>1, Zenon DEF Elements
    <3>4. QED
      BY <3>2, <3>3
  <2>6. Picks(n, u, i + 1, wanted)
    BY <1>2, <1>4, <2>2, <2>3, <2>5 DEF Picks
  <2>7. ASSUME NEW j \in 1..k PROVE r < s[j]
    <3>1. s[j] \in Elements(s, Len(s))
      BY <2>2 DEF Elements
    <3>2. s[j] \in Elements(u, i)
      BY <3>1 DEF Picks
    <3>3. PICK m \in 1..i : s[j] = u[m]
      BY <3>2 DEF Elements
    <3>4. m \in 1..Len(u) /\ i + 1 \in 1..Len(u) /\ m < i + 1
      OBVIOUS
    <3>5. u[i + 1] < u[m]
      BY <3>4 DEF Decreasing
    <3>6. QED
      BY <1>1, <3>3, <3>5
  <2>8. ASSUME NEW x \in 1..(k + 1), NEW y \in 1..(k + 1), x < y PROVE n[y] < n[x]
    <3>1. x \in 1..k
      BY <2>8
    <3>2. CASE y = k + 1
      BY <2>3, <2>7, <3>1, <3>2
    <3>3. CASE y # k + 1
      <4>1. y \in 1..k
        BY <3>3
      <4>2. s[y] < s[x]
        BY <2>2, <2>8, <3>1, <4>1 DEF Decreasing
      <4>3. QED
        BY <2>3, <3>1, <4>1, <4>2
    <3>4. QED
      BY <3>2, <3>3
  <2>9. Decreasing(n)
    BY <2>3, <2>8 DEF Decreasing
  <2>10. Len(n) <= Len(s) + 1
    BY <2>2, <2>3
  <2>11. QED
    BY <2>4, <2>6, <2>9, <2>10
<1>5. QED
  BY <1>3, <1>4

(* Of times that go back, the loop keeps the wanted ones up to some m, and *)
(* stops before the end only with as many as the limit allows.             *)
LEMMA KeptDecreasing ==
    ASSUME NEW u \in Seq(Nat), Decreasing(u), NEW wanted, NEW limit \in Nat
    PROVE  LET w == Kept(u, wanted, limit)
           IN  /\ w \in Seq(Nat) /\ Decreasing(w) /\ Len(w) <= limit
               /\ \E m \in 0..Len(u) : /\ Elements(w, Len(w)) = Elements(u, m) \cap wanted
                                       /\ m < Len(u) => Len(w) = limit
<1> DEFINE Inv == {x \in KeepStates : /\ x[1] <= Len(u) /\ Len(x[2]) <= limit
                                      /\ Decreasing(x[2]) /\ Picks(x[2], u, x[1], wanted)}
           mu == [x \in KeepStates |-> Len(u) - x[1]]
           Good == {s \in Seq(Nat) : /\ Decreasing(s) /\ Len(s) <= limit
                                     /\ \E m \in 0..Len(u) : Picks(s, u, m, wanted) /\ (m < Len(u) => Len(s) = limit)}
           Done == DoneKeep(u, limit)
           step == StepKeep(u, wanted)
<1> HIDE DEF Inv, mu, Good, Done, step
<1>1. PICK f : IsLoop(f, KeepStates, Done, ResultKeep, step) /\ Kept(u, wanted, limit) = f[<<0, <<>>>>]
  BY KeptLoop DEF Done, step
<1>2. ASSUME NEW x \in Inv
      PROVE  /\ mu[x] \in Nat
             /\ x \in Done => ResultKeep[x] \in Good
             /\ x \notin Done => step[x] \in Inv /\ mu[step[x]] < mu[x]
  <2>1. PICK i \in Nat, s \in Seq(Nat) : x = <<i, s>>
    BY DEF Inv, KeepStates
  <2>2. i <= Len(u) /\ Len(s) <= limit /\ Decreasing(s) /\ Picks(s, u, i, wanted)
    BY <2>1 DEF Inv
  <2>3. mu[x] = Len(u) - i /\ mu[x] \in Nat
    <3>1. x \in KeepStates /\ x[1] = i
      BY <2>1 DEF Inv
    <3>2. mu[x] = Len(u) - i
      BY <3>1 DEF mu
    <3>3. QED
      BY <2>2, <3>2
  <2>4. PICK n : n = KeptWith(u, wanted, i, s)
    OBVIOUS
  <2>5. /\ x \in Done <=> i >= Len(u) \/ Len(s) >= limit
        /\ ResultKeep[x] = s /\ step[x] = <<i + 1, n>>
        /\ i < Len(u) => u[i + 1] \in Nat /\ n \in Seq(Nat)
    <3>1. /\ <<i, s>> \in DoneKeep(u, limit) <=> i >= Len(u) \/ Len(s) >= limit
          /\ ResultKeep[<<i, s>>] = s
          /\ StepKeep(u, wanted)[<<i, s>>] = <<i + 1, KeptWith(u, wanted, i, s)>>
          /\ i < Len(u) => u[i + 1] \in Nat /\ KeptWith(u, wanted, i, s) \in Seq(Nat)
      BY KeepTurn
    <3>2. QED
      BY <2>1, <2>4, <3>1 DEF Done, step
  <2>6. ASSUME x \in Done PROVE s \in Good
    <3>1. i \in 0..Len(u) /\ (i < Len(u) => Len(s) = limit)
      BY <2>2, <2>5, <2>6
    <3>2. QED
      BY <2>2, <3>1 DEF Good
  <2>7. ASSUME x \notin Done PROVE step[x] \in Inv /\ mu[step[x]] < mu[x]
    <3>1. i < Len(u) /\ Len(s) < limit /\ n \in Seq(Nat)
      BY <2>2, <2>5, <2>7
    <3>2. Decreasing(n) /\ Picks(n, u, i + 1, wanted) /\ Len(n) <= Len(s) + 1
      BY <2>2, <2>4, <3>1, KeepDecreasing
    <3>3. i + 1 <= Len(u) /\ Len(n) <= limit
      BY <3>1, <3>2
    <3>4. <<i + 1, n>> \in KeepStates /\ <<i + 1, n>>[1] = i + 1 /\ <<i + 1, n>>[2] = n
      BY <3>1 DEF KeepStates
    <3>5. <<i + 1, n>> \in Inv
      BY <3>2, <3>3, <3>4 DEF Inv
    <3>6. mu[<<i + 1, n>>] = Len(u) - (i + 1)
      BY <3>4 DEF mu
    <3>7. QED
      BY <2>3, <2>5, <3>3, <3>5, <3>6
  <2>8. QED
    BY <2>3, <2>5, <2>6, <2>7
<1>3. LoopArgument(Inv, mu, Good, KeepStates, Done, ResultKeep, step)
  <2>1. Inv \subseteq KeepStates
    BY DEF Inv
  <2>2. QED
    BY <1>2, <2>1 DEF LoopArgument
<1>4. <<0, <<>>>> \in Inv
  <2>1. PICK e : e = <<>> /\ e \in Seq(Nat) /\ Len(e) = 0
    BY NoTimes
  <2>2. <<0, e>> \in KeepStates /\ <<0, e>>[1] = 0 /\ <<0, e>>[2] = e
    BY <2>1, AtStart
  <2>3. 0 <= Len(u) /\ 0 <= limit /\ 1..0 = {}
    OBVIOUS
  <2>4. Decreasing(e) /\ Picks(e, u, 0, wanted)
    BY <2>1, <2>3 DEF Decreasing, Picks, Elements
  <2>5. <<0, e>> \in Inv
    BY <2>1, <2>2, <2>3, <2>4 DEF Inv
  <2>6. QED
    BY <2>1, <2>5
<1>5. \A x \in Inv : f[x] \in Good
  BY <1>1, <1>3, LoopResult
<1>6. f[<<0, <<>>>>] \in Good
  BY <1>4, <1>5
<1>7. QED
  BY <1>1, <1>6 DEF Good, Picks

(* A sequence that goes back in time holds no time twice. *)
LEMMA ElementsCounted ==
    ASSUME NEW s \in Seq(Nat), Decreasing(s), NEW n \in 0..Len(s)
    PROVE  IsFiniteSet(Elements(s, n)) /\ Cardinality(Elements(s, n)) = n
<1>1. PICK f : f = [k \in 1..n |-> s[k]]
  OBVIOUS
<1>2. \A k \in 1..n : f[k] = s[k] /\ s[k] \in Elements(s, n) /\ k \in 1..Len(s) /\ s[k] \in Nat
  BY <1>1 DEF Elements
<1>3. f \in [1..n -> Elements(s, n)]
  BY <1>1, <1>2
<1>4. ASSUME NEW x \in 1..n, NEW y \in 1..n, f[x] = f[y] PROVE x = y
  <2>1. s[x] = s[y] /\ s[x] \in Nat /\ s[y] \in Nat /\ x \in 1..Len(s) /\ y \in 1..Len(s)
    BY <1>2, <1>4
  <2>2. ~(x < y) /\ ~(y < x)
    BY <2>1 DEF Decreasing
  <2>3. QED
    BY <2>2
<1>5. f \in Injection(1..n, Elements(s, n))
  <2>1. DOMAIN f = 1..n
    BY <1>1
  <2>2. QED
    BY <1>3, <1>4, <2>1, Zenon DEF Injection, IsInjective
<1>6. f \in Surjection(1..n, Elements(s, n))
  <2>1. \A r \in Elements(s, n) : \E k \in 1..n : f[k] = r
    BY <1>2 DEF Elements
  <2>2. QED
    BY <1>3, <2>1, Zenon DEF Surjection
<1>7. IsFiniteSet(1..n) /\ Cardinality(1..n) = n
  <2>1. IsFiniteSet(1..n) /\ Cardinality(1..n) = IF 1 > n THEN 0 ELSE n - 1 + 1
    BY FS_Interval
  <2>2. n \in Nat
    OBVIOUS
  <2>3. QED
    BY <2>1, <2>2
<1>8. QED
  BY <1>5, <1>6, <1>7, FS_Surjection

(* The elements of S that fewer than `limit` others of S are later than. *)
LatestIn(S, limit) == {s \in S : Cardinality({r \in S : r > s}) < limit}

(* What the loop keeps of times that go back are the latest ones. *)
LEMMA KeptAreLatest ==
    ASSUME NEW u \in Seq(Nat), Decreasing(u), NEW wanted, NEW limit \in Nat,
           NEW w \in Seq(Nat), Decreasing(w), Len(w) <= limit, NEW m \in 0..Len(u),
           Picks(w, u, m, wanted), m < Len(u) => Len(w) = limit,
           NEW S, S = Elements(u, Len(u)) \cap wanted
    PROVE  Elements(w, Len(w)) = LatestIn(S, limit)
<1>1. IsFiniteSet(S) /\ S \subseteq Nat
  <2>1. Len(u) \in 0..Len(u)
    OBVIOUS
  <2>2. IsFiniteSet(Elements(u, Len(u)))
    BY <2>1, ElementsCounted
  <2>3. \A k \in 1..Len(u) : u[k] \in Nat
    OBVIOUS
  <2>4. Elements(u, Len(u)) \subseteq Nat
    BY <2>3 DEF Elements
  <2>5. S \in SUBSET Elements(u, Len(u))
    OBVIOUS
  <2>6. QED
    BY <2>2, <2>4, <2>5, FS_Subset
<1>2. ASSUME NEW r \in S PROVE \E k \in 1..Len(u) : u[k] = r
  BY <1>2 DEF Elements
<1>3. ASSUME NEW k \in 1..Len(u), k <= m, u[k] \in wanted
      PROVE  \E j \in 1..Len(w) : w[j] = u[k]
  <2>1. k \in 1..m
    BY <1>3
  <2>2. u[k] \in Elements(w, Len(w))
    BY <1>3, <2>1 DEF Picks, Elements
  <2>3. QED
    BY <2>2 DEF Elements
<1>4. ASSUME NEW j \in 1..Len(w)
      PROVE  w[j] \in S /\ \E k \in 1..Len(u) : k <= m /\ u[k] = w[j]
  <2>1. w[j] \in Elements(u, m) \cap wanted
    BY DEF Picks, Elements
  <2>2. PICK k \in 1..m : u[k] = w[j]
    BY <2>1 DEF Elements
  <2>3. k \in 1..Len(u) /\ k <= m
    OBVIOUS
  <2>4. w[j] \in Elements(u, Len(u))
    BY <2>2, <2>3 DEF Elements
  <2>5. QED
    BY <2>1, <2>2, <2>3, <2>4
<1>5. ASSUME NEW x \in 1..Len(u), NEW y \in 1..Len(u), u[x] > u[y] PROVE x < y
  <2>1. u[x] \in Nat /\ u[y] \in Nat
    OBVIOUS
  <2>2. ~(y < x) /\ x # y
    BY <1>5, <2>1 DEF Decreasing
  <2>3. QED
    BY <2>2
<1>6. ASSUME NEW x \in 1..Len(w), NEW y \in 1..Len(w), w[x] > w[y] PROVE x < y
  <2>1. w[x] \in Nat /\ w[y] \in Nat
    OBVIOUS
  <2>2. ~(y < x) /\ x # y
    BY <1>6, <2>1 DEF Decreasing
  <2>3. QED
    BY <2>2
<1>7. ASSUME NEW j \in 1..Len(w)
      PROVE  Cardinality({r \in S : r > w[j]}) < limit
  <2>1. PICK k \in 1..Len(u) : k <= m /\ u[k] = w[j]
    BY <1>4
  <2>2. ASSUME NEW r \in S, r > w[j] PROVE r \in Elements(w, j - 1)
    <3>1. PICK x \in 1..Len(u) : u[x] = r
      BY <1>2
    <3>2. x < k
      BY <1>5, <2>1, <2>2, <3>1
    <3>3. x <= m
      BY <2>1, <3>2
    <3>4. PICK y \in 1..Len(w) : w[y] = r
      BY <1>3, <3>1, <3>3
    <3>5. y < j
      BY <1>6, <2>2, <3>4
    <3>6. y \in 1..(j - 1)
      BY <3>5
    <3>7. QED
      BY <3>4, <3>6 DEF Elements
  <2>3. j - 1 \in 0..Len(w) /\ j - 1 < limit
    OBVIOUS
  <2>4. IsFiniteSet(Elements(w, j - 1)) /\ Cardinality(Elements(w, j - 1)) = j - 1
    BY <2>3, ElementsCounted
  <2>5. PICK T : T = {r \in S : r > w[j]}
    OBVIOUS
  <2>6. T \in SUBSET Elements(w, j - 1)
    BY <2>2, <2>5
  <2>7. IsFiniteSet(T) /\ Cardinality(T) <= j - 1
    BY <2>4, <2>6, FS_Subset
  <2>8. Cardinality(T) \in Nat
    BY <2>7, FS_CardinalityType
  <2>9. Cardinality(T) < limit
    BY <2>3, <2>7, <2>8
  <2>10. QED
    BY <2>5, <2>9
<1>8. ASSUME NEW s \in S, s \notin Elements(w, Len(w))
      PROVE  ~(Cardinality({r \in S : r > s}) < limit)
  <2>1. PICK k \in 1..Len(u) : u[k] = s
    BY <1>2
  <2>2. ~(k <= m)
    <3>1. SUFFICES ASSUME k <= m PROVE FALSE
      OBVIOUS
    <3>2. PICK j \in 1..Len(w) : w[j] = s
      BY <1>3, <2>1, <3>1
    <3>3. QED
      BY <1>8, <3>2 DEF Elements
  <2>3. m < Len(u) /\ Len(w) = limit
    BY <2>2
  <2>4. PICK T : T = {r \in S : r > s}
    OBVIOUS
  <2>5. ASSUME NEW j \in 1..Len(w) PROVE w[j] \in T
    <3>1. PICK x \in 1..Len(u) : x <= m /\ u[x] = w[j]
      BY <1>4
    <3>2. x < k
      BY <2>2, <3>1
    <3>3. u[k] < u[x]
      BY <3>2 DEF Decreasing
    <3>4. w[j] \in S /\ w[j] \in Nat /\ s \in Nat
      BY <1>1, <1>4
    <3>5. w[j] > s
      BY <2>1, <3>1, <3>3, <3>4
    <3>6. QED
      BY <2>4, <3>4, <3>5
  <2>6. Elements(w, Len(w)) \in SUBSET T
    BY <2>5 DEF Elements
  <2>7. IsFiniteSet(T)
    <3>1. T \in SUBSET S
      BY <2>4
    <3>2. QED
      BY <1>1, <3>1, FS_Subset
  <2>8. Cardinality(Elements(w, Len(w))) = limit
    <3>1. Len(w) \in 0..Len(w)
      OBVIOUS
    <3>2. QED
      BY <2>3, <3>1, ElementsCounted
  <2>9. Cardinality(Elements(w, Len(w))) <= Cardinality(T)
    BY <2>6, <2>7, FS_Subset
  <2>10. Cardinality(T) \in Nat
    BY <2>7, FS_CardinalityType
  <2>11. ~(Cardinality(T) < limit)
    BY <2>8, <2>9, <2>10
  <2>12. QED
    BY <2>4, <2>11
<1>9. \A s \in Elements(w, Len(w)) : s \in S /\ Cardinality({r \in S : r > s}) < limit
  BY <1>4, <1>7 DEF Elements
<1>10. QED
  BY <1>8, <1>9 DEF LatestIn

(* What goes back in time, reversed. *)
LEMMA ReversedIncreases ==
    ASSUME NEW w \in Seq(Nat), Decreasing(w)
    PROVE  /\ Reverse(w) \in Seq(Nat) /\ Len(Reverse(w)) = Len(w)
           /\ DOMAIN Reverse(w) = 1..Len(w)
           /\ \A i, j \in 1..Len(w) : i < j => Reverse(w)[i] < Reverse(w)[j]
           /\ Range(Reverse(w)) = Elements(w, Len(w))
<1>1. PICK n \in Nat : n = Len(w)
  OBVIOUS
<1>2. PICK v : v = [i \in 1..n |-> w[(n - i) + 1]]
  OBVIOUS
<1>3. Reverse(w) = v
  BY <1>1, <1>2 DEF Reverse
<1>4. \A i \in 1..n : (n - i) + 1 \in 1..n /\ w[(n - i) + 1] \in Nat
  BY <1>1
<1>5. v \in [1..n -> Nat]
  BY <1>2, <1>4
<1>6. v \in Seq(Nat) /\ Len(v) = n /\ DOMAIN v = 1..n
  BY <1>2, <1>5
<1>7. ASSUME NEW i \in 1..n, NEW j \in 1..n, i < j PROVE v[i] < v[j]
  <2>1. (n - j) + 1 < (n - i) + 1
    BY <1>7
  <2>2. (n - j) + 1 \in 1..Len(w) /\ (n - i) + 1 \in 1..Len(w)
    BY <1>1, <1>4
  <2>3. w[(n - i) + 1] < w[(n - j) + 1]
    BY <2>1, <2>2 DEF Decreasing
  <2>4. QED
    BY <1>2, <2>3
<1>8. Range(v) = Elements(w, n)
  <2>1. ASSUME NEW r \in Range(v) PROVE r \in Elements(w, n)
    <3>1. PICK i \in 1..n : r = v[i]
      BY <1>6, <2>1 DEF Range
    <3>2. r = w[(n - i) + 1] /\ (n - i) + 1 \in 1..n
      BY <1>2, <1>4, <3>1
    <3>3. QED
      BY <3>2 DEF Elements
  <2>2. ASSUME NEW r \in Elements(w, n) PROVE r \in Range(v)
    <3>1. PICK k \in 1..n : r = w[k]
      BY <2>2 DEF Elements
    <3>2. PICK i \in 1..n : i = (n - k) + 1
      BY <1>4
    <3>3. (n - i) + 1 = k
      BY <3>2
    <3>4. v[i] = r
      BY <1>2, <3>1, <3>3
    <3>5. QED
      BY <1>6, <3>4 DEF Range
  <2>3. QED
    BY <2>1, <2>2
<1>9. QED
  BY <1>1, <1>3, <1>6, <1>7, <1>8

(* From one index of a series down to another the times go back. *)
LEMMA BackwardsDecreasing ==
    ASSUME ReportsInv, NEW q \in QueryId, NEW end \in Nat, end < count[q], NEW start \in Nat
    PROVE  LET u == Backwards(q, end, start)
           IN  /\ u \in Seq(Nat) /\ Decreasing(u)
               /\ Elements(u, Len(u)) = {byIndex[q][i] : i \in start..end}
<1>1. Sorted(q)
  BY SeriesSorted
<1>2. PICK n \in Nat : n = IF end + 1 >= start THEN (end + 1) - start ELSE 0
  <2>1. CASE end + 1 >= start
    <3>1. (end + 1) - start \in Nat
      BY <2>1
    <3>2. QED
      BY <2>1, <3>1
  <2>2. CASE ~(end + 1 >= start)
    BY <2>2
  <2>3. QED
    BY <2>1, <2>2
<1>3. 1..(end + 1 - start) = 1..n
  BY <1>2
<1>4. \A k \in 1..n : /\ (end + 1) - k \in start..end /\ end + 1 - k = (end + 1) - k
                      /\ (end + 1) - k \in Nat /\ (end + 1) - k < count[q]
  BY <1>1, <1>2 DEF Sorted
<1>5. \A i \in start..end : (end + 1) - i \in 1..n /\ (end + 1) - ((end + 1) - i) = i
  BY <1>2
<1>6. PICK u : u = Backwards(q, end, start)
  OBVIOUS
<1>7. u = [k \in 1..n |-> byIndex[q][(end + 1) - k]]
  BY <1>3, <1>4, <1>6 DEF Backwards
<1>8. \A k \in 1..n : byIndex[q][(end + 1) - k] \in Nat
  BY <1>1, <1>4 DEF Sorted
<1>9. u \in Seq(Nat) /\ Len(u) = n /\ \A k \in 1..n : u[k] = byIndex[q][(end + 1) - k]
  <2>1. u \in [1..n -> Nat]
    BY <1>7, <1>8
  <2>2. QED
    BY <1>7, <2>1
<1>10. Decreasing(u)
  <2>1. ASSUME NEW i \in 1..n, NEW j \in 1..n, i < j PROVE u[j] < u[i]
    <3>1. (end + 1) - j < (end + 1) - i
      BY <2>1
    <3>2. byIndex[q][(end + 1) - j] < byIndex[q][(end + 1) - i]
      BY <1>1, <1>4, <3>1 DEF Sorted
    <3>3. QED
      BY <1>9, <3>2
  <2>2. QED
    BY <1>9, <2>1 DEF Decreasing
<1>11. Elements(u, n) = {byIndex[q][i] : i \in start..end}
  <2>1. ASSUME NEW r \in Elements(u, n) PROVE r \in {byIndex[q][i] : i \in start..end}
    <3>1. PICK k \in 1..n : r = u[k]
      BY <2>1 DEF Elements
    <3>2. QED
      BY <1>4, <1>9, <3>1
  <2>2. ASSUME NEW i \in start..end PROVE byIndex[q][i] \in Elements(u, n)
    <3>1. PICK k \in 1..n : k = (end + 1) - i /\ (end + 1) - k = i
      BY <1>5
    <3>2. u[k] = byIndex[q][i]
      BY <1>9, <3>1
    <3>3. QED
      BY <3>2 DEF Elements
  <2>3. QED
    BY <2>1, <2>2
<1>12. QED
  BY <1>6, <1>9, <1>10, <1>11

(* The undisputed times from the first index after `oldest` to the last    *)
(* one before t are those between the two.                                 *)
LEMMA UndisputedBetween ==
    ASSUME ReportsInv, NEW q \in QueryId, NEW t \in Nat, NEW oldest \in Nat,
           NEW start \in Nat, start < count[q], NEW end \in Nat, end < count[q],
           byIndex[q][start] > oldest, \A s \in Undisputed(q) : s > oldest => byIndex[q][start] <= s,
           byIndex[q][end] < t, \A s \in UndisputedBefore(q, t) : s <= byIndex[q][end]
    PROVE  {byIndex[q][i] : i \in start..end} \cap {s \in Nat : ~IsInDispute(q, s)}
              = {s \in UndisputedBefore(q, t) : s > oldest}
<1>1. Sorted(q)
  BY SeriesSorted
<1>2. ASSUME NEW i \in start..end, ~IsInDispute(q, byIndex[q][i])
      PROVE  byIndex[q][i] \in UndisputedBefore(q, t) /\ byIndex[q][i] > oldest
  <2>1. i \in Nat /\ i < count[q] /\ start <= i /\ i <= end
    BY <1>1, <1>2 DEF Sorted
  <2>2. /\ byIndex[q][i] \in DOMAIN reports[q] /\ byIndex[q][i] \in Nat
        /\ byIndex[q][start] \in Nat /\ byIndex[q][end] \in Nat
    BY <1>1, <2>1, SeriesIndexed DEF Sorted
  <2>3. ~reports[q][byIndex[q][i]].is_disputed
    BY <1>2, <2>2 DEF IsInDispute
  <2>4. byIndex[q][start] <= byIndex[q][i]
    BY <1>1, <2>1, <2>2 DEF Sorted
  <2>5. byIndex[q][i] <= byIndex[q][end]
    BY <1>1, <2>1, <2>2 DEF Sorted
  <2>6. byIndex[q][i] > oldest /\ byIndex[q][i] < t
    BY <2>2, <2>4, <2>5
  <2>7. QED
    BY <2>2, <2>3, <2>6 DEF UndisputedBefore
<1>3. ASSUME NEW s \in UndisputedBefore(q, t), s > oldest
      PROVE  s \in Nat /\ ~IsInDispute(q, s) /\ \E i \in start..end : byIndex[q][i] = s
  <2>1. s \in DOMAIN reports[q] /\ ~reports[q][s].is_disputed /\ s \in Undisputed(q)
    BY DEF UndisputedBefore, Undisputed
  <2>2. PICK i \in Nat : i < count[q] /\ byIndex[q][i] = s
    BY <2>1, SeriesIndexed
  <2>3. s \in Nat /\ byIndex[q][start] \in Nat /\ byIndex[q][end] \in Nat
    BY <1>1, <2>2 DEF Sorted
  <2>4. byIndex[q][start] <= s /\ s <= byIndex[q][end]
    BY <1>3, <2>1
  <2>5. ~(i < start)
    BY <1>1, <2>2, <2>3, <2>4 DEF Sorted
  <2>6. ~(end < i)
    BY <1>1, <2>2, <2>3, <2>4 DEF Sorted
  <2>7. i \in start..end
    BY <2>5, <2>6
  <2>8. QED
    BY <2>1, <2>2, <2>3, <2>7 DEF IsInDispute
<1>4. QED
  BY <1>2, <1>3

(* What get_multiple_values_before should return for one query. *)
MultipleRight(q, t, maxAge, maxCount) ==
    LET oldest == IF t < maxAge THEN 0 ELSE t - maxAge
        result == GetMultipleValuesBefore(q, t, maxAge, maxCount)
    IN  /\ \A i, j \in DOMAIN result : i < j => result[i] < result[j]
        /\ Range(result) = LatestIn({s \in UndisputedBefore(q, t) : s > oldest}, maxCount)

(* get_multiple_values_before returns the latest max_count undisputed      *)
(* values of the range, in increasing order of time.                       *)
LEMMA MultipleFound ==
    ASSUME ReportsInv, NEW q \in QueryId, NEW t \in Nat, NEW maxAge \in Nat, NEW maxCount \in Nat
    PROVE  MultipleRight(q, t, maxAge, maxCount)
<1>1. PICK oldest \in Nat : oldest = IF t < maxAge THEN 0 ELSE t - maxAge
  OBVIOUS
<1>2. PICK S : S = {s \in UndisputedBefore(q, t) : s > oldest}
  OBVIOUS
<1>3. PICK start, end : start = GetIndexForDataAfter(q, oldest) /\ end = GetIndexForDataBefore(q, t)
  OBVIOUS
<1>4. PICK u, w, result : /\ u = Backwards(q, end, start)
                          /\ w = Kept(u, {s \in Nat : ~IsInDispute(q, s)}, maxCount)
                          /\ result = GetMultipleValuesBefore(q, t, maxAge, maxCount)
  OBVIOUS
<1>5. result = IF start = None \/ end = None THEN <<>> ELSE Kept(Reverse(w), values[q], Len(w))
  BY <1>1, <1>3, <1>4, Zenon DEF GetMultipleValuesBefore
<1>6. UndisputedBefore(q, t) \subseteq Undisputed(q)
  BY DEF UndisputedBefore, Undisputed
<1>7. CASE start = None \/ end = None
  <2>1. S = {}
    <3>1. CASE start = None
      <4>1. {s \in Undisputed(q) : s > oldest} = {}
        BY <1>3, <3>1, IndexAfterFound, ReportsAssumption
      <4>2. QED
        BY <1>2, <1>6, <4>1
    <3>2. CASE end = None
      <4>1. UndisputedBefore(q, t) = {}
        BY <1>3, <3>2, IndexBeforeAny, ReportsAssumption
      <4>2. QED
        BY <1>2, <4>1
    <3>3. QED
      BY <1>7, <3>1, <3>2
  <2>2. result = <<>>
    BY <1>5, <1>7
  <2>3. DOMAIN result = {}
    BY <2>2
  <2>4. Range(result) = {}
    BY <2>3 DEF Range
  <2>5. QED
    <3>1. LatestIn(S, maxCount) = {}
      BY <2>1 DEF LatestIn
    <3>2. QED
      BY <1>1, <1>2, <1>4, <2>3, <2>4, <3>1, Zenon DEF MultipleRight
<1>8. CASE start # None /\ end # None
  <2>1. /\ start \in Nat /\ start < count[q] /\ byIndex[q][start] > oldest
        /\ \A s \in Undisputed(q) : s > oldest => byIndex[q][start] <= s
    BY <1>3, <1>8, IndexAfterFound
  <2>2. end \in Nat /\ end < count[q] /\ IsLatest(byIndex[q][end], UndisputedBefore(q, t))
    BY <1>3, <1>8, IndexBeforeAny
  <2>3. byIndex[q][end] # None
    BY <2>2, SeriesSorted, ReportsAssumption DEF Sorted
  <2>4. byIndex[q][end] < t /\ \A s \in UndisputedBefore(q, t) : s <= byIndex[q][end]
    BY <2>2, <2>3 DEF IsLatest, UndisputedBefore
  <2>5. {byIndex[q][i] : i \in start..end} \cap {s \in Nat : ~IsInDispute(q, s)} = S
    BY <1>2, <2>1, <2>2, <2>4, UndisputedBetween
  <2>6. PICK wanted : wanted = {s \in Nat : ~IsInDispute(q, s)}
    OBVIOUS
  <2>7. u \in Seq(Nat) /\ Decreasing(u) /\ Elements(u, Len(u)) = {byIndex[q][i] : i \in start..end}
    BY <1>4, <2>1, <2>2, BackwardsDecreasing
  <2>8. S = Elements(u, Len(u)) \cap wanted
    BY <2>5, <2>6, <2>7
  <2>9. w = Kept(u, wanted, maxCount)
    BY <1>4, <2>6
  <2>10. /\ w \in Seq(Nat) /\ Decreasing(w) /\ Len(w) <= maxCount
         /\ \E m \in 0..Len(u) : /\ Elements(w, Len(w)) = Elements(u, m) \cap wanted
                                 /\ m < Len(u) => Len(w) = maxCount
    BY ONLY <2>7, <2>9, maxCount \in Nat, KeptDecreasing
  <2>11. PICK m \in 0..Len(u) : Picks(w, u, m, wanted) /\ (m < Len(u) => Len(w) = maxCount)
    BY <2>10 DEF Picks
  <2>12. Elements(w, Len(w)) = LatestIn(S, maxCount)
    <3>1. u \in Seq(Nat) /\ Decreasing(u) /\ w \in Seq(Nat) /\ Decreasing(w) /\ Len(w) <= maxCount
      BY <2>7, <2>10
    <3>2. QED
      BY ONLY <2>8, <2>11, <3>1, m \in 0..Len(u), maxCount \in Nat, KeptAreLatest
  <2>13. PICK v : v = Reverse(w)
    OBVIOUS
  <2>14. /\ v \in Seq(Nat) /\ Len(v) = Len(w) /\ DOMAIN v = 1..Len(w)
         /\ \A i, j \in 1..Len(w) : i < j => v[i] < v[j]
         /\ Range(v) = Elements(w, Len(w))
    BY ONLY <2>10, <2>13, ReversedIncreases
  <2>15. \A i \in 1..Len(v) : v[i] \in values[q]
    <3>1. Elements(w, Len(w)) \subseteq Undisputed(q)
      BY <1>2, <1>6, <2>12 DEF LatestIn
    <3>2. values[q] = Undisputed(q)
      BY DEF ReportsInv, ValueIffUndisputed
    <3>3. \A i \in 1..Len(v) : v[i] \in Range(v)
      BY <2>14 DEF Range
    <3>4. QED
      BY <2>14, <3>1, <3>2, <3>3
  <2>16. Kept(v, values[q], Len(v)) = v
    BY ONLY <2>14, <2>15, KeptAll
  <2>17. result = v
    BY <1>5, <1>8, <2>13, <2>14, <2>16
  <2>18. QED
    BY <1>1, <1>2, <1>4, <2>12, <2>14, <2>17, Zenon DEF MultipleRight
<1>9. QED
  BY <1>7, <1>8

(* In every state of the report store's invariant. *)
LEMMA MultipleInv == ReportsInv => MultipleValuesAreTheLatest
<1> SUFFICES ASSUME ReportsInv, NEW q \in QueryId, NEW t \in QueryTimes, NEW maxAge \in 0..MaxTime,
                    NEW maxCount \in MaxCounts
             PROVE  MultipleRight(q, t, maxAge, maxCount)
  BY Zenon DEF MultipleValuesAreTheLatest, MultipleRight, LatestIn
<1>1. t \in Nat /\ maxAge \in Nat /\ maxCount \in Nat
  BY ReportsAssumption, LookupAssumption DEF QueryTimes
<1>2. QED
  BY ONLY <1>1, ReportsInv, q \in QueryId, MultipleFound, Zenon

-----------------------------------------------------------------------------
(* What was reported before a time as long ago as the reporting lock is    *)
(* settled as a whole: nothing is added to it and nothing taken away.      *)
LEMMA SeriesSettled ==
    ASSUME ReportsInv, [ReportsNext]_reportsVars, NEW q \in QueryId, NEW t \in Nat,
           now - (t - 1) >= ReportingLock
    PROVE  UndisputedBefore(q, t)' = UndisputedBefore(q, t)
<1>1. ReportingLock \in Nat \ {0}
  BY ReportsAssumption
<1>2. /\ now \in Nat
      /\ DOMAIN reports[q] \subseteq DOMAIN reports'[q]
      /\ DOMAIN reports'[q] \subseteq DOMAIN reports[q] \cup {now}
      /\ \A s \in DOMAIN reports[q] : now - s >= ReportingLock => reports'[q][s] = reports[q][s]
  BY SeriesStep
<1>3. \A s \in DOMAIN reports[q] : s \in Nat
  BY SeriesIndexed
<1>4. \A s \in DOMAIN reports[q] : s < t => reports'[q][s] = reports[q][s]
  BY <1>1, <1>2, <1>3
<1>5. ~(now < t)
  BY <1>1, <1>2
<1>6. QED
  BY <1>2, <1>4, <1>5 DEF UndisputedBefore

(* However long the series, whatever is disputed and whatever the time     *)
(* asked for, get_data_before's binary search and the repaired back        *)
(* pointers lead to the latest undisputed value before it, and             *)
(* get_current_value returns the latest of all.                            *)
THEOREM DataBeforeCorrect == ReportsSpec => []DataBeforeIsLatest
  BY InitInv, StepInv, DataBeforeInv, PTL DEF ReportsSpec

(* The same for get_data_after: its binary search and its loop over        *)
(* disputed values lead to the earliest undisputed value after the time.   *)
THEOREM DataAfterCorrect == ReportsSpec => []DataAfterIsEarliest
  BY InitInv, StepInv, DataAfterInv, PTL DEF ReportsSpec

(* The same for get_multiple_values_before: the two searches bound the     *)
(* range, the first loop drops the disputed values and stops at max_count, *)
(* the second loses nothing, and what is returned are the latest values of *)
(* the range in increasing order, for every range and every limit.         *)
THEOREM MultipleValuesCorrect == ReportsSpec => []MultipleValuesAreTheLatest
  BY InitInv, StepInv, MultipleInv, PTL DEF ReportsSpec

(* What get_data_before answers for a time a reporting lock ago is final.  *)
THEOREM SettledDataCorrect == ReportsSpec => SettledDataIsFinal
<1> DEFINE Final == \A q \in QueryId, t \in QueryTimes :
                       now - (t - 1) >= ReportingLock => GetDataBefore(q, t)' = GetDataBefore(q, t)
<1>1. /\ ReportsInv /\ DataBeforeIsLatest /\ DataBeforeIsLatest'
      /\ [ReportsNext]_reportsVars
      => Final
  <2> SUFFICES ASSUME ReportsInv, DataBeforeIsLatest, DataBeforeIsLatest', [ReportsNext]_reportsVars,
                      NEW q \in QueryId, NEW t \in QueryTimes, now - (t - 1) >= ReportingLock
               PROVE  GetDataBefore(q, t)' = GetDataBefore(q, t)
    OBVIOUS
  <2>1. /\ GetDataBefore(q, t) = LatestOf(UndisputedBefore(q, t))
        /\ GetDataBefore(q, t)' = LatestOf(UndisputedBefore(q, t)')
    BY DEF DataBeforeIsLatest, LatestOf
  <2>2. t \in Nat
    BY ReportsAssumption DEF QueryTimes
  <2>3. QED
    BY <2>1, <2>2, SeriesSettled
<1>2. QED
  BY <1>1, InitInv, StepInv, DataBeforeInv, PTL DEF ReportsSpec, SettledDataIsFinal
=============================================================================
