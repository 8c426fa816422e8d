--------------------------- MODULE ReportsProofs ---------------------------
(* Proofs about the report store, for all values of the constants. *)
EXTENDS Reports, TLAPS

(* What makes the invariants of the report store inductive together: the   *)
(* back pointers are repaired by index, so their proof needs the index to  *)
(* be in step with the reports, and the search for the reports to repair   *)
(* needs the back pointers' meaning.                                       *)
ReportsInv ==
    /\ ReportsTypeOK
    /\ IndexConsistent
    /\ PreviousIsLatestUndisputed
    /\ LastIsLatestUndisputed
    /\ ValueIffUndisputed

(* The report store starts in the invariant: nothing is stored. *)
LEMMA InitInv == ReportsInit => ReportsInv
  BY ReportsAssumption
  DEF ReportsInit, ReportsInv, ReportsTypeOK, IndexConsistent, PreviousIsLatestUndisputed,
      LastIsLatestUndisputed, ValueIffUndisputed, IsLatest, Undisputed, UndisputedBefore,
      Timestamp, MaybeTimestamp, Report

(* What submit_value leaves in the store, item by item. *)
Appended(a, q) ==
    /\ now \notin DOMAIN reports[q]
    /\ count'[q] = count[q] + 1
    /\ byIndex'[q] = [i \in 0..count[q] |-> IF i = count[q] THEN now ELSE byIndex[q][i]]
    /\ DOMAIN reports'[q] = DOMAIN reports[q] \cup {now}
    /\ reports'[q][now] = [index |-> count[q], reporter |-> a,
                           is_disputed |-> FALSE, previous |-> lastReported[q]]
    /\ \A t \in DOMAIN reports[q] : reports'[q][t] = reports[q][t]
    /\ lastReported'[q] = now
    /\ values'[q] = values[q] \cup {now}
    /\ \A p \in QueryId \ {q} : /\ count'[p] = count[p] /\ byIndex'[p] = byIndex[p]
                                /\ reports'[p] = reports[p]
                                /\ lastReported'[p] = lastReported[p]
                                /\ values'[p] = values[p]

(* submit_value has that effect. *)
LEMMA SubmitEffect ==
    ASSUME ReportsTypeOK, NEW a \in Account, NEW q \in QueryId, NEW m, SubmitValue(a, q, m)
    PROVE  Appended(a, q)
  BY DEF SubmitValue, AppendReport, NewReport, ReportsTypeOK, Appended

(* What remove_value leaves in the store, item by item, when its loop ends *)
(* at index stop.                                                          *)
Removed(q, t, stop) ==
    /\ t \in DOMAIN reports[q] /\ ~reports[q][t].is_disputed
    /\ stop \in (reports[q][t].index + 1)..count[q]
    /\ \A j \in (reports[q][t].index + 1)..(stop - 1) : IsDisputedAt(q, j)
    /\ stop < count[q] => ~IsDisputedAt(q, stop)
    /\ reports'[q] = Relinked(q, t, reports[q][t].index + 1, stop)
    /\ lastReported'[q] = IF lastReported[q] = t THEN reports[q][t].previous ELSE lastReported[q]
    /\ values'[q] = values[q] \ {t}
    /\ count' = count /\ byIndex' = byIndex
    /\ \A p \in QueryId \ {q} : /\ reports'[p] = reports[p]
                                /\ lastReported'[p] = lastReported[p]
                                /\ values'[p] = values[p]

(* remove_value has that effect. *)
LEMMA RemoveEffect ==
    ASSUME ReportsTypeOK, NEW q \in QueryId, NEW t, RemoveValue(q, t)
    PROVE  \E stop : Removed(q, t, stop)
<1> DEFINE start == reports[q][t].index + 1
<1>1. PICK stop \in start..count[q] :
         /\ SeriesEndsAt(q, start, stop)
         /\ reports' = [reports EXCEPT ![q] = Relinked(q, t, start, stop)]
  BY Zenon DEF RemoveValue, DisputeReport
<1>2. reports'[q] = Relinked(q, t, start, stop) /\ \A p \in QueryId \ {q} : reports'[p] = reports[p]
  BY <1>1 DEF ReportsTypeOK
<1>3. /\ t \in DOMAIN reports[q] /\ ~reports[q][t].is_disputed
      /\ count' = count /\ byIndex' = byIndex
  BY DEF RemoveValue, DisputeReport
<1>4. /\ lastReported' = [lastReported EXCEPT ![q] = LastWithout(q, t)]
      /\ values' = [values EXCEPT ![q] = @ \ {t}]
  BY DEF RemoveValue, DisputeReport
<1>5. Removed(q, t, stop)
  BY <1>1, <1>2, <1>3, <1>4 DEF ReportsTypeOK, Removed, SeriesEndsAt, LastWithout
<1>6. QED
  BY <1>5

(* submit_value appends at the current time, later than every report of    *)
(* the query, and links the new report to the last undisputed one.         *)
LEMMA SubmitInv ==
    ASSUME ReportsInv, NEW a \in Account, NEW q \in QueryId, NEW m, SubmitValue(a, q, m), now' = now
    PROVE  ReportsInv'
<1> USE DEF ReportsInv
<1>0. Appended(a, q)
  BY SubmitEffect
<1>1. ReportsTypeOK'
  <2>1. count' \in [QueryId -> Nat]
    BY DEF SubmitValue, AppendReport, NewReport, RecordSubmission, ReportsTypeOK
  <2>2. DOMAIN byIndex' = QueryId /\ DOMAIN reports' = QueryId
    BY DEF SubmitValue, AppendReport, NewReport, RecordSubmission, ReportsTypeOK
  <2>3. ASSUME NEW p \in QueryId PROVE byIndex'[p] \in [0..(count'[p] - 1) -> Timestamp]
    <3>1. CASE p = q
      <4>1. 0..(count'[q] - 1) = 0..count[q] /\ \A i \in 0..count[q] : i # count[q] => i \in 0..(count[q] - 1)
        BY <1>0 DEF Appended, ReportsTypeOK
      <4>2. now \in Timestamp /\ byIndex[q] \in [0..(count[q] - 1) -> Timestamp]
        BY <1>0 DEF Appended, ReportsTypeOK
      <4>3. byIndex'[q] = [i \in 0..count[q] |-> IF i = count[q] THEN now ELSE byIndex[q][i]]
        BY <1>0 DEF Appended
      <4>4. QED
        BY ONLY <3>1, <4>1, <4>2, <4>3
    <3>2. CASE p # q
      BY <1>0, <3>2 DEF Appended, ReportsTypeOK
    <3>3. QED
      BY <3>1, <3>2
  <2>4. ASSUME NEW p \in QueryId
        PROVE  DOMAIN reports'[p] \subseteq Timestamp /\ reports'[p] \in [DOMAIN reports'[p] -> Report]
    <3>1. [index |-> count[q], reporter |-> a, is_disputed |-> FALSE, previous |-> lastReported[q]] \in Report
      BY DEF ReportsTypeOK, Report
    <3>2. CASE p = q
      <4>1. reports'[q] = [t \in DOMAIN reports[q] \cup {now} |->
                        IF t = now
                        THEN [index |-> count[q], reporter |-> a,
                              is_disputed |-> FALSE, previous |-> lastReported[q]]
                        ELSE reports[q][t]]
        BY DEF SubmitValue, AppendReport, NewReport, RecordSubmission, ReportsTypeOK
      <4>2. QED
        BY <3>1, <3>2, <4>1 DEF ReportsTypeOK
    <3>3. CASE p # q
      BY <3>3, <1>0 DEF Appended, ReportsTypeOK
    <3>4. QED
      BY <3>2, <3>3
  <2>5. values' \in [QueryId -> SUBSET Timestamp] /\ lastReported' \in [QueryId -> MaybeTimestamp]
    BY DEF SubmitValue, AppendReport, NewReport, RecordSubmission, ReportsTypeOK, MaybeTimestamp
  <2>6. timeOfLastNewValue' \in MaybeTimestamp /\ lastTimestamp' \in [Account -> Timestamp]
    BY DEF SubmitValue, AppendReport, NewReport, RecordSubmission, ReportsTypeOK, MaybeTimestamp
  <2>7. submitted' \in [Account -> Nat] /\ submittedBy' \in [Account -> [QueryId -> Nat]]
    BY DEF SubmitValue, AppendReport, NewReport, RecordSubmission, ReportsTypeOK
  <2>8. QED
    BY <2>1, <2>2, <2>3, <2>4, <2>5, <2>6, <2>7 DEF ReportsTypeOK
<1>2. IndexConsistent'
  <2> SUFFICES ASSUME NEW p \in QueryId
               PROVE  /\ \A t \in DOMAIN reports'[p] : /\ reports'[p][t].index < count'[p]
                                                     /\ byIndex'[p][reports'[p][t].index] = t
                                                     /\ t <= now'
                      /\ \A i \in 0..(count'[p] - 1) : /\ byIndex'[p][i] \in DOMAIN reports'[p]
                                                      /\ reports'[p][byIndex'[p][i]].index = i
                      /\ \A i, j \in 0..(count'[p] - 1) : i < j => byIndex'[p][i] < byIndex'[p][j]
    BY DEF IndexConsistent
  <2>1. CASE p = q
    <3>1. /\ count[q] \in Nat /\ count'[q] = count[q] + 1 /\ now \in Nat
          /\ byIndex'[q][count[q]] = now
          /\ \A i \in 0..(count[q] - 1) : byIndex'[q][i] = byIndex[q][i]
      BY <1>0 DEF Appended, ReportsTypeOK, Timestamp
    <3>2. \A t \in DOMAIN reports[q] : reports[q][t].index \in 0..(count[q] - 1) /\ t \in Nat /\ t < now
      BY <1>0 DEF Appended, ReportsTypeOK, Timestamp, IndexConsistent, Report
    <3>3. \A t \in DOMAIN reports'[q] : /\ reports'[q][t].index < count'[q]
                                       /\ byIndex'[q][reports'[q][t].index] = t
                                       /\ t <= now'
      BY <1>0, <3>1, <3>2 DEF Appended, IndexConsistent
    <3>4. \A i \in 0..(count'[q] - 1) : /\ byIndex'[q][i] \in DOMAIN reports'[q]
                                       /\ reports'[q][byIndex'[q][i]].index = i
      BY <1>0, <3>1, <3>2 DEF Appended, IndexConsistent
    <3>5. \A i, j \in 0..(count'[q] - 1) : i < j => byIndex'[q][i] < byIndex'[q][j]
      BY <3>1, <3>2 DEF IndexConsistent
    <3>6. QED
      BY <2>1, <3>3, <3>4, <3>5
  <2>2. CASE p # q
    BY <1>0, <2>2 DEF Appended, IndexConsistent
  <2>3. QED
    BY <2>1, <2>2
<1>3. PreviousIsLatestUndisputed'
  <2> SUFFICES ASSUME NEW p \in QueryId, NEW t \in DOMAIN reports'[p]
               PROVE  IsLatest(reports'[p][t].previous, UndisputedBefore(p, t)')
    BY DEF PreviousIsLatestUndisputed, IsLatest
  <2>1. CASE p = q /\ t = now
    <3>1. UndisputedBefore(p, t)' = Undisputed(p)
      BY <2>1, <1>0 DEF Appended, IndexConsistent, UndisputedBefore, Undisputed, ReportsTypeOK, Timestamp
    <3>2. QED
      BY <2>1, <3>1, <1>0 DEF Appended, LastIsLatestUndisputed
  <2>2. CASE ~(p = q /\ t = now)
    <3>1. t \in DOMAIN reports[p] /\ reports'[p][t] = reports[p][t]
      BY <2>2, <1>0 DEF Appended
    <3>2. UndisputedBefore(p, t)' = UndisputedBefore(p, t)
      BY <2>2, <3>1, <1>0 DEF Appended, IndexConsistent, UndisputedBefore, ReportsTypeOK, Timestamp
    <3>3. QED
      BY <3>1, <3>2 DEF PreviousIsLatestUndisputed
  <2>3. QED
    BY <2>1, <2>2
<1>4. LastIsLatestUndisputed'
  <2> SUFFICES ASSUME NEW p \in QueryId
               PROVE  IsLatest(lastReported'[p], Undisputed(p)')
    BY DEF LastIsLatestUndisputed, IsLatest
  <2>1. CASE p = q
    <3>1. Undisputed(p)' = Undisputed(p) \cup {now}
      BY <2>1, <1>0 DEF Appended, Undisputed
    <3>2. lastReported'[p] = now /\ now # None
      BY <2>1, <1>0, ReportsAssumption DEF Appended, ReportsTypeOK, Timestamp
    <3>3. \A s \in Undisputed(p) : s <= now
      BY DEF Undisputed, IndexConsistent
    <3>4. now <= now
      BY DEF ReportsTypeOK, Timestamp
    <3>5. QED
      BY ONLY <3>1, <3>2, <3>3, <3>4 DEF IsLatest
  <2>2. CASE p # q
    <3>1. reports'[p] = reports[p] /\ lastReported'[p] = lastReported[p]
      BY <2>2, <1>0 DEF Appended
    <3>2. Undisputed(p)' = Undisputed(p)
      BY ONLY <3>1 DEF Undisputed
    <3>3. IsLatest(lastReported[p], Undisputed(p))
      BY DEF LastIsLatestUndisputed
    <3>4. QED
      BY ONLY <3>1, <3>2, <3>3
  <2>3. QED
    BY <2>1, <2>2
<1>5. ValueIffUndisputed'
  BY <1>0 DEF Appended, ValueIffUndisputed, Undisputed
<1>6. QED
  BY <1>1, <1>2, <1>3, <1>4, <1>5

(* Below index stop every report after the removed one is disputed, so its *)
(* latest undisputed predecessor is the removed report's; above stop it is *)
(* the report at stop or a later one, which the removal leaves alone.      *)
LEMMA RemoveInv ==
    ASSUME ReportsInv, NEW q \in QueryId, NEW t, RemoveValue(q, t),
           UNCHANGED <<now, stakerVars>>
    PROVE  ReportsInv'
<1> USE DEF ReportsInv
<1>0. PICK stop : Removed(q, t, stop)
  BY RemoveEffect
<1> DEFINE index(s) == reports[q][s].index
<1>a. /\ DOMAIN reports'[q] = DOMAIN reports[q]
      /\ \A s \in DOMAIN reports[q] :
            /\ reports'[q][s].index = reports[q][s].index
            /\ reports'[q][s].reporter = reports[q][s].reporter
            /\ (reports'[q][s].is_disputed <=> (s = t \/ reports[q][s].is_disputed))
            /\ reports'[q][s].previous = IF s # t /\ index(s) \in (index(t) + 1)..stop
                                         THEN reports[q][t].previous
                                         ELSE reports[q][s].previous
            /\ reports'[q][s] \in Report
  <2>1. DOMAIN reports'[q] = DOMAIN reports[q]
    BY <1>0 DEF Removed, Relinked
  <2>2. ASSUME NEW s \in DOMAIN reports[q]
        PROVE  (\E j \in (index(t) + 1)..stop : j < count[q] /\ byIndex[q][j] = s)
                   <=> index(s) \in (index(t) + 1)..stop
    <3>1. /\ t \in DOMAIN reports[q] /\ index(t) \in Nat /\ index(s) \in Nat /\ count[q] \in Nat
          /\ index(s) < count[q] /\ byIndex[q][index(s)] = s
      BY <1>0 DEF Removed, ReportsTypeOK, IndexConsistent, Report
    <3>2. stop \in (index(t) + 1)..count[q]
      BY <1>0 DEF Removed
    <3>3. \A j \in (index(t) + 1)..stop : j < count[q] /\ byIndex[q][j] = s => index(s) = j
      BY <3>1, <3>2 DEF IndexConsistent
    <3>4. QED
      BY <3>1, <3>3
  <2>3. ASSUME NEW s \in DOMAIN reports[q]
        PROVE  reports'[q][s] = IF s = t THEN [reports[q][s] EXCEPT !.is_disputed = TRUE]
                                ELSE IF index(s) \in (index(t) + 1)..stop
                                THEN [reports[q][s] EXCEPT !.previous = reports[q][t].previous]
                                ELSE reports[q][s]
    BY <1>0, <2>2 DEF Removed, Relinked
  <2>4. t \in DOMAIN reports[q] /\ \A s \in DOMAIN reports[q] : reports[q][s] \in Report
    BY <1>0 DEF Removed, ReportsTypeOK
  <2>5. ASSUME NEW s \in DOMAIN reports[q]
        PROVE  /\ reports'[q][s].index = reports[q][s].index
               /\ reports'[q][s].reporter = reports[q][s].reporter
               /\ (reports'[q][s].is_disputed <=> (s = t \/ reports[q][s].is_disputed))
               /\ reports'[q][s].previous = IF s # t /\ index(s) \in (index(t) + 1)..stop
                                            THEN reports[q][t].previous
                                            ELSE reports[q][s].previous
               /\ reports'[q][s] \in Report
    BY <2>3, <2>4 DEF Report
  <2>6. QED
    BY <2>1, <2>5
<1>b. \A s, r \in DOMAIN reports[q] : /\ s \in Nat /\ index(s) \in 0..(count[q] - 1)
                                     /\ (s < r <=> index(s) < index(r))
                                     /\ (s = r <=> index(s) = index(r))
  <2>1. count[q] \in Nat /\ \A s \in DOMAIN reports[q] : /\ s \in Nat /\ index(s) \in 0..(count[q] - 1)
                                                     /\ byIndex[q][index(s)] = s
    BY DEF ReportsTypeOK, IndexConsistent, Report, Timestamp
  <2>2. \A i, j \in 0..(count[q] - 1) : i < j => byIndex[q][i] < byIndex[q][j]
    BY DEF IndexConsistent
  <2>3. ASSUME NEW s \in DOMAIN reports[q], NEW r \in DOMAIN reports[q]
        PROVE  (s < r <=> index(s) < index(r)) /\ (s = r <=> index(s) = index(r))
    <3>1. /\ s \in Nat /\ r \in Nat /\ index(s) \in Int /\ index(r) \in Int
          /\ index(s) < index(r) => s < r
          /\ index(r) < index(s) => r < s
          /\ index(s) = index(r) => s = r
      BY <2>1, <2>2
    <3>2. QED
      BY <3>1
  <2>4. QED
    BY <2>1, <2>3
<1>e. t \in DOMAIN reports[q] /\ ~reports[q][t].is_disputed /\ stop \in Nat /\ stop > index(t) /\ count[q] \in Nat
  <2>1. t \in DOMAIN reports[q] /\ ~reports[q][t].is_disputed /\ stop \in (index(t) + 1)..count[q]
    BY <1>0 DEF Removed
  <2>2. index(t) \in Nat /\ count[q] \in Nat
    BY <2>1, <1>b DEF ReportsTypeOK
  <2>3. QED
    BY <2>1, <2>2
<1>c. \A s \in DOMAIN reports[q] : s > t /\ index(s) < stop => reports[q][s].is_disputed
  <2> SUFFICES ASSUME NEW s \in DOMAIN reports[q], s > t, index(s) < stop
               PROVE  reports[q][s].is_disputed
    OBVIOUS
  <2>1. index(s) \in (index(t) + 1)..(stop - 1) /\ byIndex[q][index(s)] = s
    BY <1>b, <1>e DEF IndexConsistent
  <2>2. QED
    BY <1>0, <2>1 DEF Removed, IsDisputedAt
<1>d. stop < count[q] => /\ byIndex[q][stop] \in DOMAIN reports[q] /\ index(byIndex[q][stop]) = stop
                         /\ ~reports[q][byIndex[q][stop]].is_disputed /\ byIndex[q][stop] > t
  <2> SUFFICES ASSUME stop < count[q]
               PROVE  /\ byIndex[q][stop] \in DOMAIN reports[q] /\ index(byIndex[q][stop]) = stop
                      /\ ~reports[q][byIndex[q][stop]].is_disputed /\ byIndex[q][stop] > t
    OBVIOUS
  <2>1. byIndex[q][stop] \in DOMAIN reports[q] /\ index(byIndex[q][stop]) = stop
    BY <1>e DEF IndexConsistent, ReportsTypeOK
  <2>2. ~reports[q][byIndex[q][stop]].is_disputed
    BY <1>0 DEF Removed, IsDisputedAt
  <2>3. byIndex[q][stop] > t
    BY <1>b, <1>e, <2>1
  <2>4. QED
    BY <2>1, <2>2, <2>3
<1>1. ReportsTypeOK'
  <2>1. \A p \in QueryId : /\ DOMAIN reports'[p] \subseteq Timestamp
                          /\ reports'[p] \in [DOMAIN reports'[p] -> Report]
    BY <1>0, <1>a DEF ReportsTypeOK, Removed, Relinked
  <2>2. DOMAIN reports' = QueryId /\ values' \in [QueryId -> SUBSET Timestamp]
    BY DEF RemoveValue, DisputeReport, ReportsTypeOK
  <2>3. lastReported' \in [QueryId -> MaybeTimestamp]
    BY <1>e DEF RemoveValue, DisputeReport, LastWithout, ReportsTypeOK, Report
  <2>4. QED
    BY <1>0, <2>1, <2>2, <2>3 DEF Removed, ReportsTypeOK, stakerVars
<1>2. IndexConsistent'
  <2>1. count' = count /\ byIndex' = byIndex /\ now' = now
    BY <1>0 DEF Removed, RemoveValue
  <2>2. ASSUME NEW p \in QueryId
        PROVE  /\ DOMAIN reports'[p] = DOMAIN reports[p]
               /\ \A s \in DOMAIN reports[p] : reports'[p][s].index = reports[p][s].index
    <3>1. CASE p = q
      BY <1>a, <3>1
    <3>2. CASE p # q
      BY <1>0, <3>2 DEF Removed
    <3>3. QED
      BY <3>1, <3>2
  <2>3. QED
    BY ONLY <2>1, <2>2, IndexConsistent DEF IndexConsistent
<1>3. PreviousIsLatestUndisputed'
  <2> SUFFICES ASSUME NEW p \in QueryId, NEW s \in DOMAIN reports'[p]
               PROVE  IsLatest(reports'[p][s].previous, UndisputedBefore(p, s)')
    BY DEF PreviousIsLatestUndisputed, IsLatest
  <2>1. CASE p # q
    BY <2>1, <1>0 DEF Removed, PreviousIsLatestUndisputed, UndisputedBefore
  <2>2. CASE p = q
    <3>0. s \in DOMAIN reports[q] /\ IsLatest(reports[q][s].previous, UndisputedBefore(q, s))
      BY <2>2, <1>a DEF PreviousIsLatestUndisputed
    <3>1. UndisputedBefore(q, s)' = UndisputedBefore(q, s) \ {t}
      BY <1>a, <1>0 DEF UndisputedBefore
    <3>2. CASE s <= t
      <4>1. t \notin UndisputedBefore(q, s)
        BY <3>2, <1>b, <1>e, <3>0 DEF UndisputedBefore
      <4>2. reports'[q][s].previous = reports[q][s].previous
        BY <3>2, <1>a, <1>b, <1>e, <3>0
      <4>3. QED
        BY <4>1, <4>2, <3>0, <3>1, <2>2
    <3>3. CASE s > t /\ index(s) <= stop
      <4>1. UndisputedBefore(q, s) \ {t} = UndisputedBefore(q, t)
        BY <3>3, <1>b, <1>c, <1>e, <3>0 DEF UndisputedBefore
      <4>2. reports'[q][s].previous = reports[q][t].previous
        BY <3>3, <1>a, <1>b, <1>e, <3>0
      <4>3. QED
        BY <4>1, <4>2, <3>1, <2>2, <1>e DEF PreviousIsLatestUndisputed
    <3>4. CASE s > t /\ index(s) > stop
      <4>1. byIndex[q][stop] \in UndisputedBefore(q, s) /\ byIndex[q][stop] > t
        BY <3>4, <1>b, <1>d, <1>e, <3>0 DEF UndisputedBefore
      <4>2. reports'[q][s].previous = reports[q][s].previous
        BY <3>4, <1>a, <1>b, <1>e, <3>0
      <4>3. reports[q][s].previous # t
        BY <4>1, <3>0, <1>b, <1>e, ReportsAssumption DEF IsLatest, UndisputedBefore
      <4>4. QED
        BY <4>1, <4>2, <4>3, <3>0, <3>1, <2>2, <1>b, <1>e DEF IsLatest
    <3>5. QED
      BY <3>2, <3>3, <3>4, <3>0, <1>b, <1>e
  <2>3. QED
    BY <2>1, <2>2
<1>4. LastIsLatestUndisputed'
  <2> SUFFICES ASSUME NEW p \in QueryId
               PROVE  IsLatest(lastReported'[p], Undisputed(p)')
    BY DEF LastIsLatestUndisputed, IsLatest
  <2>0. IsLatest(lastReported[q], Undisputed(q)) /\ IsLatest(reports[q][t].previous, UndisputedBefore(q, t))
    BY <1>e DEF LastIsLatestUndisputed, PreviousIsLatestUndisputed
  <2>1. CASE p # q
    BY <2>1, <1>0 DEF Removed, LastIsLatestUndisputed, Undisputed
  <2>2. CASE p = q
    <3>1. Undisputed(q)' = Undisputed(q) \ {t}
      BY <1>a, <1>0 DEF Undisputed
    <3>2. CASE lastReported[q] = t
      <4>1. Undisputed(q) \ {t} = UndisputedBefore(q, t)
        BY <3>2, <2>0, <1>b, <1>e, ReportsAssumption DEF IsLatest, Undisputed, UndisputedBefore
      <4>2. QED
        BY <4>1, <3>1, <3>2, <2>0, <2>2, <1>0 DEF Removed
    <3>3. CASE lastReported[q] # t
      BY <3>1, <3>3, <2>0, <2>2, <1>0, <1>e DEF Removed, IsLatest, Undisputed
    <3>4. QED
      BY <3>2, <3>3
  <2>3. QED
    BY <2>1, <2>2
<1>5. ValueIffUndisputed'
  BY <1>0, <1>a DEF Removed, ValueIffUndisputed, Undisputed
<1>6. QED
  BY <1>1, <1>2, <1>3, <1>4, <1>5

(* Time passing changes nothing in the store. *)
LEMMA ClockInv ==
    ASSUME ReportsInv, now' \in Nat, now' >= now, UNCHANGED <<storeVars, stakerVars>>
    PROVE  ReportsInv'
<1> USE DEF ReportsInv, storeVars, stakerVars
<1>1. ReportsTypeOK'
  BY DEF ReportsTypeOK, Timestamp
<1>2. IndexConsistent'
  <2>1. \A q \in QueryId : \A t \in DOMAIN reports[q] : t <= now'
    <3> SUFFICES ASSUME NEW q \in QueryId, NEW t \in DOMAIN reports[q] PROVE t <= now'
      OBVIOUS
    <3>1. t \in Nat /\ now \in Nat /\ t <= now
      BY DEF IndexConsistent, ReportsTypeOK, Timestamp
    <3>2. QED
      BY <3>1
  <2>2. QED
    BY <2>1 DEF IndexConsistent
<1>3. PreviousIsLatestUndisputed'
  BY DEF PreviousIsLatestUndisputed, UndisputedBefore, IsLatest
<1>4. LastIsLatestUndisputed' /\ ValueIffUndisputed'
  BY DEF LastIsLatestUndisputed, ValueIffUndisputed, Undisputed, IsLatest
<1>5. QED
  BY <1>1, <1>2, <1>3, <1>4

(* Every step of the report store preserves the invariant. *)
LEMMA StepInv == ReportsInv /\ [ReportsNext]_reportsVars => ReportsInv'
<1> SUFFICES ASSUME ReportsInv, [ReportsNext]_reportsVars PROVE ReportsInv'
  OBVIOUS
<1>1. CASE SubmitValueStep
  BY <1>1, SubmitInv DEF SubmitValueStep
<1>2. CASE RemoveValueStep
  BY <1>2, RemoveInv DEF RemoveValueStep
<1>3. CASE ClockStep
  <2>1. now' \in Nat /\ now' >= now /\ UNCHANGED <<storeVars, stakerVars>>
    BY <1>3, ReportsAssumption DEF ClockStep, AdvanceTime, ReportsInv, ReportsTypeOK, Timestamp
  <2>2. QED
    BY <2>1, ClockInv
<1>4. CASE UNCHANGED reportsVars
  BY <1>4, ClockInv DEF reportsVars, ReportsInv, ReportsTypeOK, Timestamp
<1>5. QED
  BY <1>1, <1>2, <1>3, <1>4 DEF ReportsNext

(* Storage is always well typed. *)
THEOREM TypeCorrect == ReportsSpec => []ReportsTypeOK
<1>1. ReportsInv => ReportsTypeOK
  BY DEF ReportsInv
<1>2. QED
  BY <1>1, InitInv, StepInv, PTL DEF ReportsSpec

(* ReportedTimestampsByIndex and Reports stay in step. *)
THEOREM IndexCorrect == ReportsSpec => []IndexConsistent
<1>1. ReportsInv => IndexConsistent
  BY DEF ReportsInv
<1>2. QED
  BY <1>1, InitInv, StepInv, PTL DEF ReportsSpec

(* However reports are submitted and disputed, the back pointers and       *)
(* LastReportedTimestamp always lead to the latest undisputed report.      *)
THEOREM ChainCorrect == ReportsSpec => [](PreviousIsLatestUndisputed /\ LastIsLatestUndisputed)
<1>1. ReportsInv => PreviousIsLatestUndisputed /\ LastIsLatestUndisputed
  BY DEF ReportsInv
<1>2. QED
  BY <1>1, InitInv, StepInv, PTL DEF ReportsSpec

(* A disputed value can never be read, an undisputed one always can. *)
THEOREM ValuesCorrect == ReportsSpec => []ValueIffUndisputed
<1>1. ReportsInv => ValueIffUndisputed
  BY DEF ReportsInv
<1>2. QED
  BY <1>1, InitInv, StepInv, PTL DEF ReportsSpec

-----------------------------------------------------------------------------
(* A report older than the lock is changed by no step: a removal needs a   *)
(* report younger than the lock and changes only later ones.               *)
LEMMA ReportSettledStep ==
    ASSUME ReportsInv, [ReportsNext]_reportsVars, NEW p \in QueryId, NEW s \in DOMAIN reports[p],
           now - s >= ReportingLock
    PROVE  reports'[p][s] = reports[p][s]
<1>1. CASE SubmitValueStep
  <2>1. PICK a \in Account, q \in QueryId, m \in StakeMultiples : SubmitValue(a, q, m)
    BY <1>1 DEF SubmitValueStep
  <2>2. Appended(a, q)
    BY <2>1, SubmitEffect DEF ReportsInv
  <2>3. QED
    BY <2>2 DEF Appended
<1>2. CASE RemoveValueStep
  <2>1. PICK q \in QueryId : \E t \in DOMAIN reports[q] : WithinDisputePeriod(t) /\ RemoveValue(q, t)
    BY <1>2 DEF RemoveValueStep
  <2>2. PICK t \in DOMAIN reports[q] : WithinDisputePeriod(t) /\ RemoveValue(q, t)
    BY <2>1
  <2>3. PICK stop : Removed(q, t, stop)
    BY <2>2, RemoveEffect DEF ReportsInv
  <2>4. CASE p # q
    BY <2>3, <2>4 DEF Removed
  <2>5. CASE p = q
    <3>1. /\ s \in Nat /\ t \in Nat /\ now \in Nat /\ reports[q][t].index \in Nat
          /\ reports[q][t].index < count[q] /\ byIndex[q][reports[q][t].index] = t
      BY <2>5 DEF ReportsInv, ReportsTypeOK, Timestamp, Report, IndexConsistent
    <3>2. s < t
      BY <3>1, <2>2, ReportsAssumption DEF WithinDisputePeriod
    <3>3. \A j \in (reports[q][t].index + 1)..stop : j < count[q] => byIndex[q][j] > t
      <4>1. count[q] \in Nat /\ \A i \in 0..(count[q] - 1) : byIndex[q][i] \in Nat
        BY DEF ReportsInv, ReportsTypeOK, Timestamp
      <4>2. \A i, j \in 0..(count[q] - 1) : i < j => byIndex[q][i] < byIndex[q][j]
        BY DEF ReportsInv, IndexConsistent
      <4>3. QED
        BY <3>1, <4>1, <4>2
    <3>4. ~ \E j \in (reports[q][t].index + 1)..stop : j < count[q] /\ byIndex[q][j] = s
      BY <3>1, <3>2, <3>3
    <3>5. QED
      BY <2>3, <2>5, <3>1, <3>2, <3>4 DEF Removed, Relinked
  <2>6. QED
    BY <2>4, <2>5
<1>3. CASE ClockStep
  BY <1>3 DEF ClockStep, storeVars
<1>4. CASE UNCHANGED reportsVars
  BY <1>4 DEF reportsVars, storeVars
<1>5. QED
  BY <1>1, <1>2, <1>3, <1>4 DEF ReportsNext

(* What any step of the report store does to a series: only a report at    *)
(* the current time is added, a disputed report stays disputed, and one    *)
(* that is as old as the reporting lock stays undisputed.                  *)
LEMMA SeriesStep ==
    ASSUME ReportsInv, [ReportsNext]_reportsVars, NEW q \in QueryId
    PROVE  /\ now \in Nat /\ now' \in Nat /\ now <= now'
           /\ DOMAIN reports[q] \subseteq DOMAIN reports'[q]
           /\ DOMAIN reports'[q] \subseteq DOMAIN reports[q] \cup {now}
           /\ \A s \in DOMAIN reports[q] : /\ reports[q][s].is_disputed => reports'[q][s].is_disputed
                                           /\ now - s >= ReportingLock => reports'[q][s] = reports[q][s]
<1>1. \A s \in DOMAIN reports[q] : now - s >= ReportingLock => reports'[q][s] = reports[q][s]
  BY ReportSettledStep
<1>2. now \in Nat
  BY DEF ReportsInv, ReportsTypeOK, Timestamp
<1>3. CASE SubmitValueStep
  <2>1. PICK a \in Account, p \in QueryId, m \in StakeMultiples : SubmitValue(a, p, m)
    BY <1>3 DEF SubmitValueStep
  <2>2. Appended(a, p) /\ now' = now
    BY <1>3, <2>1, SubmitEffect DEF ReportsInv, SubmitValueStep
  <2>3. QED
    BY <1>1, <1>2, <2>2 DEF Appended
<1>4. CASE RemoveValueStep
  <2>1. PICK p \in QueryId : \E t \in DOMAIN reports[p] : WithinDisputePeriod(t) /\ RemoveValue(p, t)
    BY <1>4 DEF RemoveValueStep
  <2>2. PICK t \in DOMAIN reports[p] : WithinDisputePeriod(t) /\ RemoveValue(p, t)
    BY <2>1
  <2>3. PICK stop : Removed(p, t, stop)
    BY <2>2, RemoveEffect DEF ReportsInv
  <2>4. now' = now
    BY <1>4 DEF RemoveValueStep
  <2>5. CASE q # p
    BY <1>1, <1>2, <2>3, <2>4, <2>5 DEF Removed
  <2>6. CASE q = p
    <3>1. \A s \in DOMAIN reports[q] : reports[q][s] \in Report
      BY DEF ReportsInv, ReportsTypeOK
    <3>2. reports'[q] = Relinked(q, t, reports[q][t].index + 1, stop)
      BY <2>3, <2>6 DEF Removed
    <3>3. DOMAIN reports'[q] = DOMAIN reports[q]
      BY <3>2 DEF Relinked
    <3>4. \A s \in DOMAIN reports[q] : reports[q][s].is_disputed => reports'[q][s].is_disputed
      BY <3>1, <3>2 DEF Relinked, Report
    <3>5. QED
      BY <1>1, <1>2, <2>4, <3>3, <3>4
  <2>7. QED
    BY <2>5, <2>6
<1>5. CASE ClockStep
  BY <1>1, <1>2, <1>5, ReportsAssumption DEF ClockStep, AdvanceTime, storeVars
<1>6. CASE UNCHANGED reportsVars
  BY <1>1, <1>2, <1>6 DEF reportsVars, storeVars
<1>7. QED
  BY <1>3, <1>4, <1>5, <1>6 DEF ReportsNext

(* A report older than the lock stays as it is, whatever is submitted or   *)
(* disputed later.                                                         *)
THEOREM SettledCorrect == ReportsSpec => SettledReportsUnchanged
<1>1. ReportsInv /\ [ReportsNext]_reportsVars
        => [\A q \in QueryId : \A t \in DOMAIN reports[q] :
               now - t >= ReportingLock => reports'[q][t] = reports[q][t]]_reportsVars
  BY ReportSettledStep
<1>2. QED
  BY <1>1, InitInv, StepInv, PTL DEF ReportsSpec, SettledReportsUnchanged

(* The newest report of every reporter is at reporter_last_timestamp or    *)
(* earlier: what the spacing of a reporter's reports rests on.             *)
ReporterInv ==
    /\ ReportsSpacedByLock
    /\ \A a \in Account : lastTimestamp[a] <= now
    /\ \A q \in QueryId : \A t \in DOMAIN reports[q] : t <= lastTimestamp[reports[q][t].reporter]

(* Two reports of one reporter are further apart than the reporting lock   *)
(* allows, over any history of disputes and stake changes.                 *)
THEOREM SpacingCorrect == ReportsSpec => []ReportsSpacedByLock
<1>1. ReportsInit => ReporterInv
  BY ReportsAssumption DEF ReportsInit, ReporterInv, ReportsSpacedByLock
<1>2. ReportsInv /\ ReporterInv /\ [ReportsNext]_reportsVars => ReporterInv'
  <2> SUFFICES ASSUME ReportsInv, ReporterInv, [ReportsNext]_reportsVars PROVE ReporterInv'
    OBVIOUS
  <2>1. CASE SubmitValueStep
    <3>1. PICK a \in Account, q \in QueryId, m \in StakeMultiples : SubmitValue(a, q, m)
      BY <2>1 DEF SubmitValueStep
    <3>2. Appended(a, q) /\ now' = now
      BY <2>1, <3>1, SubmitEffect DEF ReportsInv, SubmitValueStep
    <3>3. /\ lastTimestamp' = [lastTimestamp EXCEPT ![a] = now]
          /\ (now - lastTimestamp[a]) * 1000 > (ReportingLock * 1000) \div m
      BY <3>1 DEF SubmitValue, RecordSubmission, LockExpired
    <3>4. (ReportingLock * 1000) \div m \in Nat
      BY ReportsAssumption
    <3>5. now \in Nat /\ \A b \in Account : lastTimestamp[b] \in Nat /\ lastTimestamp[b] <= now
      BY DEF ReportsInv, ReportsTypeOK, Timestamp, ReporterInv
    <3>6. lastTimestamp[a] < now
      BY <3>3, <3>4, <3>5
    <3>7. ASSUME NEW p \in QueryId, NEW t \in DOMAIN reports'[p]
          PROVE  \/ p = q /\ t = now /\ reports'[p][t].reporter = a
                 \/ /\ t \in DOMAIN reports[p] /\ reports'[p][t] = reports[p][t] /\ t \in Nat
                    /\ reports[p][t].reporter \in Account /\ t <= lastTimestamp[reports[p][t].reporter]
      BY <3>2 DEF Appended, ReportsInv, ReportsTypeOK, Timestamp, Report, ReporterInv
    <3>8. ReportsSpacedByLock'
      <4> SUFFICES ASSUME NEW b \in Account, NEW p1 \in QueryId, NEW p2 \in QueryId,
                          NEW t1 \in DOMAIN reports'[p1], NEW t2 \in DOMAIN reports'[p2],
                          reports'[p1][t1].reporter = b, reports'[p2][t2].reporter = b,
                          t1 <= t2, <<p1, t1>> # <<p2, t2>>
                   PROVE  \E n \in StakeMultiples : (t2 - t1) * 1000 > (ReportingLock * 1000) \div n
        BY DEF ReportsSpacedByLock
      <4>1. CASE p2 = q /\ t2 = now /\ b = a /\ ~(p1 = q /\ t1 = now)
        <5>1. t1 \in Nat /\ t1 <= lastTimestamp[a]
          BY <4>1, <3>7
        <5>2. (now - t1) * 1000 > (ReportingLock * 1000) \div m
          BY <5>1, <3>3, <3>4, <3>5
        <5>3. QED
          BY <5>2, <4>1
      <4>2. CASE p1 = q /\ t1 = now /\ b = a /\ ~(p2 = q /\ t2 = now)
        <5>1. t2 \in Nat /\ t2 <= lastTimestamp[a]
          BY <4>2, <3>7
        <5>2. QED
          BY <5>1, <4>2, <3>5, <3>6
      <4>3. CASE ~(p1 = q /\ t1 = now) /\ ~(p2 = q /\ t2 = now)
        <5>1. /\ t1 \in DOMAIN reports[p1] /\ reports[p1][t1].reporter = b
              /\ t2 \in DOMAIN reports[p2] /\ reports[p2][t2].reporter = b
          BY <4>3, <3>7
        <5>2. QED
          BY <5>1 DEF ReporterInv, ReportsSpacedByLock
      <4>4. QED
        BY <4>1, <4>2, <4>3, <3>7, <3>2 DEF Appended
    <3>9. \A b \in Account : lastTimestamp'[b] <= now'
      BY <3>2, <3>3, <3>5
    <3>10. \A p \in QueryId : \A t \in DOMAIN reports'[p] : t <= lastTimestamp'[reports'[p][t].reporter]
      <4> SUFFICES ASSUME NEW p \in QueryId, NEW t \in DOMAIN reports'[p]
                   PROVE  t <= lastTimestamp'[reports'[p][t].reporter]
        OBVIOUS
      <4>1. \A b \in Account : lastTimestamp'[b] = IF b = a THEN now ELSE lastTimestamp[b]
        BY <3>3 DEF ReportsInv, ReportsTypeOK
      <4>2. QED
        BY <4>1, <3>5, <3>7
    <3>11. QED
      BY <3>8, <3>9, <3>10 DEF ReporterInv
  <2>2. CASE RemoveValueStep
    <3>1. PICK q \in QueryId : \E t \in DOMAIN reports[q] : WithinDisputePeriod(t) /\ RemoveValue(q, t)
      BY <2>2 DEF RemoveValueStep
    <3>2. PICK t \in DOMAIN reports[q] : WithinDisputePeriod(t) /\ RemoveValue(q, t)
      BY <3>1
    <3>3. PICK stop : Removed(q, t, stop)
      BY <3>2, RemoveEffect DEF ReportsInv
    <3>4. \A s \in DOMAIN reports[q] : reports[q][s] \in Report
      BY DEF ReportsInv, ReportsTypeOK
    <3>5. \A p \in QueryId : /\ DOMAIN reports'[p] = DOMAIN reports[p]
                            /\ \A s \in DOMAIN reports[p] : reports'[p][s].reporter = reports[p][s].reporter
      BY <3>3, <3>4 DEF Removed, Relinked, Report
    <3>6. now' = now /\ lastTimestamp' = lastTimestamp
      BY <2>2 DEF RemoveValueStep, stakerVars
    <3>7. QED
      BY <3>5, <3>6 DEF ReporterInv, ReportsSpacedByLock
  <2>3. CASE ClockStep
    <3>1. /\ now \in Nat /\ now' \in Nat /\ now <= now' /\ lastTimestamp \in [Account -> Nat]
          /\ reports' = reports /\ lastTimestamp' = lastTimestamp
      BY <2>3, ReportsAssumption
      DEF ClockStep, AdvanceTime, storeVars, stakerVars, ReportsInv, ReportsTypeOK, Timestamp
    <3>2. \A a \in Account : lastTimestamp[a] <= now'
      BY <3>1 DEF ReporterInv
    <3>3. QED
      BY <3>1, <3>2 DEF ReporterInv, ReportsSpacedByLock
  <2>4. CASE UNCHANGED reportsVars
    BY <2>4 DEF reportsVars, storeVars, stakerVars, ReporterInv, ReportsSpacedByLock
  <2>5. QED
    BY <2>1, <2>2, <2>3, <2>4 DEF ReportsNext
<1>3. ReporterInv => ReportsSpacedByLock
  BY DEF ReporterInv
<1>4. QED
  BY <1>1, <1>2, <1>3, InitInv, StepInv, PTL DEF ReportsSpec

-----------------------------------------------------------------------------
(* The series a consumer sees, as the state function of the abstract       *)
(* oracle.                                                                 *)
Seen == [q \in QueryId |-> DOMAIN reports[q]]

(* submit_value is a Report of the abstract oracle. *)
LEMMA SubmitReports ==
    ASSUME ReportsInv, NEW a \in Account, NEW q \in QueryId, NEW m, SubmitValue(a, q, m), now' = now
    PROVE  Oracle!Report(q)
<1>1. Appended(a, q)
  BY SubmitEffect DEF ReportsInv
<1>2. \A s \in DOMAIN reports[q] : s < now
  BY <1>1 DEF Appended, ReportsInv, ReportsTypeOK, IndexConsistent, Timestamp
<1>3. Seen' = [Seen EXCEPT ![q] = @ \cup {now}]
  BY <1>1 DEF Appended, Seen
<1>4. /\ values' = [values EXCEPT ![q] = @ \cup {now}]
      /\ lastReported' = [lastReported EXCEPT ![q] = now]
  BY DEF SubmitValue, AppendReport
<1>5. QED
  BY <1>2, <1>3, <1>4 DEF Oracle!Report, Seen

(* remove_value, within the dispute period, is a Retract of the abstract   *)
(* oracle: the repaired LastReportedTimestamp is the latest value left.    *)
LEMMA RemoveRetracts ==
    ASSUME ReportsInv, NEW q \in QueryId, NEW t \in DOMAIN reports[q],
           WithinDisputePeriod(t), RemoveValue(q, t), UNCHANGED <<now, stakerVars>>
    PROVE  t \in values[q] /\ Oracle!Retract(q, t)
<1>1. PICK stop : Removed(q, t, stop)
  BY RemoveEffect DEF ReportsInv
<1>2. ReportsInv'
  BY RemoveInv
<1>3. t \in values[q]
  BY <1>1 DEF Removed, ReportsInv, ValueIffUndisputed, Undisputed
<1>4. /\ values' = [values EXCEPT ![q] = @ \ {t}]
      /\ lastReported' = [lastReported EXCEPT ![q] = LastWithout(q, t)]
  BY DEF RemoveValue, DisputeReport
<1>5. values'[q] = values[q] \ {t} /\ lastReported'[q] = LastWithout(q, t)
  BY <1>4 DEF ReportsInv, ReportsTypeOK
<1>6. IsLatest(LastWithout(q, t), values[q] \ {t})
  BY <1>2, <1>5 DEF ReportsInv, LastIsLatestUndisputed, ValueIffUndisputed
<1>7. LastWithout(q, t) \in values[q] \cup {None} /\ Oracle!IsCurrent(LastWithout(q, t), values[q] \ {t})
  BY <1>6 DEF IsLatest, Oracle!IsCurrent
<1>8. Seen' = Seen
  BY <1>1 DEF Seen, Removed, Relinked
<1>9. now - t < ReportingLock
  BY DEF WithinDisputePeriod
<1>10. QED
  BY <1>3, <1>4, <1>7, <1>8, <1>9 DEF Oracle!Retract, Seen

(* The report store implements the oracle consumers are promised: each of  *)
(* its steps is a report, a retraction or the passing of time.             *)
THEOREM ConsumerViewCorrect == ReportsSpec => ConsumerView
<1>1. ReportsInit => Oracle!Init
  BY ReportsAssumption DEF ReportsInit, Oracle!Init
<1>2. ReportsInv /\ [ReportsNext]_reportsVars => [Oracle!Next]_(Oracle!oracleVars)
  <2> SUFFICES ASSUME ReportsInv, [ReportsNext]_reportsVars
               PROVE  Oracle!Next \/ UNCHANGED Oracle!oracleVars
    OBVIOUS
  <2>1. CASE SubmitValueStep
    BY <2>1, SubmitReports DEF SubmitValueStep, Oracle!Next
  <2>2. CASE RemoveValueStep
    BY <2>2, RemoveRetracts DEF RemoveValueStep, Oracle!Next
  <2>3. CASE ClockStep
    <3>1. now' \in Nat /\ now' >= now /\ UNCHANGED <<reports, values, lastReported>>
      BY <2>3, ReportsAssumption
      DEF ClockStep, AdvanceTime, storeVars, ReportsInv, ReportsTypeOK, Timestamp
    <3>2. QED
      BY <3>1 DEF Oracle!Next, Oracle!Tick
  <2>4. CASE UNCHANGED reportsVars
    BY <2>4 DEF reportsVars, storeVars, Oracle!oracleVars
  <2>5. QED
    BY <2>1, <2>2, <2>3, <2>4 DEF ReportsNext
<1>3. QED
  BY <1>1, <1>2, InitInv, StepInv, PTL DEF ReportsSpec, ConsumerView, Oracle!Spec
=============================================================================
