--------------------------- MODULE ConsumerProofs ---------------------------
(***************************************************************************)
(* What those who read through the look-ups can rely on: the sample        *)
(* consumer pallet, and the pallet's own update of the stake amount and    *)
(* the dispute fee.                                                        *)
(***************************************************************************)
EXTENDS UsingTellor, StakeAmount, LookupProofs

(* The consumer only reads: to the report store its steps are stuttering. *)
THEOREM ConsumerOnlyReads == UsingSpec => ReportsSpec
<1>1. UsingInit => ReportsInit
  BY DEF UsingInit
<1>2. [Consume \/ StoreStep]_usingVars => [ReportsNext]_reportsVars
  <2>1. Consume => UNCHANGED reportsVars
    BY DEF Consume, Configure, DoSomething
  <2>2. QED
    BY <2>1 DEF StoreStep, usingVars
<1>3. QED
  BY <1>1, <1>2, PTL DEF UsingSpec, ReportsSpec

(* The report store's invariant holds with the consumer beside it. *)
LEMMA ConsumerInv == UsingSpec => []ReportsInv
  BY ConsumerOnlyReads, InitInv, StepInv, PTL DEF ReportsSpec

(* What the number stored for a caller rests on, for one report. *)
RestsOn(a, q, t) ==
    LET age == readAt[a] - t
        between == {s \in DOMAIN reports[q] : t < s /\ s < readAt[a] - ReadDelay}
    IN /\ \E factor \in Factors : derived[a] = Derived(t, factor)
       /\ ReadDelay < age /\ age < OneDay
       /\ between \cap Undisputed(q) = {}
       /\ age >= ReportingLock => t \in Undisputed(q)

(* What makes it inductive: a number is never read in the future, so no    *)
(* report is added later among those it passed over.                       *)
UsingInv ==
    /\ configuration \in QueryId \cup {None}
    /\ DOMAIN derived = Account /\ DOMAIN readAt = Account
    /\ \A a \in Account : derived[a] # None =>
          /\ readAt[a] \in Nat /\ readAt[a] <= now
          /\ \E q \in QueryId : \E t \in DOMAIN reports[q] \ NotNumbers : RestsOn(a, q, t)

(* do_something stores a number that rests on the latest undisputed report *)
(* before the delay.                                                       *)
LEMMA StoredRests ==
    ASSUME ReportsInv, UsingInv, NEW a \in Account, NEW factor \in Factors, DoSomething(a, factor)
    PROVE  /\ readAt'[a] \in Nat /\ readAt'[a] <= now'
           /\ \E q \in QueryId : \E t \in DOMAIN reports'[q] \ NotNumbers : RestsOn(a, q, t)'
<1> DEFINE q == configuration
           cut == SaturatingSub(now, ReadDelay)
           t == GetDataBefore(q, cut)
<1>1. q \in QueryId
  BY DEF DoSomething, UsingInv
<1>2. {ReadDelay, OneDay} \subseteq Nat /\ now \in Nat
  BY UsingTellorAssumption DEF ReportsInv, ReportsTypeOK, Timestamp
<1>3. cut \in Nat /\ (now > ReadDelay => cut = now - ReadDelay) /\ (~(now > ReadDelay) => cut = 0)
  BY <1>2 DEF SaturatingSub
<1>4. IsLatest(t, UndisputedBefore(q, cut))
  <2> HIDE DEF cut, q
  <2>1. QED
    BY <1>1, <1>3, DataBeforeFound
<1> HIDE DEF t
<1>5. /\ t # None /\ SaturatingSub(now, t) < OneDay /\ t \notin NotNumbers
      /\ GetPrice(q) = t
  BY DEF DoSomething, GetPrice, BytesToUint, t
<1>6. t \in UndisputedBefore(q, cut) /\ \A s \in UndisputedBefore(q, cut) : s <= t
  BY <1>4, <1>5 DEF IsLatest
<1>7. /\ t \in DOMAIN reports[q] /\ t < cut /\ ~reports[q][t].is_disputed /\ t \in Nat
      /\ \A s \in DOMAIN reports[q] : s < cut /\ ~reports[q][s].is_disputed => s <= t
  BY <1>1, <1>6, SeriesIndexed DEF UndisputedBefore
<1>8. now > ReadDelay /\ cut = now - ReadDelay /\ ReadDelay < now - t /\ now - t < OneDay
  <2> HIDE DEF cut
  <2>1. cut # 0
    BY <1>3, <1>7
  <2>2. now > ReadDelay /\ cut = now - ReadDelay
    BY <1>3, <2>1
  <2>3. SaturatingSub(now, t) = now - t
    BY <1>2, <1>7, <2>2 DEF SaturatingSub
  <2>4. QED
    BY <1>2, <1>5, <1>7, <2>2, <2>3
<1>9. /\ derived'[a] = Derived(t, factor) /\ readAt'[a] = now
      /\ reports' = reports /\ now' = now
  BY <1>5 DEF DoSomething, UsingInv, reportsVars, storeVars
<1>10. {s \in DOMAIN reports[q] : t < s /\ s < now - ReadDelay} \cap Undisputed(q) = {}
  <2>1. ASSUME NEW s \in DOMAIN reports[q], t < s, s < now - ReadDelay, s \in Undisputed(q) PROVE FALSE
    <3>1. s \in Nat /\ ~reports[q][s].is_disputed
      BY <1>1, <2>1, SeriesIndexed DEF Undisputed
    <3>2. s <= t
      BY <1>7, <1>8, <2>1, <3>1
    <3>3. QED
      BY <1>7, <2>1, <3>1, <3>2
  <2>2. QED
    BY <2>1
<1>11. t \in Undisputed(q)
  BY <1>7 DEF Undisputed
<1>12. PICK p, u : p = q /\ u = t
  OBVIOUS
<1>13. /\ DOMAIN reports'[p] = DOMAIN reports[q] /\ Undisputed(p)' = Undisputed(q)
  BY <1>9, <1>12 DEF Undisputed
<1>14. RestsOn(a, p, u)'
  BY <1>8, <1>9, <1>10, <1>11, <1>12, <1>13 DEF RestsOn
<1>15. p \in QueryId /\ u \in DOMAIN reports'[p] \ NotNumbers
  BY <1>1, <1>5, <1>7, <1>9, <1>12
<1>16. QED
  BY <1>2, <1>9, <1>14, <1>15

(* No step of the report store takes away what a stored number rests on. *)
LEMMA StoreKeepsRests ==
    ASSUME ReportsInv, [ReportsNext]_reportsVars, UNCHANGED consumerVars, NEW a \in Account,
           NEW q \in QueryId, NEW t \in DOMAIN reports[q], RestsOn(a, q, t),
           readAt[a] \in Nat, readAt[a] <= now
    PROVE  t \in DOMAIN reports'[q] /\ RestsOn(a, q, t)' /\ readAt'[a] <= now'
<1>1. /\ now \in Nat /\ now' \in Nat /\ now <= now'
      /\ DOMAIN reports[q] \subseteq DOMAIN reports'[q]
      /\ DOMAIN reports'[q] \subseteq DOMAIN reports[q] \cup {now}
      /\ \A s \in DOMAIN reports[q] : /\ reports[q][s].is_disputed => reports'[q][s].is_disputed
                                      /\ now - s >= ReportingLock => reports'[q][s] = reports[q][s]
  BY SeriesStep
<1>2. /\ \A s \in DOMAIN reports[q] : s \in Nat
      /\ ReadDelay \in Nat /\ OneDay \in Nat /\ ReportingLock \in Nat
  BY SeriesIndexed, UsingTellorAssumption, ReportsAssumption
<1>3. readAt' = readAt /\ derived' = derived
  BY DEF consumerVars
<1>4. ASSUME NEW s \in DOMAIN reports'[q], t < s, s < readAt[a] - ReadDelay, s \in Undisputed(q)'
      PROVE  FALSE
  <2>1. s \in DOMAIN reports[q]
    BY <1>1, <1>2, <1>4
  <2>2. s \notin Undisputed(q)
    BY <1>4, <2>1 DEF RestsOn
  <2>3. reports[q][s].is_disputed
    BY <2>1, <2>2 DEF Undisputed
  <2>4. QED
    BY <1>1, <1>4, <2>1, <2>3 DEF Undisputed
<1>5. ASSUME readAt[a] - t >= ReportingLock PROVE t \in Undisputed(q)'
  <2>1. t \in Undisputed(q)
    BY <1>5 DEF RestsOn
  <2>2. reports'[q][t] = reports[q][t]
    BY <1>1, <1>2, <1>5
  <2>3. QED
    BY <1>1, <2>1, <2>2 DEF Undisputed
<1>6. /\ \E factor \in Factors : derived[a] = Derived(t, factor)
      /\ ReadDelay < readAt[a] - t /\ readAt[a] - t < OneDay
  BY DEF RestsOn
<1>7. RestsOn(a, q, t)'
  BY <1>3, <1>4, <1>5, <1>6 DEF RestsOn
<1>8. QED
  BY <1>1, <1>3, <1>7

(* Every number that the consumer has stored rests on the report that was  *)
(* the latest undisputed one before the delay, and still does when that    *)
(* report was as old as the reporting lock.                                *)
THEOREM DerivedCorrect == UsingSpec => []DerivedFromLatest
<1>1. UsingInit => UsingInv
  BY DEF UsingInit, UsingInv
<1>2. ReportsInv /\ UsingInv /\ [Consume \/ StoreStep]_usingVars => UsingInv'
  <2> SUFFICES ASSUME ReportsInv, UsingInv, [Consume \/ StoreStep]_usingVars PROVE UsingInv'
    OBVIOUS
  <2> DEFINE Rests(b) == \E q \in QueryId : \E t \in DOMAIN reports[q] \ NotNumbers : RestsOn(b, q, t)
  <2>1. ASSUME UNCHANGED <<reportsVars>>, NEW b \in Account, derived[b] # None,
               derived'[b] = derived[b], readAt'[b] = readAt[b]
        PROVE  readAt'[b] \in Nat /\ readAt'[b] <= now' /\ Rests(b)'
    <3>1. reports' = reports /\ now' = now
      BY <2>1 DEF reportsVars, storeVars
    <3>2. PICK q \in QueryId : \E t \in DOMAIN reports[q] \ NotNumbers : RestsOn(b, q, t)
      BY <2>1 DEF UsingInv
    <3>3. PICK t \in DOMAIN reports[q] \ NotNumbers : RestsOn(b, q, t)
      BY <3>2
    <3>4. RestsOn(b, q, t)'
      BY <2>1, <3>1, <3>3 DEF RestsOn, Undisputed
    <3>5. QED
      BY <2>1, <3>1, <3>3, <3>4 DEF UsingInv
  <2>2. ASSUME NEW q \in QueryId, Configure(q) PROVE UsingInv'
    <3>1. UNCHANGED <<reportsVars>> /\ derived' = derived /\ readAt' = readAt /\ configuration' = q
      BY <2>2 DEF Configure
    <3>2. QED
      BY <2>1, <3>1 DEF UsingInv
  <2>3. ASSUME NEW a \in Account, NEW factor \in Factors, DoSomething(a, factor) PROVE UsingInv'
    <3>1. readAt'[a] \in Nat /\ readAt'[a] <= now' /\ Rests(a)'
      BY <2>3, StoredRests
    <3>2. /\ UNCHANGED <<reportsVars>> /\ configuration' = configuration
          /\ DOMAIN derived' = Account /\ DOMAIN readAt' = Account
          /\ \A b \in Account \ {a} : derived'[b] = derived[b] /\ readAt'[b] = readAt[b]
      BY <2>3 DEF DoSomething, UsingInv
    <3>3. QED
      BY <2>1, <3>1, <3>2 DEF UsingInv
  <2>4. CASE StoreStep \/ UNCHANGED usingVars
    <3>1. [ReportsNext]_reportsVars /\ UNCHANGED consumerVars
      BY <2>4 DEF StoreStep, usingVars
    <3>2. ASSUME NEW b \in Account, derived[b] # None
          PROVE  readAt'[b] \in Nat /\ readAt'[b] <= now' /\ Rests(b)'
      <4>1. PICK q \in QueryId : \E t \in DOMAIN reports[q] \ NotNumbers : RestsOn(b, q, t)
        BY <3>2 DEF UsingInv
      <4>2. PICK t \in DOMAIN reports[q] \ NotNumbers : RestsOn(b, q, t)
        BY <4>1
      <4>3. t \in DOMAIN reports'[q] /\ RestsOn(b, q, t)' /\ readAt'[b] <= now'
        BY <3>1, <3>2, <4>2, StoreKeepsRests DEF UsingInv
      <4>4. QED
        BY <3>1, <3>2, <4>2, <4>3 DEF UsingInv, consumerVars
    <3>3. QED
      BY <3>1, <3>2 DEF UsingInv, consumerVars
  <2>5. QED
    BY <2>2, <2>3, <2>4 DEF Consume
<1>3. UsingInv => DerivedFromLatest
  BY DEF UsingInv, DerivedFromLatest, RestsOn
<1>4. QED
  BY <1>1, <1>2, <1>3, ConsumerInv, PTL DEF UsingSpec

-----------------------------------------------------------------------------
(* The updates of the stake amount do not touch the report store, whose    *)
(* disputes and submissions go on beside them.                             *)
THEOREM AmountsOnlyRead == StakeAmountSpec => ReportsSpec
<1>1. StakeAmountInit => ReportsInit
  BY DEF StakeAmountInit
<1>2. ReportsTypeOK /\ [StakeAmountNext]_stakeAmountVars => [ReportsNext]_reportsVars
  <2> SUFFICES ASSUME ReportsTypeOK, [StakeAmountNext]_stakeAmountVars PROVE [ReportsNext]_reportsVars
    OBVIOUS
  <2>1. CASE Submit
    <3>1. PICK a \in Account, q \in QueryId, m \in StakeMultiples, p \in ReportedPrices :
             SubmitPrice(a, q, m, p)
      BY <2>1 DEF Submit
    <3>2. SubmitValue(a, q, m) /\ UNCHANGED now
      BY <3>1 DEF SubmitPrice
    <3>3. QED
      BY <3>2 DEF ReportsNext, SubmitValueStep
  <2>2. CASE Dispute
    BY <2>2 DEF Dispute, ReportsNext
  <2>3. CASE UpdateStakeAmount
    BY <2>3 DEF UpdateStakeAmount
  <2>4. CASE Block
    <3>1. PICK t \in now..MaxTime : NewBlock(t)
      BY <2>4 DEF Block
    <3>2. AdvanceTime(t) /\ UNCHANGED <<storeVars, stakerVars>>
      BY <3>1 DEF NewBlock
    <3>3. now \in Nat /\ MaxTime \in Nat
      BY ReportsAssumption DEF ReportsTypeOK, Timestamp
    <3>4. CASE t = now
      BY <3>2, <3>4 DEF AdvanceTime, reportsVars
    <3>5. CASE t # now
      <4>1. t \in (now + 1)..MaxTime
        BY <3>1, <3>3, <3>5
      <4>2. QED
        BY <3>2, <4>1 DEF ReportsNext, ClockStep
    <3>6. QED
      BY <3>4, <3>5
  <2>5. CASE UNCHANGED stakeAmountVars
    BY <2>5 DEF stakeAmountVars
  <2>6. QED
    BY <2>1, <2>2, <2>3, <2>4, <2>5 DEF StakeAmountNext
<1>3. ReportsInv => ReportsTypeOK
  BY DEF ReportsInv
<1>4. QED
  BY <1>1, <1>2, <1>3, InitInv, StepInv, PTL DEF StakeAmountSpec, ReportsSpec

(* The prices in force: what AmountsExplained needs to be inductive is     *)
(* that every report has a number beside it.                               *)
PricedInv ==
    /\ AmountsExplained
    /\ DOMAIN price = QueryId
    /\ \A q \in QueryId : DOMAIN price[q] = DOMAIN reports[q]

(* A step that only adds to the prices and leaves the amounts alone leaves *)
(* them explained: what they rest on is settled.                           *)
LEMMA ExplanationKept ==
    ASSUME ReportsInv, PricedInv, [ReportsNext]_reportsVars,
           stakeAmount' = stakeAmount, disputeFee' = disputeFee,
           \A q \in QueryId : /\ DOMAIN price[q] \subseteq DOMAIN price'[q]
                              /\ \A s \in DOMAIN price[q] : price'[q][s] = price[q][s]
    PROVE  AmountsExplained'
<1>1. CASE stakeAmount = MinimumStakeAmount /\ disputeFee = InitialDisputeFee
  BY <1>1 DEF AmountsExplained
<1>2. CASE ~(stakeAmount = MinimumStakeAmount /\ disputeFee = InitialDisputeFee)
  <2> DEFINE qs == StakingTokenPriceQueryId
             ql == StakingToLocalTokenPriceQueryId
  <2>1. PICK t \in 0..(now - SettlePeriod) : InForce(LatestBefore(qs, t), LatestBefore(ql, t))
    BY <1>2 DEF PricedInv, AmountsExplained
  <2>2. qs \in QueryId /\ ql \in QueryId /\ SettlePeriod \in Nat /\ SettlePeriod >= ReportingLock
    BY StakeAmountAssumption
  <2>3. now \in Nat /\ now' \in Nat /\ now <= now' /\ ReportingLock \in Nat
    BY <2>2, SeriesStep, ReportsAssumption
  <2>4. t \in Nat /\ now - (t - 1) >= ReportingLock /\ t \in 0..(now' - SettlePeriod)
    <3>1. PICK n, m \in Nat : n = now' /\ m = now
      BY <2>3
    <3>2. m <= n /\ t \in 0..(m - SettlePeriod)
      BY <2>1, <2>3, <3>1
    <3>3. t \in Nat /\ m - (t - 1) >= ReportingLock /\ t \in 0..(n - SettlePeriod)
      BY <2>2, <2>3, <3>2
    <3>4. QED
      BY <3>1, <3>3
  <2>5. LatestBefore(qs, t)' = LatestBefore(qs, t) /\ LatestBefore(ql, t)' = LatestBefore(ql, t)
    <3>1. UndisputedBefore(qs, t)' = UndisputedBefore(qs, t) /\ UndisputedBefore(ql, t)' = UndisputedBefore(ql, t)
      BY <2>2, <2>4, SeriesSettled
    <3>2. QED
      BY <3>1 DEF LatestBefore, LatestOf
  <2>6. PICK s, l : s = LatestBefore(qs, t) /\ l = LatestBefore(ql, t)
    OBVIOUS
  <2>7. InForce(s, l)
    BY <2>1, <2>6
  <2>8. InForce(s, l)'
    BY <2>2, <2>7 DEF InForce
  <2>9. InForce(LatestBefore(qs, t), LatestBefore(ql, t))'
    BY <2>5, <2>6, <2>8 DEF InForce
  <2>10. QED
    BY <2>4, <2>9 DEF AmountsExplained
<1>3. QED
  BY <1>1, <1>2

(* An update takes the latest undisputed prices of one instant, a settle   *)
(* period ago.                                                             *)
LEMMA UpdateExplained ==
    ASSUME ReportsInv, PricedInv, UpdateAmounts, [ReportsNext]_reportsVars, price' = price,
           UNCHANGED storeVars
    PROVE  AmountsExplained'
<1> DEFINE qs == StakingTokenPriceQueryId
           ql == StakingToLocalTokenPriceQueryId
<1>1. qs \in QueryId /\ ql \in QueryId /\ SettlePeriod \in Nat
  BY StakeAmountAssumption
<1>2. now \in Nat /\ now' \in Nat /\ now <= now'
  BY <1>1, SeriesStep
<1>3. ASSUME NEW q \in QueryId, SettledPrice(q) # None
      PROVE  /\ ~(now < SettlePeriod)
             /\ LatestBefore(q, now - SettlePeriod) \in DOMAIN price[q]
             /\ IsPrice(price[q][LatestBefore(q, now - SettlePeriod)])
             /\ SettledPrice(q) = price[q][LatestBefore(q, now - SettlePeriod)]
  <2>1. /\ SettledPriceTime(q) # None /\ IsPrice(price[q][SettledPriceTime(q)])
        /\ SettledPrice(q) = price[q][SettledPriceTime(q)]
    BY <1>3 DEF SettledPrice
  <2>2. ~(now < SettlePeriod) /\ now - SettlePeriod \in Nat
    BY <1>1, <1>2, <2>1 DEF SettledPriceTime
  <2>3. PICK t \in Nat : t = now - SettlePeriod
    BY <2>2
  <2>4. SettledPriceTime(q) = GetDataBefore(q, t)
    BY <2>2, <2>3 DEF SettledPriceTime, GetDataBefore, GetIndexForDataBefore, GetDataBeforeWithStart
  <2>5. IsLatest(GetDataBefore(q, t), UndisputedBefore(q, t)) /\ GetDataBefore(q, t) = LatestBefore(q, t)
    BY DataBeforeFound DEF LatestBefore
  <2>6. GetDataBefore(q, t) \in DOMAIN price[q]
    BY <2>1, <2>4, <2>5 DEF IsLatest, UndisputedBefore, PricedInv
  <2>7. QED
    BY <2>1, <2>2, <2>3, <2>4, <2>5, <2>6
<1>4. SettledPrice(qs) # None /\ SettledPrice(ql) # None
  BY DEF UpdateAmounts
<1>5. PICK t \in Nat : t = now - SettlePeriod
  BY <1>1, <1>2, <1>3, <1>4
<1>6. PICK s, l : s = LatestBefore(qs, t) /\ l = LatestBefore(ql, t)
  OBVIOUS
<1>7. LatestBefore(qs, t)' = s /\ LatestBefore(ql, t)' = l
  BY <1>6 DEF LatestBefore, UndisputedBefore, LatestOf, storeVars
<1>8. /\ s \in DOMAIN price[qs] /\ IsPrice(price[qs][s]) /\ SettledPrice(qs) = price[qs][s]
      /\ l \in DOMAIN price[ql] /\ IsPrice(price[ql][l]) /\ SettledPrice(ql) = price[ql][l]
  BY <1>1, <1>3, <1>4, <1>5, <1>6
<1>9. stakeAmount' = StakeFor(price[qs][s]) /\ disputeFee' = FeeFor(StakeFor(price[qs][s]), price[ql][l])
  BY <1>8 DEF UpdateAmounts
<1>10. InForce(s, l)'
  BY <1>8, <1>9 DEF InForce
<1>11. InForce(LatestBefore(qs, t), LatestBefore(ql, t))'
  BY <1>7, <1>10 DEF InForce
<1>12. t \in 0..(now' - SettlePeriod)
  <2>1. PICK n, m \in Nat : n = now' /\ m = now
    BY <1>2
  <2>2. m <= n /\ t = m - SettlePeriod
    BY <1>2, <1>5, <2>1
  <2>3. t \in 0..(n - SettlePeriod)
    BY <1>1, <2>2
  <2>4. QED
    BY <2>1, <2>3
<1>13. QED
  BY <1>11, <1>12 DEF AmountsExplained

(* The stake amount and the dispute fee always come from the prices of one *)
(* settled instant, and from prices that nobody can dispute any more.      *)
THEOREM AmountsCorrect == StakeAmountSpec => []AmountsExplained
<1>1. StakeAmountInit => PricedInv
  BY DEF StakeAmountInit, ReportsInit, PricedInv, AmountsExplained
<1>2. ReportsInv /\ PricedInv /\ [ReportsNext]_reportsVars /\ [StakeAmountNext]_stakeAmountVars => PricedInv'
  <2> SUFFICES ASSUME ReportsInv, PricedInv, [ReportsNext]_reportsVars, [StakeAmountNext]_stakeAmountVars
               PROVE  PricedInv'
    OBVIOUS
  <2>1. CASE Submit
    <3>1. PICK a \in Account, q \in QueryId, m \in StakeMultiples, p \in ReportedPrices :
             SubmitPrice(a, q, m, p)
      BY <2>1 DEF Submit
    <3>2. Appended(a, q)
      BY <3>1, SubmitEffect DEF SubmitPrice, ReportsInv
    <3>3. /\ price' = [price EXCEPT ![q] = [t \in DOMAIN price[q] \cup {now} |->
                                              IF t = now THEN p ELSE price[q][t]]]
          /\ stakeAmount' = stakeAmount /\ disputeFee' = disputeFee
      BY <3>1 DEF SubmitPrice, amountVars
    <3>4. now \notin DOMAIN price[q]
      BY <3>2 DEF Appended, PricedInv
    <3>5. /\ DOMAIN price' = QueryId /\ DOMAIN price'[q] = DOMAIN price[q] \cup {now}
          /\ \A s \in DOMAIN price[q] : price'[q][s] = price[q][s]
          /\ \A r \in QueryId \ {q} : price'[r] = price[r]
      BY <3>3, <3>4 DEF PricedInv
    <3>6. \A r \in QueryId : DOMAIN price'[r] = DOMAIN reports'[r]
      BY <3>2, <3>5 DEF Appended, PricedInv
    <3>7. AmountsExplained'
      BY <3>3, <3>5, ExplanationKept
    <3>8. QED
      BY <3>5, <3>6, <3>7 DEF PricedInv
  <2>2. CASE Dispute
    <3>1. price' = price /\ stakeAmount' = stakeAmount /\ disputeFee' = disputeFee
      BY <2>2 DEF Dispute, amountVars
    <3>2. AmountsExplained'
      BY <3>1, ExplanationKept
    <3>3. \A q \in QueryId : DOMAIN reports'[q] = DOMAIN reports[q]
      <4>1. PICK p \in QueryId : \E t \in DOMAIN reports[p] : WithinDisputePeriod(t) /\ RemoveValue(p, t)
        BY <2>2 DEF Dispute, RemoveValueStep
      <4>2. PICK t \in DOMAIN reports[p] : RemoveValue(p, t)
        BY <4>1
      <4>3. PICK stop : Removed(p, t, stop)
        BY <4>2, RemoveEffect DEF ReportsInv
      <4>4. QED
        BY <4>3 DEF Removed, Relinked
    <3>4. QED
      BY <3>1, <3>2, <3>3 DEF PricedInv
  <2>3. ASSUME UNCHANGED storeVars, price' = price, UpdateAmounts \/ UNCHANGED <<stakeAmount, disputeFee>>
        PROVE  PricedInv'
    <3>1. AmountsExplained'
      BY <2>3, ExplanationKept, UpdateExplained
    <3>2. QED
      BY <2>3, <3>1 DEF PricedInv, storeVars
  <2>4. CASE UpdateStakeAmount
    BY <2>3, <2>4 DEF UpdateStakeAmount, reportsVars
  <2>5. CASE Block
    BY <2>3, <2>5 DEF Block, NewBlock, OnInitialize, amountVars
  <2>6. CASE UNCHANGED stakeAmountVars
    BY <2>3, <2>6 DEF stakeAmountVars, reportsVars, amountVars
  <2>7. QED
    BY <2>1, <2>2, <2>4, <2>5, <2>6 DEF StakeAmountNext
<1>3. PricedInv => AmountsExplained
  BY DEF PricedInv
<1>4. QED
  BY <1>1, <1>2, <1>3, AmountsOnlyRead, InitInv, StepInv, PTL DEF StakeAmountSpec, ReportsSpec
=============================================================================
