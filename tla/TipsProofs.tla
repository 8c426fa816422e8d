----------------------------- MODULE TipsProofs -----------------------------
(***************************************************************************)
(* Proofs about one-time tips and data feeds, for all values of the        *)
(* constants.  The argument is kept per query, in terms of its tips and of *)
(* what was paid for its reports, so that it serves one-time tips alone    *)
(* and next to data feeds.                                                 *)
(***************************************************************************)
EXTENDS DataFeeds, ReportsProofs, SumTheorems, SequenceTheorems

-----------------------------------------------------------------------------
(* A series of tips: in the order of time, with growing cumulative tips,   *)
(* each tip holding all that was given or nothing.                         *)
GivenOf(ts, i) == ts[i].cumulative_tips - (IF i = 1 THEN 0 ELSE ts[i - 1].cumulative_tips)

IsSeries(ts) ==
    /\ ts \in Seq(TipRecord)
    /\ \A i, j \in 1..Len(ts) : i < j => /\ ts[i].timestamp < ts[j].timestamp
                                        /\ ts[i].cumulative_tips < ts[j].cumulative_tips
    /\ \A i \in 1..Len(ts) : /\ ts[i].timestamp > 0
                            /\ ts[i].cumulative_tips > 0
                            /\ ts[i].amount \in {0, GivenOf(ts, i)}

(* The fields of the tips of a series are numbers. *)
LEMMA SeriesTypes ==
    ASSUME NEW ts, IsSeries(ts)
    PROVE  /\ Len(ts) \in Nat
           /\ \A i \in 1..Len(ts) : /\ ts[i] \in TipRecord /\ ts[i].timestamp \in Nat
                                   /\ ts[i].cumulative_tips \in Nat /\ ts[i].amount \in Nat
<1>1. Len(ts) \in Nat /\ \A i \in 1..Len(ts) : ts[i] \in TipRecord
  BY LenProperties, ElementOfSeq DEF IsSeries
<1>2. QED
  BY <1>1 DEF TipRecord, Timestamp

(* k is the last tip of a series no later than t. *)
IsLastUpTo(ts, k, t) ==
    /\ k \in 1..Len(ts)
    /\ ts[k].timestamp <= t
    /\ k = Len(ts) \/ ts[k + 1].timestamp > t

(* The cumulative tips of a series up to time t. *)
TotalUpTo(ts, t) ==
    LET last == {i \in 1..Len(ts) : ts[i].timestamp <= t}
    IN IF last = {} THEN 0
       ELSE LET i == CHOOSE i \in last : \A j \in last : j <= i
            IN ts[i].cumulative_tips

(* They are those of the last tip up to then. *)
LEMMA TotalIsLast ==
    ASSUME NEW ts, IsSeries(ts), NEW t \in Nat, NEW k, IsLastUpTo(ts, k, t)
    PROVE  TotalUpTo(ts, t) = ts[k].cumulative_tips
<1> DEFINE last == {i \in 1..Len(ts) : ts[i].timestamp <= t}
           c == CHOOSE i \in last : \A j \in last : j <= i
<1>1. Len(ts) \in Nat /\ \A i \in 1..Len(ts) : ts[i].timestamp \in Nat
  BY SeriesTypes
<1>2. k \in last
  BY DEF IsLastUpTo
<1>3. ASSUME NEW j \in last PROVE j <= k
  <2> SUFFICES ASSUME j > k PROVE FALSE
    BY <1>1, <1>2
  <2>1. k # Len(ts) /\ k + 1 \in 1..Len(ts) /\ ts[k + 1].timestamp > t
    BY <1>1, <1>2 DEF IsLastUpTo
  <2>2. k + 1 = j \/ ts[k + 1].timestamp < ts[j].timestamp
    BY <1>1, <1>2, <2>1 DEF IsSeries
  <2>3. QED
    BY <1>1, <2>1, <2>2
<1>4. c \in last /\ \A j \in last : j <= c
  BY <1>2, <1>3
<1>5. c = k
  BY <1>1, <1>2, <1>3, <1>4
<1>6. TotalUpTo(ts, t) = ts[c].cumulative_tips
  BY <1>2 DEF TotalUpTo
<1>7. QED
  BY <1>5, <1>6

(* They are nothing before the first tip. *)
LEMMA TotalIsNone ==
    ASSUME NEW ts, IsSeries(ts), NEW t \in Nat, Len(ts) = 0 \/ ts[1].timestamp > t
    PROVE  /\ \A i \in 1..Len(ts) : ~(ts[i].timestamp <= t)
           /\ TotalUpTo(ts, t) = 0
<1>1. Len(ts) \in Nat /\ \A i \in 1..Len(ts) : ts[i].timestamp \in Nat
  BY SeriesTypes
<1>2. ASSUME NEW i \in 1..Len(ts) PROVE ~(ts[i].timestamp <= t)
  <2>1. 1 \in 1..Len(ts) /\ ts[1].timestamp > t
    BY <1>1
  <2>2. i = 1 \/ ts[1].timestamp < ts[i].timestamp
    BY <2>1 DEF IsSeries
  <2>3. QED
    BY <1>1, <2>1, <2>2
<1>3. QED
  BY <1>2 DEF TotalUpTo

(* Every time is before the first tip or has a last tip up to it. *)
LEMMA LastExists ==
    ASSUME NEW ts, IsSeries(ts), NEW t \in Nat, Len(ts) # 0, ts[1].timestamp <= t
    PROVE  \E k \in 1..Len(ts) : IsLastUpTo(ts, k, t)
<1>1. Len(ts) \in Nat /\ \A i \in 1..Len(ts) : ts[i].timestamp \in Nat
  BY SeriesTypes
<1> DEFINE P == {n \in Nat : n + 1 \in 1..Len(ts) => ts[n + 1].timestamp <= t}
<1>2. SUFFICES ASSUME \A k \in 1..Len(ts) : ~IsLastUpTo(ts, k, t) PROVE FALSE
  OBVIOUS
<1>3. 0 \in P
  BY <1>1
<1>4. ASSUME NEW n \in Nat, n \in P PROVE n + 1 \in P
  <2> SUFFICES ASSUME n + 2 \in 1..Len(ts) PROVE ts[n + 2].timestamp <= t
    BY <1>4
  <2>1. n + 1 \in 1..Len(ts) /\ ts[n + 1].timestamp <= t /\ n + 1 # Len(ts) /\ (n + 1) + 1 = n + 2
    BY <1>1, <1>4
  <2>2. ~(ts[(n + 1) + 1].timestamp > t)
    BY <1>2, <2>1 DEF IsLastUpTo
  <2>3. QED
    BY <1>1, <2>1, <2>2
<1>5. Nat \subseteq P
  <2> HIDE DEF P
  <2>1. QED
    BY <1>3, <1>4, NatSetInduction
<1>6. Len(ts) - 1 \in Nat /\ (Len(ts) - 1) + 1 = Len(ts) /\ Len(ts) \in 1..Len(ts)
  BY <1>1
<1>7. Len(ts) - 1 \in P
  BY <1>5, <1>6
<1>8. ts[Len(ts)].timestamp <= t
  BY <1>6, <1>7
<1>9. QED
  BY <1>2, <1>6, <1>8 DEF IsLastUpTo

-----------------------------------------------------------------------------
(* The binary search of get_onetime_tip_amount as a loop over ranges. *)
Ranges == Nat \X Nat
MidTip(x) == (x[2] + x[1]) \div 2
DoneTip == {x \in Ranges : x[2] - x[1] <= 1}
ResultTip == [x \in Ranges |-> x[1]]
StepTip(ts, t) ==
    [x \in Ranges |-> IF ts[MidTip(x) + 1].timestamp > t THEN <<x[1], MidTip(x)>> ELSE <<MidTip(x), x[2]>>]

(* The search of the model is that loop. *)
LEMMA TipSearchLoop ==
    ASSUME NEW ts, NEW t
    PROVE  \E f : /\ IsLoop(f, Ranges, DoneTip, ResultTip, StepTip(ts, t))
                  /\ \A lo, hi : TipSearch(ts, t, lo, hi) = f[<<lo, hi>>]
<1> DEFINE Loop(f) == [x \in Ranges |-> IF x \in DoneTip THEN ResultTip[x] ELSE f[StepTip(ts, t)[x]]]
           At(f, x) ==
             LET min == x[1]
                 max == x[2]
                 mid == (max + min) \div 2
             IN IF max - min <= 1 THEN min
                ELSE IF ts[mid + 1].timestamp > t THEN f[<<min, mid>>]
                ELSE f[<<mid, max>>]
           Body(f) == [x \in Nat \X Nat |-> At(f, x)]
           C == CHOOSE f : f = Body(f)
<1>1. ASSUME NEW f PROVE Body(f) = Loop(f)
  <2>1. ASSUME NEW x \in Ranges
        PROVE  At(f, x) = IF x \in DoneTip THEN ResultTip[x] ELSE f[StepTip(ts, t)[x]]
    <3>1. StepTip(ts, t)[x] = IF ts[MidTip(x) + 1].timestamp > t
                              THEN <<x[1], MidTip(x)>> ELSE <<MidTip(x), x[2]>>
      BY Zenon DEF StepTip
    <3>2. ResultTip[x] = x[1]
      BY Zenon DEF ResultTip
    <3>3. QED
      BY <3>1, <3>2 DEF DoneTip, MidTip
  <2>2. QED
    BY <2>1 DEF Ranges
<1>2. \A x \in Ranges \ DoneTip : StepTip(ts, t)[x] \in Ranges
  BY DEF Ranges, DoneTip, StepTip, MidTip
<1>3. \A f : f = Loop(f) <=> IsLoop(f, Ranges, DoneTip, ResultTip, StepTip(ts, t))
  BY Zenon DEF IsLoop
<1>4. \A lo, hi : TipSearch(ts, t, lo, hi) = C[<<lo, hi>>]
  BY DEF TipSearch
<1> HIDE DEF Body, Loop
<1>5. \E f : f = Body(f)
  BY <1>1, <1>2, <1>3, TailRecursion
<1>6. C = Body(C)
  BY <1>5, Zenon
<1>7. QED
  BY <1>1, <1>3, <1>4, <1>6

(* The search ends between its bounds, at a tip no later than t with the   *)
(* next one later, as far as its bounds allow.                             *)
LEMMA TipSearchFinds ==
    ASSUME NEW ts, IsSeries(ts), NEW t \in Nat, NEW lo \in Nat, NEW hi \in 0..Len(ts)
    PROVE  LET r == TipSearch(ts, t, lo, hi)
           IN /\ hi <= lo => r = lo
              /\ lo < hi => /\ r \in lo..(hi - 1)
                            /\ r = lo \/ ts[r + 1].timestamp <= t
                            /\ r = hi - 1 \/ ts[r + 2].timestamp > t
<1> DEFINE Inv == {x \in Ranges : /\ lo <= x[1] /\ x[1] < x[2] /\ x[2] <= hi
                                  /\ x[1] = lo \/ ts[x[1] + 1].timestamp <= t
                                  /\ x[2] = hi \/ ts[x[2] + 1].timestamp > t}
           mu == [x \in Ranges |-> x[2] - x[1]]
           Good == {r \in lo..(hi - 1) : /\ r = lo \/ ts[r + 1].timestamp <= t
                                         /\ r = hi - 1 \/ ts[r + 2].timestamp > t}
           step == StepTip(ts, t)
<1>1. Len(ts) \in Nat /\ hi \in Nat /\ \A i \in 1..Len(ts) : ts[i].timestamp \in Nat
  BY SeriesTypes
<1>2. PICK f : /\ IsLoop(f, Ranges, DoneTip, ResultTip, step)
               /\ TipSearch(ts, t, lo, hi) = f[<<lo, hi>>]
  BY TipSearchLoop
<1>3. CASE hi <= lo
  <2>1. <<lo, hi>> \in DoneTip /\ ResultTip[<<lo, hi>>] = lo /\ <<lo, hi>> \in Ranges
    BY <1>1, <1>3 DEF DoneTip, ResultTip, Ranges
  <2>2. f[<<lo, hi>>] = ResultTip[<<lo, hi>>]
    <3>1. f = [x \in Ranges |-> IF x \in DoneTip THEN ResultTip[x] ELSE f[step[x]]]
      BY <1>2 DEF IsLoop
    <3> HIDE DEF step
    <3>2. QED
      BY <2>1, <3>1
  <2>3. QED
    BY <1>1, <1>2, <1>3, <2>1, <2>2
<1>4. CASE lo < hi
  <2>1. <<lo, hi>> \in Inv
    BY <1>1, <1>4 DEF Ranges
  <2>2. ASSUME NEW x \in Inv
        PROVE  /\ mu[x] \in Nat
               /\ x \in DoneTip => ResultTip[x] \in Good
               /\ x \notin DoneTip => step[x] \in Inv /\ mu[step[x]] < mu[x]
    <3>1. /\ x[1] \in Nat /\ x[2] \in Nat /\ x \in Ranges /\ x[1] < x[2] /\ lo <= x[1] /\ x[2] <= hi
          /\ x[1] = lo \/ ts[x[1] + 1].timestamp <= t
          /\ x[2] = hi \/ ts[x[2] + 1].timestamp > t
      BY DEF Ranges
    <3>2. mu[x] = x[2] - x[1]
      BY <3>1
    <3>3. ASSUME x \in DoneTip PROVE ResultTip[x] \in Good
      <4>1. x[2] = x[1] + 1 /\ ResultTip[x] = x[1]
        BY <3>1, <3>3 DEF DoneTip, ResultTip
      <4>2. x[2] + 1 = x[1] + 2
        BY <3>1, <4>1
      <4>3. QED
        BY <1>1, <3>1, <4>1, <4>2
    <3>4. ASSUME x \notin DoneTip PROVE step[x] \in Inv /\ mu[step[x]] < mu[x]
      <4> DEFINE m == MidTip(x)
      <4>1. m \in Nat /\ x[1] < m /\ m < x[2]
        BY <3>1, <3>4 DEF DoneTip, MidTip
      <4>2. step[x] = IF ts[m + 1].timestamp > t THEN <<x[1], m>> ELSE <<m, x[2]>>
        BY <3>1 DEF StepTip
      <4> HIDE DEF m
      <4>3. CASE ts[m + 1].timestamp > t
        BY <1>1, <3>1, <4>1, <4>2, <4>3 DEF Ranges
      <4>4. CASE ~(ts[m + 1].timestamp > t)
        <5>1. m + 1 \in 1..Len(ts)
          BY <1>1, <3>1, <4>1
        <5>2. ts[m + 1].timestamp <= t
          BY <1>1, <4>4, <5>1
        <5>3. QED
          BY <1>1, <3>1, <4>1, <4>2, <4>4, <5>2 DEF Ranges
      <4>5. QED
        BY <4>3, <4>4
    <3>5. QED
      BY <3>1, <3>2, <3>3, <3>4
  <2>3. f[<<lo, hi>>] \in Good
    <3>1. LoopArgument(Inv, mu, Good, Ranges, DoneTip, ResultTip, step)
      <4>1. Inv \subseteq Ranges
        OBVIOUS
      <4> HIDE DEF Inv, mu, Good, step
      <4>2. QED
        BY <2>2, <4>1 DEF LoopArgument
    <3> HIDE DEF Inv, mu, Good, step
    <3>2. QED
      BY <1>2, <2>1, <3>1, LoopResult
  <2>4. TipSearch(ts, t, lo, hi) \in Good
    BY <1>2, <2>3
  <2>5. /\ TipSearch(ts, t, lo, hi) \in lo..(hi - 1)
        /\ TipSearch(ts, t, lo, hi) = lo \/ ts[TipSearch(ts, t, lo, hi) + 1].timestamp <= t
        /\ TipSearch(ts, t, lo, hi) = hi - 1 \/ ts[TipSearch(ts, t, lo, hi) + 2].timestamp > t
    BY <2>4
  <2>6. ~(hi <= lo)
    BY <1>1, <1>4
  <2>7. QED
    BY <2>5, <2>6, Zenon
<1>5. QED
  BY <1>1, <1>3, <1>4

-----------------------------------------------------------------------------
(* The tip a report at t earned is the last one up to t. *)
LEMMA EarnedTipIs ==
    ASSUME NEW ts, IsSeries(ts), Len(ts) # 0, NEW t \in Nat
    PROVE  /\ EarnedTip(ts, t) \in 0..(Len(ts) - 1)
           /\ ts[EarnedTip(ts, t) + 1].timestamp <= t => IsLastUpTo(ts, EarnedTip(ts, t) + 1, t)
           /\ \A k : IsLastUpTo(ts, k, t) => k = EarnedTip(ts, t) + 1
<1>1. Len(ts) \in Nat /\ \A i \in 1..Len(ts) : ts[i].timestamp \in Nat
  BY SeriesTypes
<1> DEFINE r == TipSearch(ts, t, 0, Len(ts))
<1>2. /\ r \in 0..(Len(ts) - 1)
      /\ r = 0 \/ ts[r + 1].timestamp <= t
      /\ r = Len(ts) - 1 \/ ts[r + 2].timestamp > t
  <2>1. Len(ts) \in 0..Len(ts) /\ 0 < Len(ts) /\ 0 \in Nat
    BY <1>1
  <2>2. QED
    BY <2>1, TipSearchFinds
<1>3. EarnedTip(ts, t) = r
  BY DEF EarnedTip
<1> HIDE DEF r
<1>4. r + 1 \in 1..Len(ts) /\ (r + 1) + 1 = r + 2 /\ (r = Len(ts) - 1 => r + 1 = Len(ts))
  BY <1>1, <1>2
<1>5. ts[r + 1].timestamp <= t => IsLastUpTo(ts, r + 1, t)
  BY <1>2, <1>4 DEF IsLastUpTo
<1>6. ASSUME NEW k, IsLastUpTo(ts, k, t) PROVE k = r + 1
  <2>1. k \in 1..Len(ts) /\ ts[k].timestamp <= t /\ (k = Len(ts) \/ ts[k + 1].timestamp > t)
    BY <1>6 DEF IsLastUpTo
  <2>2. CASE k < r + 1
    <3>1. r # 0 /\ ts[r + 1].timestamp <= t /\ k # Len(ts) /\ k + 1 \in 1..Len(ts)
      BY <1>1, <1>2, <1>4, <2>1, <2>2
    <3>2. k + 1 = r + 1 \/ ts[k + 1].timestamp < ts[r + 1].timestamp
      BY <1>1, <1>4, <2>1, <2>2, <3>1 DEF IsSeries
    <3>3. QED
      BY <1>1, <1>4, <2>1, <3>1, <3>2
  <2>3. CASE k > r + 1
    <3>1. r # Len(ts) - 1 /\ ts[r + 2].timestamp > t /\ r + 2 \in 1..Len(ts)
      BY <1>1, <1>2, <1>4, <2>1, <2>3
    <3>2. k = r + 2 \/ ts[r + 2].timestamp < ts[k].timestamp
      BY <1>1, <1>4, <2>1, <2>3, <3>1 DEF IsSeries
    <3>3. QED
      BY <1>1, <2>1, <3>1, <3>2
  <2>4. QED
    BY <1>1, <1>4, <2>1, <2>2, <2>3
<1>7. QED
  BY <1>2, <1>3, <1>5, <1>6

(* Before tip k the cumulative tips are at most those of the tip before.   *)
LEMMA TotalBelow ==
    ASSUME NEW ts, IsSeries(ts), NEW t \in Nat, NEW k \in 1..Len(ts), ts[k].timestamp > t
    PROVE  /\ TotalUpTo(ts, t) \in Nat
           /\ TotalUpTo(ts, t) <= IF k = 1 THEN 0 ELSE ts[k - 1].cumulative_tips
<1>1. Len(ts) \in Nat /\ \A i \in 1..Len(ts) : ts[i].timestamp \in Nat /\ ts[i].cumulative_tips \in Nat
  BY SeriesTypes
<1>2. CASE ts[1].timestamp > t
  <2>1. TotalUpTo(ts, t) = 0
    BY <1>2, TotalIsNone
  <2>2. k = 1 \/ k - 1 \in 1..Len(ts)
    BY <1>1
  <2>3. QED
    BY <1>1, <2>1, <2>2
<1>3. CASE ~(ts[1].timestamp > t)
  <2>1. 1 \in 1..Len(ts) /\ Len(ts) # 0 /\ ts[1].timestamp <= t
    BY <1>1, <1>3
  <2>2. PICK j \in 1..Len(ts) : IsLastUpTo(ts, j, t)
    BY <2>1, LastExists
  <2>3. TotalUpTo(ts, t) = ts[j].cumulative_tips /\ ts[j].timestamp <= t
    BY <2>2, TotalIsLast DEF IsLastUpTo
  <2>4. j < k
    <3> SUFFICES ASSUME ~(j < k) PROVE FALSE
      OBVIOUS
    <3>1. j = k \/ ts[k].timestamp < ts[j].timestamp
      BY <1>1 DEF IsSeries
    <3>2. QED
      BY <1>1, <2>3, <3>1
  <2>5. k # 1 /\ k - 1 \in 1..Len(ts)
    BY <1>1, <2>4
  <2>6. j = k - 1 \/ ts[j].cumulative_tips < ts[k - 1].cumulative_tips
    BY <1>1, <2>4, <2>5 DEF IsSeries
  <2>7. ts[k - 1].cumulative_tips \in Nat /\ ts[j].cumulative_tips \in Nat
    BY <1>1, <2>5
  <2>8. QED
    BY <2>3, <2>5, <2>6, <2>7
<1>4. QED
  BY <1>2, <1>3

(* What a report at t with its back pointer is due from a series. *)
DueOf(q, ts, t) == TotalUpTo(ts, t) - TotalUpTo(ts, OrDefault(reports[q][t].previous))

(* The books of a query: its tips, and what was paid for its reports.      *)
(* Only settled, undisputed reports were paid, no more than they are due,  *)
(* and the tip they earned is claimed; a tip is claimed only when the      *)
(* report that earned it was paid.                                         *)
Books(q, ts, pd) ==
    /\ IsSeries(ts)
    /\ \A i \in 1..Len(ts) : ts[i].timestamp <= now + 1
    /\ IsFiniteSet(DOMAIN pd) /\ pd \in [DOMAIN pd -> Nat] /\ DOMAIN pd \subseteq Undisputed(q)
    /\ \A t \in DOMAIN pd :
          /\ now - t >= ReportingLock
          /\ pd[t] <= DueOf(q, ts, t)
          /\ \E k \in 1..Len(ts) : IsLastUpTo(ts, k, t) /\ ts[k].amount = 0
    /\ \A i \in 1..Len(ts) : ts[i].amount = 0 =>
          \E t \in DOMAIN pd : /\ ts[i].timestamp <= t
                               /\ OrDefault(reports[q][t].previous) < ts[i].timestamp

(* What the claim of a report grants is at most what the report is due. *)
LEMMA GrantedWithinDue ==
    ASSUME ReportsInv, NEW q \in QueryId, NEW ts, IsSeries(ts), NEW a, NEW t, MayClaim(a, q, ts, t)
    PROVE  /\ t \in Nat /\ Len(ts) # 0
           /\ IsLastUpTo(ts, EarnedTip(ts, t) + 1, t)
           /\ TipAmount(q, ts, t) \in Nat
           /\ TipAmount(q, ts, t) <= DueOf(q, ts, t)
<1> DEFINE e == EarnedTip(ts, t)
           p == reports[q][t].previous
<1>1. t \in DOMAIN reports[q] /\ t \in Nat /\ p \in Nat \cup {None} /\ reports[q][t] \in Report
  BY DEF MayClaim, ReportsInv, ReportsTypeOK, Timestamp, MaybeTimestamp, Report
<1>2. /\ Len(ts) \in Nat
      /\ \A i \in 1..Len(ts) : /\ ts[i].timestamp \in Nat /\ ts[i].cumulative_tips \in Nat
                              /\ ts[i].amount \in Nat
  BY SeriesTypes
<1>3. Len(ts) # 0
  <2>1. ts # <<>> /\ ts \in Seq(TipRecord)
    BY DEF MayClaim, IsSeries
  <2>2. QED
    BY <2>1, EmptySeq
<1>4. /\ OrDefault(p) < ts[e + 1].timestamp /\ ts[e + 1].timestamp <= t
      /\ ts[e + 1].amount > 0
  <2>1. t >= ts[e + 1].timestamp /\ OrDefault(p) < ts[e + 1].timestamp /\ ts[e + 1].amount > 0
    BY DEF MayClaim
  <2>2. QED
    BY <2>1
<1>5. e \in 0..(Len(ts) - 1) /\ IsLastUpTo(ts, e + 1, t)
  BY <1>1, <1>3, <1>4, EarnedTipIs
<1>6. TotalUpTo(ts, t) = ts[e + 1].cumulative_tips /\ e + 1 \in 1..Len(ts) /\ e \in Nat
  BY <1>1, <1>2, <1>5, TotalIsLast
<1>7. CASE p = None
  <2>1. TipAmount(q, ts, t) = ts[e + 1].cumulative_tips
    BY <1>7 DEF TipAmount
  <2>2. 1 \in 1..Len(ts) /\ ts[1].timestamp > 0
    BY <1>2, <1>3 DEF IsSeries
  <2>3. TotalUpTo(ts, 0) = 0
    BY <2>2, TotalIsNone
  <2>4. DueOf(q, ts, t) = ts[e + 1].cumulative_tips - 0
    BY <1>6, <1>7, <2>3 DEF DueOf, OrDefault
  <2>5. QED
    BY <1>1, <1>2, <1>3, <1>5, <1>6, <2>1, <2>4
<1>8. CASE p # None
  <2> DEFINE first == TipSearch(ts, p, 0, e) + 1
  <2>1. p \in Nat /\ OrDefault(p) = p /\ DueOf(q, ts, t) = ts[e + 1].cumulative_tips - TotalUpTo(ts, p)
    BY <1>1, <1>6, <1>8 DEF DueOf, OrDefault
  <2>2. TipAmount(q, ts, t) =
          IF /\ reports[q][t].index - reports[q][p].index > 1
             /\ first < e
          THEN ts[e + 1].cumulative_tips - ts[first + 1].cumulative_tips + ts[first + 1].amount
          ELSE ts[e + 1].amount
    BY <1>8, Zenon DEF TipAmount
  <2>3. CASE /\ reports[q][t].index - reports[q][p].index > 1
             /\ first < e
    <3> DEFINE r == TipSearch(ts, p, 0, e)
    <3>1. /\ e <= 0 => r = 0
          /\ 0 < e => r \in 0..(e - 1) /\ (r = e - 1 \/ ts[r + 2].timestamp > p)
      <4>1. e \in 0..Len(ts)
        BY <1>2, <1>5
      <4>2. QED
        BY <2>1, <4>1, TipSearchFinds
    <3>2. r \in Nat /\ first = r + 1
      BY <1>6, <3>1
    <3>3. 0 < e /\ r # e - 1 /\ first \in 1..(e - 1) /\ first + 1 = r + 2
      BY <1>6, <2>3, <3>1, <3>2
    <3>4. first + 1 \in 1..Len(ts) /\ ts[first + 1].timestamp > p /\ first \in 1..Len(ts)
      BY <1>2, <1>5, <3>1, <3>3
    <3> HIDE DEF first, r
    <3>5. (first + 1) - 1 = first /\ first + 1 # 1
      BY <3>3
    <3>6. TotalUpTo(ts, p) \in Nat /\ TotalUpTo(ts, p) <= ts[first].cumulative_tips
      BY <2>1, <3>4, <3>5, TotalBelow
    <3>7. ts[first + 1].amount <= ts[first + 1].cumulative_tips - ts[first].cumulative_tips
      <4>1. ts[first + 1].amount \in {0, ts[first + 1].cumulative_tips - ts[first].cumulative_tips}
        BY <3>4, <3>5 DEF IsSeries, GivenOf
      <4>2. ts[first].cumulative_tips < ts[first + 1].cumulative_tips
        BY <3>3, <3>4 DEF IsSeries
      <4>3. QED
        BY <1>2, <3>4, <4>1, <4>2
    <3>8. ts[first + 1].cumulative_tips <= ts[e + 1].cumulative_tips
      <4>1. first + 1 = e + 1 \/ ts[first + 1].cumulative_tips < ts[e + 1].cumulative_tips
        BY <1>6, <3>3, <3>4 DEF IsSeries
      <4>2. QED
        BY <1>2, <1>6, <3>4, <4>1
    <3>9. /\ ts[first].cumulative_tips \in Nat /\ ts[first + 1].cumulative_tips \in Nat
          /\ ts[first + 1].amount \in Nat /\ ts[e + 1].cumulative_tips \in Nat
      BY <1>2, <1>6, <3>4
    <3>10. TipAmount(q, ts, t)
             = ts[e + 1].cumulative_tips - ts[first + 1].cumulative_tips + ts[first + 1].amount
      BY <2>2, <2>3
    <3> HIDE DEF e, p
    <3>11. TipAmount(q, ts, t) \in Nat /\ TipAmount(q, ts, t) <= DueOf(q, ts, t)
      BY <2>1, <3>6, <3>7, <3>8, <3>9, <3>10
    <3>12. QED
      BY <1>1, <1>3, <1>5, <3>11 DEF e
  <2>4. CASE ~(/\ reports[q][t].index - reports[q][p].index > 1
               /\ first < e)
    <3>1. TipAmount(q, ts, t) = ts[e + 1].amount
      BY <2>2, <2>4, Zenon
    <3>2. /\ TotalUpTo(ts, p) \in Nat
          /\ TotalUpTo(ts, p) <= IF e + 1 = 1 THEN 0 ELSE ts[(e + 1) - 1].cumulative_tips
      <4>1. ts[e + 1].timestamp > p
        BY <1>2, <1>4, <1>6, <2>1
      <4>2. QED
        BY <1>6, <2>1, <4>1, TotalBelow
    <3>3. ts[e + 1].amount = ts[e + 1].cumulative_tips - (IF e + 1 = 1 THEN 0 ELSE ts[(e + 1) - 1].cumulative_tips)
      <4>1. ts[e + 1].amount \in {0, GivenOf(ts, e + 1)}
        BY <1>6 DEF IsSeries
      <4>2. ts[e + 1].amount # 0
        BY <1>2, <1>4, <1>6
      <4>3. QED
        BY <4>1, <4>2 DEF GivenOf
    <3>4. e + 1 = 1 \/ ts[(e + 1) - 1].cumulative_tips \in Nat
      BY <1>2, <1>6
    <3>5. ts[e + 1].amount \in Nat /\ ts[e + 1].cumulative_tips \in Nat
      BY <1>2, <1>6
    <3> HIDE DEF e, p, first
    <3>6. TipAmount(q, ts, t) \in Nat /\ TipAmount(q, ts, t) <= DueOf(q, ts, t)
      BY <2>1, <3>1, <3>2, <3>3, <3>4, <3>5
    <3>7. QED
      BY <1>1, <1>3, <1>5, <3>6 DEF e
  <2>5. QED
    BY <2>3, <2>4
<1>9. QED
  BY <1>7, <1>8

-----------------------------------------------------------------------------
(* Two series that differ only in what has been claimed. *)
SameTips(ts, us) ==
    /\ Len(us) = Len(ts)
    /\ \A i \in 1..Len(ts) : /\ us[i].timestamp = ts[i].timestamp
                            /\ us[i].cumulative_tips = ts[i].cumulative_tips

(* They have the same last tips and the same totals. *)
LEMMA SameTotals ==
    ASSUME NEW ts, NEW us, IsSeries(ts), IsSeries(us), SameTips(ts, us), NEW t \in Nat
    PROVE  /\ \A k : IsLastUpTo(us, k, t) <=> IsLastUpTo(ts, k, t)
           /\ TotalUpTo(us, t) = TotalUpTo(ts, t)
<1>1. Len(ts) \in Nat
  BY SeriesTypes
<1>2. \A k : IsLastUpTo(us, k, t) <=> IsLastUpTo(ts, k, t)
  BY <1>1 DEF IsLastUpTo, SameTips
<1>3. CASE Len(ts) = 0 \/ ts[1].timestamp > t
  <2>1. Len(us) = 0 \/ us[1].timestamp > t
    BY <1>1, <1>3 DEF SameTips
  <2>2. TotalUpTo(us, t) = 0 /\ TotalUpTo(ts, t) = 0
    BY <1>3, <2>1, TotalIsNone
  <2>3. QED
    BY <1>2, <2>2
<1>4. CASE Len(ts) # 0 /\ ~(ts[1].timestamp > t)
  <2>1. 1 \in 1..Len(ts) /\ ts[1].timestamp <= t
    BY <1>1, <1>4, SeriesTypes
  <2>2. PICK k \in 1..Len(ts) : IsLastUpTo(ts, k, t)
    BY <1>4, <2>1, LastExists
  <2>3. TotalUpTo(us, t) = us[k].cumulative_tips /\ TotalUpTo(ts, t) = ts[k].cumulative_tips
    BY <1>2, <2>2, TotalIsLast
  <2>4. QED
    BY <1>2, <2>2, <2>3 DEF SameTips
<1>5. QED
  BY <1>3, <1>4

(* A claim marks one tip. *)
LEMMA ClaimedSeries ==
    ASSUME NEW ts, IsSeries(ts), NEW t, NEW k, k = EarnedTip(ts, t) + 1, k \in 1..Len(ts)
    PROVE  /\ IsSeries(Claimed(ts, t)) /\ SameTips(ts, Claimed(ts, t))
           /\ Claimed(ts, t)[k].amount = 0
           /\ \A i \in 1..Len(ts) : i # k => Claimed(ts, t)[i].amount = ts[i].amount
<1> DEFINE us == Claimed(ts, t)
<1>1. ts \in Seq(TipRecord) /\ Len(ts) \in Nat /\ DOMAIN ts = 1..Len(ts)
  BY LenProperties DEF IsSeries
<1>2. us = [ts EXCEPT ![k] = [ts[k] EXCEPT !.amount = 0]]
  BY DEF Claimed
<1>3. \A i \in 1..Len(ts) : ts[i] \in TipRecord
  BY SeriesTypes
<1>4. [ts[k] EXCEPT !.amount = 0] \in TipRecord
  BY <1>3 DEF TipRecord
<1> HIDE DEF us
<1>5. us \in Seq(TipRecord) /\ Len(us) = Len(ts)
  BY <1>1, <1>2, <1>4, ExceptSeq
<1>6. \A i \in 1..Len(ts) : i # k => us[i] = ts[i]
  BY <1>1, <1>2
<1>7. us[k] = [ts[k] EXCEPT !.amount = 0]
  BY <1>1, <1>2
<1>8. /\ us[k].amount = 0 /\ us[k].timestamp = ts[k].timestamp
      /\ us[k].cumulative_tips = ts[k].cumulative_tips
  BY <1>3, <1>7 DEF TipRecord
<1>9. \A i \in 1..Len(ts) : /\ us[i].timestamp = ts[i].timestamp
                           /\ us[i].cumulative_tips = ts[i].cumulative_tips
  BY <1>6, <1>8
<1>10. \A i \in 1..Len(ts) : us[i].amount = 0 \/ us[i].amount = ts[i].amount
  BY <1>6, <1>8
<1>11. \A i \in 1..Len(ts) : GivenOf(us, i) = GivenOf(ts, i)
  <2> SUFFICES ASSUME NEW i \in 1..Len(ts) PROVE GivenOf(us, i) = GivenOf(ts, i)
    OBVIOUS
  <2>1. i = 1 \/ i - 1 \in 1..Len(ts)
    BY <1>1
  <2>2. QED
    BY <1>9, <2>1 DEF GivenOf
<1>12. IsSeries(us)
  <2>1. ASSUME NEW i \in 1..Len(us)
        PROVE  us[i].timestamp > 0 /\ us[i].cumulative_tips > 0 /\ us[i].amount \in {0, GivenOf(us, i)}
    BY <1>5, <1>9, <1>10, <1>11 DEF IsSeries
  <2>2. \A i, j \in 1..Len(us) : i < j => /\ us[i].timestamp < us[j].timestamp
                                         /\ us[i].cumulative_tips < us[j].cumulative_tips
    BY <1>5, <1>9 DEF IsSeries
  <2>3. QED
    BY <1>5, <2>1, <2>2 DEF IsSeries
<1>13. QED
  BY <1>5, <1>6, <1>8, <1>9, <1>12 DEF SameTips, us

(* The payments with one more, for t. *)
PaidAlso(pd, t, amount) ==
    [s \in DOMAIN pd \cup {t} |->
        IF s = t THEN (IF t \in DOMAIN pd THEN pd[t] ELSE 0) + amount ELSE pd[s]]

(* A claim that passes its checks keeps the books: the report was not paid *)
(* before, and the tip it earned is marked.                                *)
LEMMA ClaimKeepsBooks ==
    ASSUME ReportsInv, NEW q \in QueryId, NEW ts, NEW pd, Books(q, ts, pd),
           NEW a, NEW t, MayClaim(a, q, ts, t)
    PROVE  /\ t \notin DOMAIN pd /\ TipAmount(q, ts, t) \in Nat
           /\ Books(q, Claimed(ts, t), PaidAlso(pd, t, TipAmount(q, ts, t)))
           /\ SameTips(ts, Claimed(ts, t))
<1> DEFINE us == Claimed(ts, t)
           k == EarnedTip(ts, t) + 1
           amount == TipAmount(q, ts, t)
           pe == PaidAlso(pd, t, amount)
<1>1. IsSeries(ts) /\ Len(ts) \in Nat /\ \A i \in 1..Len(ts) : ts[i].timestamp \in Nat /\ ts[i].amount \in Nat
  BY SeriesTypes DEF Books
<1>2. /\ t \in Nat /\ Len(ts) # 0 /\ IsLastUpTo(ts, k, t)
      /\ amount \in Nat /\ amount <= DueOf(q, ts, t)
  BY <1>1, GrantedWithinDue
<1>3. /\ t \in Undisputed(q) /\ now - t > ClaimBuffer
      /\ OrDefault(reports[q][t].previous) < ts[k].timestamp
      /\ ts[k].amount > 0
  BY DEF MayClaim, Undisputed
<1>4. k \in 1..Len(ts) /\ ts[k].timestamp <= t /\ ts[k].amount # 0
  BY <1>1, <1>2, <1>3 DEF IsLastUpTo
<1>5. \A j : IsLastUpTo(ts, j, t) => j = k
  BY <1>1, <1>2, EarnedTipIs
<1>6. t \notin DOMAIN pd
  BY <1>4, <1>5 DEF Books
<1>7. /\ IsSeries(us) /\ SameTips(ts, us) /\ us[k].amount = 0
      /\ \A i \in 1..Len(ts) : i # k => us[i].amount = ts[i].amount
  BY <1>1, <1>4, ClaimedSeries
<1>8. \A s \in Nat : (\A j : IsLastUpTo(us, j, s) <=> IsLastUpTo(ts, j, s)) /\ TotalUpTo(us, s) = TotalUpTo(ts, s)
  BY <1>1, <1>7, SameTotals
<1>9. now - t >= ReportingLock
  BY <1>2, <1>3, TipsAssumption, ReportsAssumption DEF ReportsInv, ReportsTypeOK, Timestamp
<1>10. DOMAIN pe = DOMAIN pd \cup {t} /\ pe[t] = 0 + amount /\ \A s \in DOMAIN pd : pe[s] = pd[s]
  BY <1>6 DEF PaidAlso
<1> HIDE DEF us, k, amount, pe
<1>11. DOMAIN pe \subseteq Undisputed(q)
  BY <1>3, <1>10 DEF Books
<1>12. ASSUME NEW s \in Undisputed(q)
       PROVE  s \in Nat /\ OrDefault(reports[q][s].previous) \in Nat /\ DueOf(q, us, s) = DueOf(q, ts, s)
  <2>1. s \in Nat /\ reports[q][s].previous \in Nat \cup {None}
    BY DEF Undisputed, ReportsInv, ReportsTypeOK, Timestamp, MaybeTimestamp, Report
  <2>2. OrDefault(reports[q][s].previous) \in Nat
    BY <2>1 DEF OrDefault
  <2>3. QED
    BY <1>8, <2>1, <2>2 DEF DueOf
<1>13. \A i \in 1..Len(us) : us[i].timestamp <= now + 1
  BY <1>7 DEF Books, SameTips
<1>14. IsFiniteSet(DOMAIN pe) /\ pe \in [DOMAIN pe -> Nat]
  <2>1. IsFiniteSet(DOMAIN pe)
    BY <1>10, FS_AddElement DEF Books
  <2>2. pe = [s \in DOMAIN pe |-> pe[s]]
    BY DEF pe, PaidAlso
  <2>3. \A s \in DOMAIN pe : pe[s] \in Nat
    BY <1>2, <1>10 DEF Books
  <2>4. QED
    BY <2>1, <2>2, <2>3
<1>15. ASSUME NEW s \in DOMAIN pe
       PROVE  /\ now - s >= ReportingLock
              /\ pe[s] <= DueOf(q, us, s)
              /\ \E j \in 1..Len(us) : IsLastUpTo(us, j, s) /\ us[j].amount = 0
  <2>1. s \in Undisputed(q) /\ s \in Nat /\ DueOf(q, us, s) = DueOf(q, ts, s) /\ Len(us) = Len(ts)
    BY <1>7, <1>11, <1>12 DEF SameTips
  <2>2. CASE s = t
    <3>1. pe[s] = amount
      BY <1>2, <1>10, <2>2
    <3>2. IsLastUpTo(us, k, s) /\ us[k].amount = 0 /\ k \in 1..Len(us)
      BY <1>2, <1>4, <1>7, <1>8, <2>1, <2>2
    <3>3. QED
      BY <1>2, <1>9, <2>1, <2>2, <3>1, <3>2
  <2>3. CASE s # t
    <3>1. s \in DOMAIN pd /\ pe[s] = pd[s]
      BY <1>10, <2>3
    <3>2. PICK j \in 1..Len(ts) : IsLastUpTo(ts, j, s) /\ ts[j].amount = 0
      BY <3>1 DEF Books
    <3>3. us[j].amount = 0
      BY <1>7, <3>2
    <3>4. QED
      BY <1>8, <2>1, <3>1, <3>2, <3>3 DEF Books
  <2>4. QED
    BY <2>2, <2>3
<1>16. ASSUME NEW i \in 1..Len(us), us[i].amount = 0
       PROVE  \E s \in DOMAIN pe : /\ us[i].timestamp <= s
                                   /\ OrDefault(reports[q][s].previous) < us[i].timestamp
  <2>1. i \in 1..Len(ts) /\ us[i].timestamp = ts[i].timestamp
    BY <1>7 DEF SameTips
  <2>2. CASE i = k
    BY <1>3, <1>4, <1>10, <2>1, <2>2
  <2>3. CASE i # k
    <3>1. PICK s \in DOMAIN pd : /\ ts[i].timestamp <= s
                                 /\ OrDefault(reports[q][s].previous) < ts[i].timestamp
      BY <1>7, <1>16, <2>1, <2>3 DEF Books
    <3>2. QED
      BY <1>10, <2>1, <3>1
  <2>4. QED
    BY <2>2, <2>3
<1>17. Books(q, us, pe)
  BY <1>7, <1>11, <1>13, <1>14, <1>15, <1>16 DEF Books
<1>18. QED
  BY <1>2, <1>6, <1>7, <1>17 DEF us, pe, amount

-----------------------------------------------------------------------------
(* Undisputed reports are no later than LastReportedTimestamp, which is    *)
(* not in the future.                                                      *)
LEMMA LastBounds ==
    ASSUME ReportsInv, NEW q \in QueryId
    PROVE  /\ now \in Nat /\ OrDefault(lastReported[q]) \in Nat /\ OrDefault(lastReported[q]) <= now
           /\ \A t \in Undisputed(q) :
                 /\ t \in Nat /\ t <= OrDefault(lastReported[q])
                 /\ OrDefault(reports[q][t].previous) \in Nat
                 /\ OrDefault(reports[q][t].previous) <= t
<1>1. now \in Nat /\ lastReported[q] \in Nat \cup {None} /\ DOMAIN reports[q] \subseteq Nat
  BY DEF ReportsInv, ReportsTypeOK, Timestamp, MaybeTimestamp
<1>2. IsLatest(lastReported[q], Undisputed(q)) /\ \A t \in DOMAIN reports[q] : t <= now
  BY DEF ReportsInv, LastIsLatestUndisputed, IndexConsistent
<1>3. Undisputed(q) \subseteq DOMAIN reports[q]
  BY DEF Undisputed
<1>4. lastReported[q] # None => lastReported[q] \in Undisputed(q)
  BY <1>2 DEF IsLatest
<1>5. OrDefault(lastReported[q]) \in Nat /\ OrDefault(lastReported[q]) <= now
  BY <1>1, <1>2, <1>3, <1>4 DEF OrDefault
<1>6. ASSUME NEW t \in Undisputed(q)
      PROVE  /\ t \in Nat /\ t <= OrDefault(lastReported[q])
             /\ OrDefault(reports[q][t].previous) \in Nat
             /\ OrDefault(reports[q][t].previous) <= t
  <2>1. t \in Nat /\ reports[q][t].previous \in Nat \cup {None} /\ t \in DOMAIN reports[q]
    BY <1>3 DEF ReportsInv, ReportsTypeOK, Timestamp, MaybeTimestamp, Report
  <2>2. lastReported[q] # None /\ t <= lastReported[q]
    BY <1>2 DEF IsLatest
  <2>3. IsLatest(reports[q][t].previous, UndisputedBefore(q, t))
    BY <2>1 DEF ReportsInv, PreviousIsLatestUndisputed
  <2>4. reports[q][t].previous # None => reports[q][t].previous < t
    BY <2>3 DEF IsLatest, UndisputedBefore
  <2>5. QED
    BY <2>1, <2>2, <2>4 DEF OrDefault
<1>7. QED
  BY <1>1, <1>5, <1>6

(* us is ts with its last tip, or a new one, replaced by `tip`. *)
Extended(ts, us, tip, merges) ==
    /\ us \in Seq(TipRecord) /\ Len(us) \in Nat /\ Len(us) >= 1
    /\ us[Len(us)] = tip
    /\ merges => Len(ts) >= 1 /\ Len(us) = Len(ts)
    /\ ~merges => Len(us) = Len(ts) + 1
    /\ \A i \in 1..(Len(us) - 1) : i \in 1..Len(ts) /\ us[i] = ts[i]

(* What tip does to the series, with the cumulative tips before it. *)
CumulativeOf(ts) == IF Len(ts) = 0 THEN 0 ELSE ts[Len(ts)].cumulative_tips

(* A tip is merged into the last one or appended. *)
LEMMA WithTipExtends ==
    ASSUME ReportsInv, NEW q \in QueryId, IsSeries(tips[q]), NEW amount \in Nat
    PROVE  LET ts == tips[q]
               merges == Len(ts) # 0 /\ OrDefault(lastReported[q]) < ts[Len(ts)].timestamp
               tip == [amount |-> IF merges THEN ts[Len(ts)].amount + amount ELSE amount,
                       timestamp |-> now + 1,
                       cumulative_tips |-> CumulativeOf(ts) + amount]
           IN Extended(ts, WithTip(q, amount), tip, merges)
<1> DEFINE ts == tips[q]
           merges == Len(ts) # 0 /\ OrDefault(lastReported[q]) < ts[Len(ts)].timestamp
           tip == [amount |-> IF merges THEN ts[Len(ts)].amount + amount ELSE amount,
                   timestamp |-> now + 1,
                   cumulative_tips |-> CumulativeOf(ts) + amount]
           us == WithTip(q, amount)
<1>1. ts \in Seq(TipRecord) /\ Len(ts) \in Nat /\ (ts = <<>> <=> Len(ts) = 0)
  BY LenProperties, EmptySeq DEF IsSeries
<1>2. \A i \in 1..Len(ts) : /\ ts[i] \in TipRecord /\ ts[i].amount \in Nat
                           /\ ts[i].cumulative_tips \in Nat
  BY SeriesTypes
<1>3. tip \in TipRecord
  <2>1. CumulativeOf(ts) \in Nat
    BY <1>1, <1>2 DEF CumulativeOf
  <2>2. (IF merges THEN ts[Len(ts)].amount + amount ELSE amount) \in Nat
    BY <1>1, <1>2
  <2>3. now + 1 \in Nat
    BY DEF ReportsInv, ReportsTypeOK, Timestamp
  <2>4. QED
    BY <2>1, <2>2, <2>3 DEF TipRecord, Timestamp
<1>4. us = IF merges THEN Append(Front(ts), tip) ELSE Append(ts, tip)
  BY <1>1, Zenon DEF WithTip, Last, CumulativeOf
<1> HIDE DEF tip, us, ts
<1>5. CASE merges
  <2>1. us = Append(SubSeq(ts, 1, Len(ts) - 1), tip) /\ Len(ts) >= 1
    BY <1>1, <1>4, <1>5 DEF Front
  <2>2. PICK fs : fs = SubSeq(ts, 1, Len(ts) - 1)
    OBVIOUS
  <2>3. /\ fs \in Seq(TipRecord) /\ Len(fs) = Len(ts) - 1
        /\ \A i \in 1..(Len(ts) - 1) : fs[i] = ts[i]
    <3>1. PICK n \in Int : n = Len(ts) - 1
      BY <1>1
    <3>2. 1 \in Int /\ \A i \in 1..n : ts[i] \in TipRecord
      BY <1>1, <1>2, <3>1
    <3>3. /\ SubSeq(ts, 1, n) \in Seq(TipRecord)
          /\ Len(SubSeq(ts, 1, n)) = IF 1 <= n THEN n - 1 + 1 ELSE 0
          /\ \A i \in 1..(n - 1 + 1) : SubSeq(ts, 1, n)[i] = ts[1 + i - 1]
      BY <3>2, SubSeqProperties
    <3>4. fs = SubSeq(ts, 1, n)
      BY <2>2, <3>1
    <3>5. n >= 0 /\ n - 1 + 1 = n /\ \A i \in 1..n : 1 + i - 1 = i
      BY <1>1, <2>1, <3>1
    <3>6. Len(fs) = n /\ \A i \in 1..n : fs[i] = ts[i]
      BY <3>3, <3>4, <3>5
    <3>7. QED
      BY <3>1, <3>3, <3>4, <3>6
  <2>4. us = Append(fs, tip)
    BY <2>1, <2>2
  <2>5. /\ us \in Seq(TipRecord) /\ Len(us) = Len(fs) + 1 /\ us[Len(fs) + 1] = tip
        /\ \A i \in 1..Len(fs) : us[i] = fs[i]
    BY <1>3, <2>3, <2>4, AppendProperties
  <2>6. Len(us) = Len(ts)
    BY <1>1, <2>3, <2>5
  <2>7. us[Len(us)] = tip
    BY <2>3, <2>5
  <2>8. \A i \in 1..(Len(us) - 1) : i \in 1..Len(ts) /\ us[i] = ts[i]
    BY <1>1, <2>3, <2>5, <2>6
  <2>9. Extended(ts, us, tip, merges)
    BY <1>1, <1>5, <2>1, <2>5, <2>6, <2>7, <2>8 DEF Extended
  <2>10. QED
    BY <2>9 DEF ts, us, tip
<1>6. CASE ~merges
  <2>1. us = Append(ts, tip)
    BY <1>4, <1>6
  <2>2. /\ us \in Seq(TipRecord) /\ Len(us) = Len(ts) + 1 /\ us[Len(ts) + 1] = tip
        /\ \A i \in 1..Len(ts) : us[i] = ts[i]
    BY <1>1, <1>3, <2>1, AppendProperties
  <2>3. \A i \in 1..(Len(us) - 1) : i \in 1..Len(ts) /\ us[i] = ts[i]
    BY <1>1, <2>2
  <2>4. Extended(ts, us, tip, merges)
    BY <1>1, <1>6, <2>2, <2>3 DEF Extended
  <2>5. QED
    BY <2>4 DEF ts, us, tip
<1>7. QED
  BY <1>5, <1>6

(* The last tips and the totals up to a time before both the last tip and  *)
(* the new one do not change.                                              *)
LEMMA ExtendedTotals ==
    ASSUME NEW ts, NEW us, NEW tip, NEW merges, Extended(ts, us, tip, merges), merges \in BOOLEAN,
           IsSeries(ts), IsSeries(us), NEW t \in Nat, tip.timestamp > t,
           merges => ts[Len(ts)].timestamp > t
    PROVE  /\ \A k : IsLastUpTo(ts, k, t) => IsLastUpTo(us, k, t) /\ us[k] = ts[k]
           /\ TotalUpTo(us, t) = TotalUpTo(ts, t)
<1>1. /\ Len(ts) \in Nat /\ Len(us) \in Nat
      /\ \A i \in 1..Len(ts) : ts[i].timestamp \in Nat
      /\ \A i \in 1..Len(us) : us[i].timestamp \in Nat
  BY SeriesTypes
<1>2. ASSUME NEW k, IsLastUpTo(ts, k, t) PROVE IsLastUpTo(us, k, t) /\ us[k] = ts[k]
  <2>1. k \in 1..Len(ts) /\ ts[k].timestamp <= t /\ (k = Len(ts) \/ ts[k + 1].timestamp > t)
    BY <1>2 DEF IsLastUpTo
  <2>2. k \in 1..(Len(us) - 1)
    <3>1. CASE merges
      <4>1. k # Len(ts)
        BY <1>1, <2>1, <3>1
      <4>2. QED
        BY <1>1, <2>1, <3>1, <4>1 DEF Extended
    <3>2. CASE ~merges
      BY <1>1, <2>1, <3>2 DEF Extended
    <3>3. QED
      BY <3>1, <3>2
  <2>3. us[k] = ts[k] /\ k \in 1..Len(us)
    BY <1>1, <2>2 DEF Extended
  <2>4. us[k + 1].timestamp > t
    <3>1. CASE k + 1 = Len(us)
      BY <3>1 DEF Extended
    <3>2. CASE k + 1 # Len(us)
      <4>1. k + 1 \in 1..(Len(us) - 1)
        BY <1>1, <2>2, <3>2
      <4>2. us[k + 1] = ts[k + 1] /\ k + 1 \in 1..Len(ts)
        BY <4>1 DEF Extended
      <4>3. k # Len(ts)
        BY <1>1, <4>2
      <4>4. QED
        BY <2>1, <4>2, <4>3
    <3>3. QED
      BY <3>1, <3>2
  <2>5. QED
    BY <2>1, <2>3, <2>4 DEF IsLastUpTo
<1>3. CASE Len(ts) = 0 \/ ts[1].timestamp > t
  <2>1. us[1].timestamp > t
    <3>1. CASE Len(us) = 1
      BY <3>1 DEF Extended
    <3>2. CASE Len(us) # 1
      <4>1. 1 \in 1..(Len(us) - 1)
        <5>1. Len(us) >= 1
          BY DEF Extended
        <5>2. PICK n \in Nat : n = Len(us)
          BY <1>1
        <5>3. 1 \in 1..(n - 1)
          BY <3>2, <5>1, <5>2
        <5>4. QED
          BY <5>2, <5>3
      <4>2. us[1] = ts[1] /\ Len(ts) # 0
        BY <1>1, <4>1 DEF Extended
      <4>3. QED
        BY <1>3, <4>2
    <3>3. QED
      BY <3>1, <3>2
  <2>2. TotalUpTo(us, t) = 0 /\ TotalUpTo(ts, t) = 0
    BY <1>3, <2>1, TotalIsNone
  <2>3. QED
    BY <1>2, <2>2
<1>4. CASE Len(ts) # 0 /\ ~(ts[1].timestamp > t)
  <2>1. 1 \in 1..Len(ts) /\ ts[1].timestamp <= t
    BY <1>1, <1>4
  <2>2. PICK k \in 1..Len(ts) : IsLastUpTo(ts, k, t)
    BY <1>4, <2>1, LastExists
  <2>3. TotalUpTo(us, t) = us[k].cumulative_tips /\ TotalUpTo(ts, t) = ts[k].cumulative_tips /\ us[k] = ts[k]
    BY <1>2, <2>2, TotalIsLast
  <2>4. QED
    BY <1>2, <2>3
<1>5. QED
  BY <1>3, <1>4

(* A tip keeps the books: it is merged only into a tip nobody has claimed, *)
(* because a claimed one is no later than a settled, undisputed report.    *)
LEMMA TipKeepsBooks ==
    ASSUME ReportsInv, NEW q \in QueryId, NEW pd, Books(q, tips[q], pd), NEW amount \in Nat \ {0}
    PROVE  /\ Books(q, WithTip(q, amount), pd)
           /\ CumulativeOf(WithTip(q, amount)) = CumulativeOf(tips[q]) + amount
<1>1. PICK ts : ts = tips[q]
  OBVIOUS
<1> DEFINE m == Len(ts) # 0 /\ OrDefault(lastReported[q]) < ts[Len(ts)].timestamp
<1>2. PICK merges \in BOOLEAN : merges = m
  OBVIOUS
<1>3. PICK tip : tip = [amount |-> IF merges THEN ts[Len(ts)].amount + amount ELSE amount,
                        timestamp |-> now + 1,
                        cumulative_tips |-> CumulativeOf(ts) + amount]
  OBVIOUS
<1>4. PICK us : us = WithTip(q, amount)
  OBVIOUS
<1>5. IsSeries(ts) /\ Books(q, ts, pd)
  BY <1>1 DEF Books
<1>6. Extended(ts, us, tip, merges)
  BY <1>1, <1>2, <1>3, <1>4, <1>5, WithTipExtends
<1>7. /\ Len(ts) \in Nat
      /\ \A i \in 1..Len(ts) : /\ ts[i].timestamp \in Nat /\ ts[i].cumulative_tips \in Nat
                              /\ ts[i].amount \in Nat
  BY <1>5, SeriesTypes
<1>8. merges => Len(ts) \in 1..Len(ts) /\ OrDefault(lastReported[q]) < ts[Len(ts)].timestamp
  <2>1. merges => Len(ts) # 0 /\ OrDefault(lastReported[q]) < ts[Len(ts)].timestamp
    BY <1>2, Zenon
  <2>2. Len(ts) # 0 => Len(ts) \in 1..Len(ts)
    BY <1>7
  <2>3. QED
    BY <2>1, <2>2, Zenon
<1>9. ~merges => Len(ts) = 0 \/ ts[Len(ts)].timestamp <= OrDefault(lastReported[q])
  <2>1. Len(ts) = 0 \/ Len(ts) \in 1..Len(ts)
    BY <1>7
  <2>2. ~merges => Len(ts) = 0 \/ ~(OrDefault(lastReported[q]) < ts[Len(ts)].timestamp)
    BY <1>2, Zenon
  <2>3. Len(ts) \in 1..Len(ts) /\ ~(OrDefault(lastReported[q]) < ts[Len(ts)].timestamp)
          => ts[Len(ts)].timestamp <= OrDefault(lastReported[q])
    BY <1>7, LastBounds
  <2>4. QED
    BY <2>1, <2>2, <2>3, Zenon
<1>10. PICK last \in Nat : last = OrDefault(lastReported[q])
  BY LastBounds
<1>11. /\ now \in Nat /\ last <= now
       /\ \A t \in Undisputed(q) : /\ t \in Nat /\ t <= last
                                   /\ OrDefault(reports[q][t].previous) \in Nat
                                   /\ OrDefault(reports[q][t].previous) <= t
  BY <1>10, LastBounds
<1>12. tip.timestamp = now + 1 /\ tip.cumulative_tips = CumulativeOf(ts) + amount
  BY <1>3
<1>13. tip.amount = IF merges THEN ts[Len(ts)].amount + amount ELSE amount
  BY <1>3
<1>14. CumulativeOf(ts) \in Nat /\ \A i \in 1..Len(ts) : ts[i].cumulative_tips <= CumulativeOf(ts)
  <2>1. ASSUME NEW i \in 1..Len(ts) PROVE ts[i].cumulative_tips <= CumulativeOf(ts)
    <3>1. Len(ts) # 0 /\ Len(ts) \in 1..Len(ts)
      BY <1>7
    <3>2. i = Len(ts) \/ ts[i].cumulative_tips < ts[Len(ts)].cumulative_tips
      BY <1>5, <1>7, <3>1 DEF IsSeries
    <3>3. QED
      BY <1>7, <3>1, <3>2 DEF CumulativeOf
  <2>2. Len(ts) = 0 \/ Len(ts) \in 1..Len(ts)
    BY <1>7
  <2>3. QED
    BY <1>7, <2>1, <2>2 DEF CumulativeOf
<1>15. PICK n \in Nat : n = Len(us) /\ n >= 1
  BY <1>6 DEF Extended
<1>16. /\ us[n] = tip
       /\ \A i \in 1..(n - 1) : i \in 1..Len(ts) /\ us[i] = ts[i]
       /\ merges => n = Len(ts)
       /\ ~merges => n = Len(ts) + 1
  BY <1>6, <1>15 DEF Extended
<1>17. ASSUME NEW i \in 1..(n - 1) PROVE ts[i].timestamp < now + 1
  <2>0. i \in 1..Len(ts)
    BY <1>16
  <2>1. CASE merges
    <3>1. i < Len(ts) /\ Len(ts) \in 1..Len(ts)
      BY <1>7, <1>8, <1>15, <1>16, <2>1
    <3>2. ts[i].timestamp < ts[Len(ts)].timestamp
      BY <1>5, <2>0, <3>1 DEF IsSeries
    <3>3. ts[Len(ts)].timestamp <= now + 1
      BY <1>5, <3>1 DEF Books
    <3>4. QED
      BY <1>7, <1>11, <2>0, <3>1, <3>2, <3>3
  <2>2. CASE ~merges
    <3>1. Len(ts) \in 1..Len(ts) /\ ts[Len(ts)].timestamp <= last
      BY <1>7, <1>9, <1>10, <2>0, <2>2
    <3>2. i = Len(ts) \/ ts[i].timestamp < ts[Len(ts)].timestamp
      BY <1>5, <1>7, <2>0, <3>1 DEF IsSeries
    <3>3. QED
      BY <1>7, <1>11, <2>0, <3>1, <3>2
  <2>3. QED
    BY <2>1, <2>2
<1>18. merges => ts[Len(ts)].amount = GivenOf(ts, Len(ts)) /\ ts[Len(ts)].amount # 0
  <2> SUFFICES ASSUME merges PROVE ts[Len(ts)].amount = GivenOf(ts, Len(ts)) /\ ts[Len(ts)].amount # 0
    OBVIOUS
  <2>1. Len(ts) \in 1..Len(ts) /\ last < ts[Len(ts)].timestamp
    BY <1>8, <1>10
  <2>2. ts[Len(ts)].amount # 0
    <3> SUFFICES ASSUME ts[Len(ts)].amount = 0 PROVE FALSE
      OBVIOUS
    <3>1. PICK t \in DOMAIN pd : ts[Len(ts)].timestamp <= t
      BY <1>5, <2>1 DEF Books
    <3>2. t \in Undisputed(q)
      BY <1>5 DEF Books
    <3>3. QED
      BY <1>7, <1>11, <2>1, <3>1, <3>2
  <2>3. QED
    BY <1>5, <2>1, <2>2 DEF IsSeries
<1>19. ASSUME NEW i \in 1..n PROVE us[i].amount \in {0, GivenOf(us, i)}
  <2>1. CASE i # n
    <3>1. i \in 1..(n - 1) /\ (i = 1 \/ i - 1 \in 1..(n - 1))
      BY <2>1
    <3>2. GivenOf(us, i) = GivenOf(ts, i) /\ us[i] = ts[i] /\ i \in 1..Len(ts)
      BY <1>16, <3>1 DEF GivenOf
    <3>3. QED
      BY <1>5, <3>2 DEF IsSeries
  <2>2. CASE i = n
    <3>1. PICK c \in Nat : c = IF n = 1 THEN 0 ELSE us[n - 1].cumulative_tips
      <4>1. n = 1 \/ n - 1 \in 1..(n - 1)
        BY <1>15
      <4>2. QED
        BY <1>7, <1>16, <4>1
    <3>2. GivenOf(us, n) = CumulativeOf(ts) + amount - c
      <4>1. us[n].cumulative_tips = CumulativeOf(ts) + amount
        BY <1>12, <1>16
      <4>2. GivenOf(us, n) = us[n].cumulative_tips - c
        BY <3>1, Zenon DEF GivenOf
      <4>3. QED
        BY <1>14, <3>1, <4>1, <4>2
    <3>3. CASE merges
      <4>1. n = Len(ts) /\ n # 0
        BY <1>15, <1>16, <3>3
      <4>2. n = 1 \/ us[n - 1] = ts[n - 1]
        BY <1>15, <1>16
      <4>3. ts[n].amount = ts[n].cumulative_tips - c /\ CumulativeOf(ts) = ts[n].cumulative_tips
        BY <1>18, <3>1, <3>3, <4>1, <4>2 DEF GivenOf, CumulativeOf
      <4>4. us[n].amount = ts[n].amount + amount
        BY <1>13, <1>16, <3>3, <4>1
      <4>5. ts[n].amount \in Nat
        BY <1>7, <1>15, <4>1
      <4>6. us[n].amount = GivenOf(us, n)
        BY <1>14, <3>1, <3>2, <4>3, <4>4, <4>5
      <4>7. QED
        BY <2>2, <4>6
    <3>4. CASE ~merges
      <4>1. n = Len(ts) + 1 /\ us[n].amount = amount
        BY <1>13, <1>16, <3>4
      <4>2. n = 1 \/ us[n - 1] = ts[n - 1]
        BY <1>15, <1>16
      <4>3. n = 1 <=> Len(ts) = 0
        BY <1>7, <4>1
      <4>4. n - 1 = Len(ts)
        BY <1>7, <4>1
      <4>5. c = CumulativeOf(ts)
        BY <3>1, <4>2, <4>3, <4>4 DEF CumulativeOf
      <4>6. us[n].amount = GivenOf(us, n)
        BY <1>14, <3>2, <4>1, <4>5
      <4>7. QED
        BY <2>2, <4>6
    <3>5. QED
      BY <3>3, <3>4
  <2>3. QED
    BY <2>1, <2>2
<1>20. ASSUME NEW i \in 1..n, NEW j \in 1..n, i < j
       PROVE  us[i].timestamp < us[j].timestamp /\ us[i].cumulative_tips < us[j].cumulative_tips
  <2>1. i \in 1..(n - 1) /\ us[i] = ts[i] /\ i \in 1..Len(ts)
    BY <1>16, <1>20
  <2>2. CASE j # n
    <3>1. j \in 1..(n - 1)
      BY <2>2
    <3>2. us[j] = ts[j] /\ j \in 1..Len(ts)
      BY <1>16, <3>1
    <3>3. QED
      BY <1>5, <1>20, <2>1, <3>2 DEF IsSeries
  <2>3. CASE j = n
    <3>1. us[j].timestamp = now + 1 /\ us[j].cumulative_tips = CumulativeOf(ts) + amount
      BY <1>12, <1>16, <2>3
    <3>2. ts[i].cumulative_tips <= CumulativeOf(ts) /\ ts[i].cumulative_tips \in Nat
      BY <1>7, <1>14, <2>1
    <3>3. ts[i].cumulative_tips < CumulativeOf(ts) + amount
      BY <1>14, <3>2
    <3>4. QED
      BY <1>17, <2>1, <3>1, <3>3
  <2>4. QED
    BY <2>2, <2>3
<1>21. ASSUME NEW i \in 1..n
       PROVE  us[i].timestamp > 0 /\ us[i].cumulative_tips > 0 /\ us[i].timestamp <= now + 1
  <2>1. CASE i # n
    <3>1. i \in 1..(n - 1)
      BY <2>1
    <3>2. us[i] = ts[i] /\ i \in 1..Len(ts)
      BY <1>16, <3>1
    <3>3. QED
      BY <1>5, <3>2 DEF Books, IsSeries
  <2>2. CASE i = n
    BY <1>11, <1>12, <1>14, <1>16, <2>2
  <2>3. QED
    BY <2>1, <2>2
<1>22. IsSeries(us)
  BY <1>6, <1>15, <1>19, <1>20, <1>21 DEF IsSeries, Extended
<1>23. ASSUME NEW t \in Nat, t <= last
       PROVE  /\ \A k : IsLastUpTo(ts, k, t) => IsLastUpTo(us, k, t) /\ us[k] = ts[k]
              /\ TotalUpTo(us, t) = TotalUpTo(ts, t)
  <2>1. tip.timestamp > t
    BY <1>11, <1>12, <1>23
  <2>2. merges => ts[Len(ts)].timestamp > t
    BY <1>7, <1>8, <1>10, <1>23
  <2>3. QED
    BY <1>5, <1>6, <1>22, <2>1, <2>2, ExtendedTotals
<1>24. ASSUME NEW t \in DOMAIN pd
       PROVE  /\ now - t >= ReportingLock
              /\ pd[t] <= DueOf(q, us, t)
              /\ \E k \in 1..Len(us) : IsLastUpTo(us, k, t) /\ us[k].amount = 0
  <2>1. t \in Undisputed(q)
    BY <1>5 DEF Books
  <2>2. PICK p \in Nat : p = OrDefault(reports[q][t].previous) /\ p <= last /\ t \in Nat /\ t <= last
    BY <1>11, <2>1
  <2>3. DueOf(q, us, t) = DueOf(q, ts, t)
    BY <1>23, <2>2 DEF DueOf
  <2>4. PICK k \in 1..Len(ts) : IsLastUpTo(ts, k, t) /\ ts[k].amount = 0
    BY <1>5 DEF Books
  <2>5. IsLastUpTo(us, k, t) /\ us[k].amount = 0
    BY <1>23, <2>2, <2>4
  <2>6. k \in 1..Len(us)
    BY <2>5 DEF IsLastUpTo
  <2>7. QED
    BY <1>5, <2>3, <2>5, <2>6 DEF Books
<1>25. ASSUME NEW i \in 1..Len(us), us[i].amount = 0
       PROVE  \E t \in DOMAIN pd : /\ us[i].timestamp <= t
                                   /\ OrDefault(reports[q][t].previous) < us[i].timestamp
  <2>1. i # n
    <3>1. tip.amount # 0
      BY <1>7, <1>8, <1>13
    <3>2. QED
      BY <1>16, <1>25, <3>1
  <2>2. i \in 1..(n - 1)
    BY <1>15, <2>1
  <2>3. us[i] = ts[i] /\ i \in 1..Len(ts)
    BY <1>16, <2>2
  <2>4. QED
    BY <1>5, <1>25, <2>3 DEF Books
<1>26. Books(q, us, pd)
  BY <1>5, <1>15, <1>21, <1>22, <1>24, <1>25 DEF Books
<1>27. CumulativeOf(us) = CumulativeOf(ts) + amount
  BY <1>12, <1>15, <1>16 DEF CumulativeOf
<1>28. QED
  BY <1>1, <1>4, <1>26, <1>27

(* Submissions, disputes and the clock keep the books: what was paid for   *)
(* is settled, and no step of the store changes a settled report.          *)
LEMMA ReportKeepsBooks ==
    ASSUME ReportsInv, [ReportsNext]_reportsVars, NEW q \in QueryId, NEW ts, NEW pd, Books(q, ts, pd)
    PROVE  /\ \A t \in DOMAIN pd : t \in Undisputed(q)' /\ reports'[q][t] = reports[q][t]
           /\ now' \in Nat /\ now \in Nat /\ now <= now'
<1>1. \A t \in DOMAIN pd : t \in DOMAIN reports[q] /\ ~reports[q][t].is_disputed /\ now - t >= ReportingLock
  BY DEF Books, Undisputed
<1>2. \A t \in DOMAIN pd : reports'[q][t] = reports[q][t]
  BY <1>1, ReportSettledStep
<1>3. /\ now \in Nat /\ now' \in Nat /\ now <= now'
      /\ \A t \in DOMAIN reports[q] : t \in DOMAIN reports'[q]
  BY SeriesStep
<1>4. QED
  BY <1>1, <1>2, <1>3 DEF Undisputed

-----------------------------------------------------------------------------
(* One round of the loop of claim_onetime_tip, at timestamp t. *)
AfterClaim(a, q, before, t) ==
    IF before.ok /\ MayClaim(a, q, before.tips, t)
    THEN [ok |-> TRUE,
          tips |-> Claimed(before.tips, t),
          paid |-> PaidAlso(before.paid, t, TipAmount(q, before.tips, t)),
          reward |-> before.reward + TipAmount(q, before.tips, t)]
    ELSE [before EXCEPT !.ok = FALSE]

(* f is the loop's progress through a batch. *)
IsClaimRun(f, a, q, batch) ==
    /\ f[0] = [ok |-> TRUE, tips |-> tips[q], paid |-> paid[q], reward |-> 0]
    /\ \A i \in Nat : i < Len(batch) => f[i + 1] = AfterClaim(a, q, f[i], batch[i + 1])

(* The loop of the model goes through these rounds. *)
LEMMA ClaimRounds ==
    ASSUME NEW a, NEW q, NEW batch, Len(batch) \in Nat
    PROVE  \E f : IsClaimRun(f, a, q, batch) /\ ClaimBatch(a, q, batch) = f[Len(batch)]
<1>1. PICK n \in Nat : n = Len(batch)
  OBVIOUS
<1>2. PICK c : c = [ok |-> TRUE, tips |-> tips[q], paid |-> paid[q], reward |-> 0]
  OBVIOUS
<1> DEFINE Step(s, i) == AfterClaim(a, q, s, batch[i])
           At(f, i) ==
             IF i = 0 THEN [ok |-> TRUE, tips |-> tips[q], paid |-> paid[q], reward |-> 0]
             ELSE LET before == f[i - 1]
                      t == batch[i]
                      amount == TipAmount(q, before.tips, t)
                      already == IF t \in DOMAIN before.paid THEN before.paid[t] ELSE 0
                  IN IF before.ok /\ MayClaim(a, q, before.tips, t)
                     THEN [ok |-> TRUE,
                           tips |-> Claimed(before.tips, t),
                           paid |-> [s \in DOMAIN before.paid \cup {t} |->
                                       IF s = t THEN already + amount ELSE before.paid[s]],
                           reward |-> before.reward + amount]
                     ELSE [before EXCEPT !.ok = FALSE]
           Body(f) == [i \in 0..Len(batch) |-> At(f, i)]
           Loop(f) == [i \in 0..n |-> IF i = 0 THEN c ELSE Step(f[i - 1], i)]
           C == CHOOSE f : f = Body(f)
<1>3. ClaimBatch(a, q, batch) = C[Len(batch)]
  BY DEF ClaimBatch
<1>4. ASSUME NEW f PROVE Body(f) = Loop(f)
  <2>1. ASSUME NEW i \in 0..n PROVE At(f, i) = IF i = 0 THEN c ELSE Step(f[i - 1], i)
    BY <1>2, Zenon DEF AfterClaim, PaidAlso
  <2>2. QED
    BY <1>1, <2>1, Zenon
<1> HIDE DEF Step, Body
<1> DEFINE Runs(f, m) == f[0] = c /\ \A i \in Nat : i < m => f[i + 1] = Step(f[i], i + 1)
           P == {m \in Nat : \E f : Runs(f, m)}
<1>5. 0 \in P
  <2>1. Runs([i \in {0} |-> c], 0)
    OBVIOUS
  <2>2. QED
    BY <2>1
<1>6. ASSUME NEW m \in Nat, m \in P PROVE m + 1 \in P
  <2>1. PICK f : Runs(f, m)
    BY <1>6
  <2> DEFINE g == [i \in 0..(m + 1) |-> IF i = m + 1 THEN Step(f[m], m + 1) ELSE f[i]]
  <2>2. \A i \in Nat : i <= m => g[i] = f[i]
    OBVIOUS
  <2>3. g[m + 1] = Step(f[m], m + 1)
    OBVIOUS
  <2> HIDE DEF g
  <2>4. g[0] = c
    BY <2>1, <2>2
  <2>5. ASSUME NEW i \in Nat, i < m + 1 PROVE g[i + 1] = Step(g[i], i + 1)
    <3>1. g[i] = f[i]
      BY <2>2, <2>5
    <3>2. CASE i = m
      BY <2>3, <3>1, <3>2
    <3>3. CASE i # m
      <4>1. i < m /\ i + 1 \in Nat /\ i + 1 <= m
        BY <2>5, <3>3
      <4>2. g[i + 1] = f[i + 1]
        BY <2>2, <4>1
      <4>3. f[i + 1] = Step(f[i], i + 1)
        BY <2>1, <4>1
      <4>4. QED
        BY <3>1, <4>2, <4>3
    <3>4. QED
      BY <3>2, <3>3
  <2>6. Runs(g, m + 1)
    BY <2>4, <2>5
  <2>7. QED
    BY <2>6
<1>7. n \in P
  <2> HIDE DEF P
  <2>1. Nat \subseteq P
    BY <1>5, <1>6, NatSetInduction
  <2>2. QED
    BY <2>1
<1>8. PICK f : Runs(f, n)
  BY <1>7
<1> DEFINE g == [i \in 0..n |-> f[i]]
<1>9. g = Loop(g)
  <2>1. ASSUME NEW i \in 0..n PROVE f[i] = IF i = 0 THEN c ELSE Step(g[i - 1], i)
    <3>1. CASE i = 0
      BY <1>8, <3>1
    <3>2. CASE i # 0
      <4>1. i - 1 \in Nat /\ i - 1 < n /\ (i - 1) + 1 = i /\ i - 1 \in 0..n
        BY <3>2
      <4>2. f[(i - 1) + 1] = Step(f[i - 1], (i - 1) + 1)
        BY <1>8, <4>1
      <4>3. g[i - 1] = f[i - 1]
        BY <4>1
      <4>4. f[i] = Step(g[i - 1], i)
        BY <4>1, <4>2, <4>3
      <4> HIDE DEF g
      <4>5. QED
        BY <3>2, <4>4
    <3>3. QED
      BY <3>1, <3>2
  <2>2. QED
    BY <2>1, Zenon
<1> HIDE DEF Loop, g
<1>10. \E h : h = Body(h)
  BY <1>4, <1>9
<1>11. C = Body(C)
  BY <1>10, Zenon
<1>12. C = Loop(C)
  BY <1>4, <1>11
<1> HIDE DEF C
<1>13. \A i \in 0..n : C[i] = IF i = 0 THEN c ELSE Step(C[i - 1], i)
  BY <1>12, Zenon DEF Loop
<1>14. C[0] = c
  BY <1>13
<1>15. ASSUME NEW i \in Nat, i < n PROVE C[i + 1] = Step(C[i], i + 1)
  <2>1. i + 1 \in 0..n /\ i + 1 # 0 /\ (i + 1) - 1 = i
    BY <1>15
  <2>2. C[i + 1] = Step(C[(i + 1) - 1], i + 1)
    BY <1>13, <2>1
  <2>3. QED
    BY <2>1, <2>2
<1>16. QED
  BY <1>1, <1>2, <1>3, <1>14, <1>15, Zenon DEF Step, IsClaimRun

(* What holds after every round: the books are kept, and the reward is     *)
(* what was paid in the rounds so far.                                     *)
RoundOf(q, ts, pd, reward) ==
    /\ Books(q, ts, pd) /\ SameTips(tips[q], ts)
    /\ reward \in Nat /\ SumFunction(pd) = SumFunction(paid[q]) + reward

RoundKept(q, s) == {"tips", "paid", "reward"} \subseteq DOMAIN s /\ RoundOf(q, s.tips, s.paid, s.reward)

(* The payments with one more sum to that much more. *)
LEMMA PaidAlsoSum ==
    ASSUME NEW pd, IsFiniteSet(DOMAIN pd), pd \in [DOMAIN pd -> Nat], NEW t, t \notin DOMAIN pd,
           NEW amount \in Nat
    PROVE  SumFunction(PaidAlso(pd, t, amount)) = SumFunction(pd) + amount
<1> DEFINE pe == PaidAlso(pd, t, amount)
<1>1. DOMAIN pe = DOMAIN pd \cup {t} /\ pe[t] = amount /\ \A x \in DOMAIN pd \ {t} : pe[x] = pd[x]
  BY DEF PaidAlso
<1>2. \A x \in DOMAIN pd : pd[x] \in Int
  OBVIOUS
<1> HIDE DEF pe
<1>3. SumFunction(pe) = SumFunction(pd) + pe[t] - (IF t \in DOMAIN pd THEN pd[t] ELSE 0)
  BY <1>1, <1>2, SumFunctionPut
<1>4. SumFunction(pd) \in Nat
  BY SumFunctionType
<1>5. SumFunction(pe) = SumFunction(pd) + amount
  BY <1>1, <1>3, <1>4
<1>6. QED
  BY <1>5 DEF pe

(* A round keeps it. *)
LEMMA RoundKeeps ==
    ASSUME ReportsInv, NEW q \in QueryId, NEW s, RoundKept(q, s), NEW a, NEW t,
           SumFunction(paid[q]) \in Nat
    PROVE  RoundKept(q, AfterClaim(a, q, s, t))
<1>1. PICK ts, pd, reward : ts = s.tips /\ pd = s.paid /\ reward = s.reward
  OBVIOUS
<1>2. {"tips", "paid", "reward"} \subseteq DOMAIN s
  BY DEF RoundKept
<1>3. /\ Books(q, ts, pd) /\ SameTips(tips[q], ts) /\ reward \in Nat
      /\ SumFunction(pd) = SumFunction(paid[q]) + reward
  BY <1>1, Zenon DEF RoundKept, RoundOf
<1>4. CASE s.ok /\ MayClaim(a, q, s.tips, t)
  <2>1. MayClaim(a, q, ts, t)
    BY <1>1, <1>4, Zenon
  <2>2. PICK amount : amount = TipAmount(q, ts, t)
    OBVIOUS
  <2>3. PICK us : us = Claimed(ts, t)
    OBVIOUS
  <2>4. PICK pe : pe = PaidAlso(pd, t, amount)
    OBVIOUS
  <2>5. /\ t \notin DOMAIN pd /\ amount \in Nat
        /\ Books(q, us, pe) /\ SameTips(ts, us)
    <3>1. /\ t \notin DOMAIN pd /\ TipAmount(q, ts, t) \in Nat
          /\ Books(q, Claimed(ts, t), PaidAlso(pd, t, TipAmount(q, ts, t)))
          /\ SameTips(ts, Claimed(ts, t))
      BY <1>3, <2>1, ClaimKeepsBooks
    <3>2. QED
      BY <2>2, <2>3, <2>4, <3>1, Zenon
  <2>6. AfterClaim(a, q, s, t) = [ok |-> TRUE, tips |-> us, paid |-> pe, reward |-> reward + amount]
    BY <1>1, <1>4, <2>2, <2>3, <2>4, Zenon DEF AfterClaim
  <2>7. SumFunction(pe) = SumFunction(pd) + amount
    BY <1>3, <2>4, <2>5, PaidAlsoSum DEF Books
  <2>8. SameTips(tips[q], us)
    BY <1>3, <2>5 DEF SameTips
  <2>9. reward + amount \in Nat /\ SumFunction(pe) = SumFunction(paid[q]) + (reward + amount)
    BY <1>3, <2>5, <2>7
  <2>10. RoundOf(q, us, pe, reward + amount)
    BY <2>5, <2>8, <2>9 DEF RoundOf
  <2>11. PICK r : r = [ok |-> TRUE, tips |-> us, paid |-> pe, reward |-> reward + amount]
    OBVIOUS
  <2>12. /\ r.tips = us /\ r.paid = pe /\ r.reward = reward + amount
         /\ {"tips", "paid", "reward"} \subseteq DOMAIN r
    BY <2>11
  <2>13. RoundKept(q, r)
    BY <2>10, <2>12 DEF RoundKept
  <2>14. QED
    BY <2>6, <2>11, <2>13, Zenon
<1>5. CASE ~(s.ok /\ MayClaim(a, q, s.tips, t))
  <2>1. AfterClaim(a, q, s, t) = [s EXCEPT !.ok = FALSE]
    BY <1>5, Zenon DEF AfterClaim
  <2>2. PICK r : r = [s EXCEPT !.ok = FALSE]
    OBVIOUS
  <2>3. /\ r.tips = s.tips /\ r.paid = s.paid /\ r.reward = s.reward
        /\ {"tips", "paid", "reward"} \subseteq DOMAIN r
    BY ONLY <1>2, <2>2
  <2>4. RoundKept(q, r)
    BY <2>3 DEF RoundKept
  <2>5. QED
    BY <2>1, <2>2, <2>4, Zenon
<1>6. QED
  BY <1>4, <1>5

(* A batch of claims keeps the books, pays as much as it marks down, and   *)
(* changes no tip but to mark it.                                          *)
LEMMA BatchKeepsBooks ==
    ASSUME ReportsInv, NEW q \in QueryId, Books(q, tips[q], paid[q]), NEW a,
           NEW batch, Len(batch) \in Nat
    PROVE  RoundKept(q, ClaimBatch(a, q, batch))
<1>1. PICK f : IsClaimRun(f, a, q, batch) /\ ClaimBatch(a, q, batch) = f[Len(batch)]
  BY ClaimRounds
<1>2. SumFunction(paid[q]) \in Nat
  BY SumFunctionType DEF Books
<1> DEFINE P == {i \in Nat : i <= Len(batch) => RoundKept(q, f[i])}
<1>3. 0 \in P
  <2>1. SameTips(tips[q], tips[q])
    BY DEF SameTips
  <2>2. RoundOf(q, tips[q], paid[q], 0)
    BY <1>2, <2>1 DEF RoundOf
  <2>3. f[0] = [ok |-> TRUE, tips |-> tips[q], paid |-> paid[q], reward |-> 0]
    BY <1>1 DEF IsClaimRun
  <2>4. /\ f[0].tips = tips[q] /\ f[0].paid = paid[q] /\ f[0].reward = 0
        /\ {"tips", "paid", "reward"} \subseteq DOMAIN f[0]
    BY <2>3
  <2>5. RoundKept(q, f[0])
    BY <2>2, <2>4 DEF RoundKept
  <2>6. QED
    BY <2>5
<1>4. ASSUME NEW i \in Nat, i \in P PROVE i + 1 \in P
  <2> SUFFICES ASSUME i + 1 <= Len(batch) PROVE RoundKept(q, f[i + 1])
    OBVIOUS
  <2>1. i < Len(batch) /\ i <= Len(batch)
    OBVIOUS
  <2>2. RoundKept(q, f[i])
    BY <1>4, <2>1
  <2>3. RoundKept(q, AfterClaim(a, q, f[i], batch[i + 1]))
    BY <1>2, <2>2, RoundKeeps
  <2>4. QED
    BY <1>1, <2>1, <2>3 DEF IsClaimRun
<1> HIDE DEF P
<1>5. Len(batch) \in P
  BY <1>3, <1>4, NatSetInduction
<1>6. QED
  BY <1>1, <1>5 DEF P

-----------------------------------------------------------------------------
(* A step that at most submits, disputes or moves the clock, next to books *)
(* that are in order, leaves them in order.                                *)
LEMMA BooksKept ==
    ASSUME ReportsInv, [ReportsNext]_reportsVars, NEW q \in QueryId, NEW ts, NEW pd, Books(q, ts, pd),
           tips'[q] = ts, paid'[q] = pd
    PROVE  Books(q, tips[q], paid[q])'
<1>1. /\ \A t \in DOMAIN pd : t \in Undisputed(q)' /\ reports'[q][t] = reports[q][t]
      /\ now' \in Nat /\ now \in Nat /\ now <= now'
  BY ReportKeepsBooks
<1>2. IsSeries(ts) /\ \A i \in 1..Len(ts) : ts[i].timestamp \in Nat
  BY SeriesTypes DEF Books
<1>3. \A t \in DOMAIN pd : t \in Nat
  BY LastBounds DEF Books
<1>4. ASSUME NEW t \in DOMAIN pd
      PROVE  TotalUpTo(tips'[q], t) - TotalUpTo(tips'[q], OrDefault(reports'[q][t].previous))
               = DueOf(q, ts, t)
  BY <1>1 DEF DueOf
<1>5. ASSUME NEW t \in DOMAIN pd
      PROVE  /\ now' - t >= ReportingLock
             /\ paid'[q][t] <= TotalUpTo(tips'[q], t) - TotalUpTo(tips'[q], OrDefault(reports'[q][t].previous))
             /\ \E k \in 1..Len(tips'[q]) : IsLastUpTo(tips'[q], k, t) /\ tips'[q][k].amount = 0
  <2>1. now - t >= ReportingLock /\ pd[t] <= DueOf(q, ts, t)
    BY DEF Books
  <2>2. \E k \in 1..Len(ts) : IsLastUpTo(ts, k, t) /\ ts[k].amount = 0
    BY DEF Books
  <2>3. now' - t >= ReportingLock
    BY <1>1, <1>3, <2>1, ReportsAssumption
  <2>4. QED
    BY <1>4, <2>1, <2>2, <2>3
<1>6. \A i \in 1..Len(tips'[q]) : tips'[q][i].timestamp <= now' + 1
  BY <1>1, <1>2 DEF Books
<1>7. ASSUME NEW i \in 1..Len(tips'[q]), tips'[q][i].amount = 0
      PROVE  \E t \in DOMAIN paid'[q] : /\ tips'[q][i].timestamp <= t
                                        /\ OrDefault(reports'[q][t].previous) < tips'[q][i].timestamp
  <2>1. PICK t \in DOMAIN pd : /\ ts[i].timestamp <= t
                                    /\ OrDefault(reports[q][t].previous) < ts[i].timestamp
    BY <1>7 DEF Books
  <2>2. QED
    BY <1>1, <2>1
<1>8. /\ IsFiniteSet(DOMAIN paid'[q]) /\ paid'[q] \in [DOMAIN paid'[q] -> Nat]
      /\ DOMAIN paid'[q] \subseteq Undisputed(q)'
  BY <1>1 DEF Books
<1>9. QED
  BY <1>2, <1>5, <1>6, <1>7, <1>8 DEF Books, DueOf

-----------------------------------------------------------------------------
(* Totals grow with time, from nothing to all tips given. *)
LEMMA TotalBounds ==
    ASSUME NEW ts, IsSeries(ts), NEW t \in Nat
    PROVE  /\ TotalUpTo(ts, t) \in Nat /\ CumulativeOf(ts) \in Nat
           /\ TotalUpTo(ts, t) <= CumulativeOf(ts)
           /\ TotalUpTo(ts, 0) = 0
           /\ \A s \in Nat : s <= t => TotalUpTo(ts, s) <= TotalUpTo(ts, t)
<1>1. /\ Len(ts) \in Nat
      /\ \A i \in 1..Len(ts) : ts[i].timestamp \in Nat /\ ts[i].cumulative_tips \in Nat
  BY SeriesTypes
<1>2. Len(ts) # 0 => 1 \in 1..Len(ts) /\ Len(ts) \in 1..Len(ts)
  BY <1>1
<1>3. CumulativeOf(ts) \in Nat
  BY <1>1, <1>2 DEF CumulativeOf
<1>4. TotalUpTo(ts, 0) = 0
  <2>1. Len(ts) = 0 \/ ts[1].timestamp > 0
    BY <1>2 DEF IsSeries
  <2>2. QED
    BY <2>1, TotalIsNone
<1>5. ASSUME NEW s \in Nat
      PROVE  \/ TotalUpTo(ts, s) = 0 /\ (Len(ts) = 0 \/ ts[1].timestamp > s)
             \/ \E k \in 1..Len(ts) : IsLastUpTo(ts, k, s) /\ TotalUpTo(ts, s) = ts[k].cumulative_tips
  <2>1. CASE Len(ts) = 0 \/ ts[1].timestamp > s
    BY <2>1, TotalIsNone
  <2>2. CASE Len(ts) # 0 /\ ~(ts[1].timestamp > s)
    <3>1. ts[1].timestamp <= s
      BY <1>1, <1>2, <2>2
    <3>2. PICK k \in 1..Len(ts) : IsLastUpTo(ts, k, s)
      BY <2>2, <3>1, LastExists
    <3>3. QED
      BY <3>2, TotalIsLast
  <2>3. QED
    BY <2>1, <2>2
<1>6. TotalUpTo(ts, t) \in Nat /\ TotalUpTo(ts, t) <= CumulativeOf(ts)
  <2>1. CASE TotalUpTo(ts, t) = 0
    BY <1>3, <2>1
  <2>2. ASSUME NEW k \in 1..Len(ts), TotalUpTo(ts, t) = ts[k].cumulative_tips
        PROVE  TotalUpTo(ts, t) \in Nat /\ TotalUpTo(ts, t) <= CumulativeOf(ts)
    <3>1. Len(ts) # 0 /\ Len(ts) \in 1..Len(ts)
      BY <1>1
    <3>2. k = Len(ts) \/ ts[k].cumulative_tips < ts[Len(ts)].cumulative_tips
      BY <1>1, <3>1 DEF IsSeries
    <3>3. ts[k].cumulative_tips \in Nat /\ ts[Len(ts)].cumulative_tips \in Nat
      BY <1>1, <3>1
    <3>4. QED
      BY <2>2, <3>1, <3>2, <3>3 DEF CumulativeOf
  <2>3. QED
    BY <1>5, <2>1, <2>2
<1>7. ASSUME NEW s \in Nat, s <= t PROVE TotalUpTo(ts, s) <= TotalUpTo(ts, t)
  <2>1. CASE TotalUpTo(ts, s) = 0
    BY <1>6, <2>1
  <2>2. ASSUME NEW j \in 1..Len(ts), IsLastUpTo(ts, j, s), TotalUpTo(ts, s) = ts[j].cumulative_tips
        PROVE  TotalUpTo(ts, s) <= TotalUpTo(ts, t)
    <3>1. ts[j].timestamp <= t /\ Len(ts) # 0
      BY <1>1, <1>7, <2>2 DEF IsLastUpTo
    <3>2. ts[1].timestamp <= t
      <4>1. j = 1 \/ ts[1].timestamp < ts[j].timestamp
        BY <1>1, <1>2, <3>1 DEF IsSeries
      <4>2. QED
        BY <1>1, <1>2, <3>1, <4>1
    <3>3. PICK k \in 1..Len(ts) : IsLastUpTo(ts, k, t)
      BY <3>1, <3>2, LastExists
    <3>4. TotalUpTo(ts, t) = ts[k].cumulative_tips
      BY <3>3, TotalIsLast
    <3>5. j <= k
      <4> SUFFICES ASSUME j > k PROVE FALSE
        OBVIOUS
      <4>1. k # Len(ts) /\ k + 1 \in 1..Len(ts) /\ ts[k + 1].timestamp > t
        BY <1>1, <3>3 DEF IsLastUpTo
      <4>2. k + 1 = j \/ ts[k + 1].timestamp < ts[j].timestamp
        BY <1>1, <4>1 DEF IsSeries
      <4>3. QED
        BY <1>1, <3>1, <4>1, <4>2
    <3>6. j = k \/ ts[j].cumulative_tips < ts[k].cumulative_tips
      BY <3>5 DEF IsSeries
    <3>7. ts[j].cumulative_tips \in Nat /\ ts[k].cumulative_tips \in Nat
      BY <1>1
    <3>8. QED
      BY <2>2, <3>4, <3>6, <3>7
  <2>3. QED
    BY <1>5, <2>1, <2>2
<1>8. QED
  BY <1>3, <1>4, <1>6, <1>7

(* What the undisputed reports of q are due from a series. *)
Dues(q, ts) == [t \in Undisputed(q) |-> DueOf(q, ts, t)]

(* They are finitely many, and each due is a natural number. *)
LEMMA DuesType ==
    ASSUME ReportsInv, NEW q \in QueryId, NEW ts, IsSeries(ts)
    PROVE  /\ IsFiniteSet(Undisputed(q)) /\ Undisputed(q) \subseteq Nat
           /\ \A t \in Undisputed(q) : DueOf(q, ts, t) \in Nat
<1>1. now \in Nat /\ Undisputed(q) \subseteq 0..now
  BY LastBounds DEF ReportsInv, IndexConsistent, Undisputed
<1>2. IsFiniteSet(Undisputed(q))
  <2>1. IsFiniteSet(0..now)
    BY <1>1, FS_Interval
  <2>2. QED
    BY <1>1, <2>1, FS_Subset
<1>3. ASSUME NEW t \in Undisputed(q) PROVE DueOf(q, ts, t) \in Nat
  <2>1. PICK p \in Nat : p = OrDefault(reports[q][t].previous) /\ p <= t /\ t \in Nat
    BY LastBounds
  <2>2. TotalUpTo(ts, p) \in Nat /\ TotalUpTo(ts, t) \in Nat /\ TotalUpTo(ts, p) <= TotalUpTo(ts, t)
    BY <2>1, TotalBounds
  <2>3. DueOf(q, ts, t) = TotalUpTo(ts, t) - TotalUpTo(ts, p)
    BY <2>1 DEF DueOf
  <2>4. QED
    BY <2>2, <2>3
<1>4. QED
  BY <1>1, <1>2, <1>3

(* Every tip up to the last report is due to exactly one of the undisputed *)
(* reports.                                                                *)
LEMMA DuesTelescope ==
    ASSUME ReportsInv, NEW q \in QueryId, NEW ts, IsSeries(ts)
    PROVE  SumFunction(Dues(q, ts)) = TotalUpTo(ts, OrDefault(lastReported[q]))
<1> DEFINE U == Undisputed(q)
           due == Dues(q, ts)
           Upto(n) == {t \in U : t <= n}
           P == {n \in Nat : \A p : IsLatest(p, Upto(n))
                               => SumFunctionOnSet(due, Upto(n)) = TotalUpTo(ts, OrDefault(p))}
<1>1. IsFiniteSet(U) /\ U \subseteq Nat /\ \A t \in U : due[t] \in Int
  BY DuesType DEF Dues
<1>2. None \notin Nat
  BY ReportsAssumption
<1>3. ASSUME NEW t \in U, NEW p, IsLatest(p, {s \in U : s < t})
      PROVE  due[t] = TotalUpTo(ts, t) - TotalUpTo(ts, OrDefault(p))
  <2>1. IsLatest(reports[q][t].previous, {s \in U : s < t})
    <3>1. UndisputedBefore(q, t) = {s \in U : s < t}
      BY DEF UndisputedBefore, Undisputed
    <3>2. t \in DOMAIN reports[q]
      BY DEF Undisputed
    <3>3. QED
      BY <3>1, <3>2 DEF ReportsInv, PreviousIsLatestUndisputed
  <2>2. p = reports[q][t].previous
    <3> DEFINE V == {s \in U : s < t}
    <3>1. V \subseteq Nat
      BY <1>1
    <3> HIDE DEF V
    <3>2. QED
      BY <1>2, <1>3, <2>1, <3>1 DEF IsLatest, V
  <2>3. QED
    BY <2>2 DEF Dues, DueOf
<1>4. ASSUME NEW n \in Nat PROVE IsFiniteSet(Upto(n)) /\ Upto(n) \subseteq Nat /\ \A t \in Upto(n) : due[t] \in Int
  BY <1>1, FS_Subset
<1>5. ASSUME NEW n \in Nat PROVE \E p \in Nat \cup {None} : IsLatest(p, Upto(n))
  <2> DEFINE V == Upto(n)
  <2>1. CASE V = {}
    BY <2>1 DEF IsLatest
  <2>2. CASE V # {}
    <3>1. V \subseteq Nat /\ \A s \in V : s <= n
      BY <1>1
    <3> HIDE DEF V
    <3> DEFINE Q == {m \in Nat : n - m \in V}
    <3>2. PICK s \in V : s \in Nat /\ s <= n
      BY <2>2, <3>1
    <3>3. n - s \in Q
      BY <3>2
    <3>4. PICK m \in Q : \A k \in Q : ~(<<k, m>> \in OpToRel(<, Nat))
      <4>1. Q # {} /\ Q \subseteq Nat
        BY <3>3
      <4> HIDE DEF Q
      <4>2. QED
        BY <4>1, NatLessThanWellFounded, WFMin
    <3>5. \A k \in Q : ~(k < m)
      BY <3>4 DEF OpToRel
    <3>6. ASSUME NEW r \in V PROVE r <= n - m
      <4>1. r \in Nat /\ r <= n /\ n - r \in Nat /\ n - (n - r) = r
        BY <3>1
      <4>2. ~(n - r < m)
        BY <3>5, <4>1
      <4>3. QED
        BY <4>1, <4>2
    <3>7. n - m \in V /\ n - m \in Nat
      BY <3>1
    <3>8. IsLatest(n - m, V)
      BY <1>2, <3>6, <3>7 DEF IsLatest
    <3>9. QED
      BY <3>7, <3>8 DEF V
  <2>3. QED
    BY <2>1, <2>2
<1>6. 0 \in P
  <2> SUFFICES ASSUME NEW p, IsLatest(p, Upto(0))
               PROVE  SumFunctionOnSet(due, Upto(0)) = TotalUpTo(ts, OrDefault(p))
    OBVIOUS
  <2>0. TotalUpTo(ts, 0) = 0
    BY TotalBounds
  <2>1. OrDefault(p) = 0
    BY <1>1, <1>2 DEF IsLatest, OrDefault
  <2>2. CASE 0 \notin U
    <3>1. Upto(0) = {}
      BY <1>1, <2>2
    <3>2. QED
      BY <2>0, <2>1, <3>1, SumEmpty
  <2>3. CASE 0 \in U
    <3>1. Upto(0) = {} \cup {0} /\ {s \in U : s < 0} = {}
      BY <1>1, <2>3
    <3>2. IsLatest(None, {s \in U : s < 0})
      BY <3>1 DEF IsLatest
    <3>3. due[0] = TotalUpTo(ts, 0) - TotalUpTo(ts, OrDefault(None))
      BY <1>3, <2>3, <3>2
    <3>4. due[0] = 0
      BY <2>0, <3>3 DEF OrDefault
    <3> HIDE DEF due
    <3>5. SumFunctionOnSet(due, {} \cup {0}) = due[0] + SumFunctionOnSet(due, {})
      <4>1. IsFiniteSet({}) /\ 0 \notin {} /\ \A x \in {} \cup {0} : due[x] \in Int
        BY <3>4, FS_EmptySet
      <4>2. QED
        BY <4>1, SumAdd
    <3>6. SumFunctionOnSet(due, {}) = 0
      BY SumEmpty
    <3>7. QED
      BY <2>0, <2>1, <3>1, <3>4, <3>5, <3>6
  <2>4. QED
    BY <2>2, <2>3
<1>7. ASSUME NEW n \in Nat, n \in P PROVE n + 1 \in P
  <2> SUFFICES ASSUME NEW p, IsLatest(p, Upto(n + 1))
               PROVE  SumFunctionOnSet(due, Upto(n + 1)) = TotalUpTo(ts, OrDefault(p))
    OBVIOUS
  <2>1. CASE n + 1 \notin U
    <3>1. Upto(n + 1) = Upto(n)
      BY <1>1, <2>1
    <3>2. QED
      BY <1>7, <3>1
  <2>2. CASE n + 1 \in U
    <3>1. Upto(n + 1) = Upto(n) \cup {n + 1} /\ n + 1 \notin Upto(n) /\ {s \in U : s < n + 1} = Upto(n)
      BY <1>1, <2>2
    <3>2. p = n + 1
      BY <1>1, <1>2, <2>2 DEF IsLatest
    <3>3. PICK r \in Nat \cup {None} : IsLatest(r, Upto(n))
      BY <1>5
    <3>4. SumFunctionOnSet(due, Upto(n)) = TotalUpTo(ts, OrDefault(r))
      BY <1>7, <3>3
    <3>5. due[n + 1] = TotalUpTo(ts, n + 1) - TotalUpTo(ts, OrDefault(r))
      BY <1>3, <2>2, <3>1, <3>3
    <3>6. SumFunctionOnSet(due, Upto(n) \cup {n + 1}) = due[n + 1] + SumFunctionOnSet(due, Upto(n))
      <4>1. \A x \in Upto(n) \cup {n + 1} : due[x] \in Int
        BY <1>1, <2>2
      <4> DEFINE V == Upto(n)
      <4>2. IsFiniteSet(V) /\ n + 1 \notin V
        BY <1>4, <3>1
      <4> HIDE DEF V, due
      <4>3. QED
        BY <4>1, <4>2, SumAdd DEF V
    <3>7. TotalUpTo(ts, n + 1) \in Nat /\ TotalUpTo(ts, OrDefault(r)) \in Nat
      BY TotalBounds DEF OrDefault
    <3>8. OrDefault(p) = n + 1
      BY <1>2, <3>2 DEF OrDefault
    <3>9. PICK x, y \in Nat : x = TotalUpTo(ts, n + 1) /\ y = TotalUpTo(ts, OrDefault(r))
      BY <3>7
    <3>10. (x - y) + y = x
      OBVIOUS
    <3>11. SumFunctionOnSet(due, Upto(n) \cup {n + 1}) = (x - y) + y
      BY <3>4, <3>5, <3>6, <3>9, Zenon
    <3>12. QED
      BY <3>1, <3>8, <3>9, <3>10, <3>11, Zenon
  <2>3. QED
    BY <2>1, <2>2
<1>8. \A n \in Nat : n \in P
  <2> HIDE DEF P
  <2>1. QED
    BY <1>6, <1>7, NatSetInduction
<1>9. now \in P /\ Upto(now) = U
  <2>1. now \in Nat /\ \A t \in U : t <= now
    BY LastBounds DEF ReportsInv, IndexConsistent, Undisputed
  <2>2. QED
    BY <1>8, <2>1
<1>10. IsLatest(lastReported[q], U)
  BY DEF ReportsInv, LastIsLatestUndisputed
<1>11. SumFunctionOnSet(due, U) = TotalUpTo(ts, OrDefault(lastReported[q]))
  BY <1>9, <1>10
<1>12. DOMAIN due = U
  BY DEF Dues
<1>13. QED
  BY <1>11, <1>12 DEF SumFunction

(* What was paid for the reports of q and what the others are still due    *)
(* is covered by the tips up to the last report.                           *)
LEMMA PaidAndDue ==
    ASSUME ReportsInv, NEW q \in QueryId, NEW ts, NEW pd, Books(q, ts, pd)
    PROVE  LET rest == SumFunction([t \in Undisputed(q) \ DOMAIN pd |-> DueOf(q, ts, t)])
               last == OrDefault(lastReported[q])
           IN /\ SumFunction(pd) \in Nat /\ rest \in Nat
              /\ SumFunction(pd) + rest <= TotalUpTo(ts, last)
              /\ TotalUpTo(ts, last) \in Nat /\ CumulativeOf(ts) \in Nat
              /\ TotalUpTo(ts, last) <= CumulativeOf(ts)
<1> DEFINE S == Undisputed(q) \ DOMAIN pd
           f == [t \in S |-> DueOf(q, ts, t)]
           h == Dues(q, ts)
<1>1. /\ IsSeries(ts) /\ IsFiniteSet(DOMAIN pd) /\ pd \in [DOMAIN pd -> Nat]
      /\ DOMAIN pd \subseteq Undisputed(q)
      /\ \A t \in DOMAIN pd : pd[t] <= DueOf(q, ts, t)
  BY DEF Books
<1>2. IsFiniteSet(Undisputed(q)) /\ \A t \in Undisputed(q) : DueOf(q, ts, t) \in Nat
  BY <1>1, DuesType
<1>3. IsFiniteSet(S)
  BY <1>2, FS_Subset
<1>4. DOMAIN f = S /\ \A t \in S : f[t] = DueOf(q, ts, t) /\ f[t] \in Nat
  BY <1>2
<1>5. DOMAIN h = Undisputed(q) /\ \A t \in Undisputed(q) : h[t] = DueOf(q, ts, t) /\ h[t] \in Nat
  BY <1>2 DEF Dues
<1> HIDE DEF f, h
<1>6. SumFunction(f) \in Nat /\ SumFunction(pd) \in Nat
  BY <1>1, <1>3, <1>4, SumFunctionType
<1>7. SumFunction(pd) + SumFunction(f) <= SumFunction(h)
  <2>1. DOMAIN pd \cup DOMAIN f = DOMAIN h /\ DOMAIN pd \cap DOMAIN f = {} /\ IsFiniteSet(DOMAIN h)
    BY <1>1, <1>2, <1>4, <1>5
  <2>2. \A x \in DOMAIN h : h[x] \in Int
    BY <1>5
  <2>3. \A x \in DOMAIN pd : pd[x] \in Int /\ pd[x] <= h[x]
    BY <1>1, <1>5
  <2>4. \A x \in DOMAIN f : f[x] \in Int /\ f[x] <= h[x]
    BY <1>4, <1>5
  <2>5. QED
    BY <2>1, <2>2, <2>3, <2>4, SumFunctionShared
<1>8. SumFunction(h) = TotalUpTo(ts, OrDefault(lastReported[q]))
  BY <1>1, DuesTelescope DEF h
<1>9. OrDefault(lastReported[q]) \in Nat
  BY LastBounds
<1>10. /\ TotalUpTo(ts, OrDefault(lastReported[q])) \in Nat /\ CumulativeOf(ts) \in Nat
       /\ TotalUpTo(ts, OrDefault(lastReported[q])) <= CumulativeOf(ts)
  BY <1>1, <1>9, TotalBounds
<1>11. QED
  BY <1>6, <1>7, <1>8, <1>10 DEF f

-----------------------------------------------------------------------------
(* The inductive invariant of one-time tips. *)
TipsInv ==
    /\ ReportsInv
    /\ TipsTypeOK
    /\ \A q \in QueryId : Books(q, tips[q], paid[q])

(* The tips given for the queries and not paid out. *)
Unpaid(q) == CumulativeOf(tips[q]) - SumFunction(paid[q])
OwedTips == SumFunction([q \in QueryId |-> Unpaid(q)])

(* Nothing was paid that had not been given. *)
LEMMA UnpaidNat ==
    ASSUME TipsInv
    PROVE  /\ \A q \in QueryId : /\ Unpaid(q) \in Nat /\ CumulativeOf(tips[q]) \in Nat
                                 /\ SumFunction(paid[q]) \in Nat
           /\ OwedTips \in Nat
<1>1. ASSUME NEW q \in QueryId
      PROVE  /\ Unpaid(q) \in Nat /\ CumulativeOf(tips[q]) \in Nat /\ SumFunction(paid[q]) \in Nat
  <2>1. ReportsInv /\ Books(q, tips[q], paid[q])
    BY DEF TipsInv
  <2> DEFINE rest == SumFunction([t \in Undisputed(q) \ DOMAIN paid[q] |-> DueOf(q, tips[q], t)])
             total == TotalUpTo(tips[q], OrDefault(lastReported[q]))
  <2>2. /\ SumFunction(paid[q]) \in Nat /\ rest \in Nat
        /\ SumFunction(paid[q]) + rest <= total
        /\ total \in Nat /\ CumulativeOf(tips[q]) \in Nat
        /\ total <= CumulativeOf(tips[q])
    BY <2>1, PaidAndDue
  <2> HIDE DEF rest, total
  <2>3. QED
    BY <2>2 DEF Unpaid
<1> DEFINE f == [q \in QueryId |-> Unpaid(q)]
<1>2. IsFiniteSet(DOMAIN f) /\ \A q \in DOMAIN f : f[q] \in Nat
  BY <1>1, TipsAssumption
<1> HIDE DEF f
<1>3. SumFunction(f) \in Nat
  BY <1>2, SumFunctionType
<1>4. QED
  BY <1>1, <1>3 DEF OwedTips, f

(* So what is owed is never negative. *)
LEMMA OwedTipsNatNext == TipsInv' => (OwedTips \in Nat)'
<1>1. TipsInv => OwedTips \in Nat
  BY UnpaidNat
<1>2. QED
  BY <1>1, PTL

(* A step that changes the books of one query changes what is owed by as   *)
(* much.                                                                   *)
LEMMA OwedTipsChange ==
    ASSUME TipsInv, NEW q \in QueryId, NEW d \in Int, Unpaid(q)' = Unpaid(q) + d,
           \A p \in QueryId \ {q} : Unpaid(p)' = Unpaid(p)
    PROVE  OwedTips' = OwedTips + d
<1> DEFINE f == [p \in QueryId |-> Unpaid(p)]
           g == [p \in QueryId |-> Unpaid(p)']
<1>1. /\ IsFiniteSet(QueryId) /\ DOMAIN f = QueryId /\ DOMAIN g = QueryId
      /\ \A p \in QueryId : f[p] \in Int
      /\ g[q] = f[q] + d /\ \A p \in QueryId \ {q} : g[p] = f[p]
  BY UnpaidNat, TipsAssumption
<1>2. OwedTips = SumFunction(f) /\ OwedTips' = SumFunction(g)
  BY DEF OwedTips
<1> HIDE DEF f, g
<1>3. g[q] \in Int /\ DOMAIN g = DOMAIN f \cup {q} /\ q \in DOMAIN f
  BY <1>1
<1>4. SumFunction(g) = SumFunction(f) + g[q] - (IF q \in DOMAIN f THEN f[q] ELSE 0)
  BY <1>1, <1>3, SumFunctionPut
<1>5. SumFunction(f) \in Int
  BY <1>1, SumFunctionType
<1>6. PICK s, x \in Int : s = SumFunction(f) /\ x = f[q]
  BY <1>1, <1>5
<1>7. SumFunction(g) = s + (x + d) - x
  BY <1>1, <1>3, <1>4, <1>6
<1>8. s + (x + d) - x = s + d
  OBVIOUS
<1>9. QED
  BY <1>2, <1>6, <1>7, <1>8

(* Initially nothing is given, paid or owed. *)
LEMMA InitTips == ASSUME TipsInit PROVE TipsInv /\ OwedTips = 0
<1>1. ReportsInv
  BY InitInv DEF TipsInit
<1>2. TipsTypeOK
  BY <1>1, TipsAssumption, EmptySeq DEF TipsInit, TipsTypeOK, ReportsInv
<1>3. ASSUME NEW q \in QueryId
      PROVE  Books(q, tips[q], paid[q]) /\ Unpaid(q) = 0
  <2>1. tips[q] = <<>> /\ DOMAIN paid[q] = {} /\ paid[q] \in [DOMAIN paid[q] -> Nat]
    BY DEF TipsInit
  <2>2. Len(tips[q]) = 0 /\ tips[q] \in Seq(TipRecord)
    BY <2>1, EmptySeq
  <2>3. IsSeries(tips[q])
    BY <2>2 DEF IsSeries
  <2>4. IsFiniteSet(DOMAIN paid[q])
    BY <2>1, FS_EmptySet
  <2>5. Books(q, tips[q], paid[q])
    BY <2>1, <2>2, <2>3, <2>4 DEF Books
  <2>6. SumFunction(paid[q]) = 0 /\ CumulativeOf(tips[q]) = 0
    BY <2>1, <2>2, SumFunctionEmpty DEF CumulativeOf
  <2>7. QED
    BY <2>5, <2>6 DEF Unpaid
<1>4. TipsInv
  BY <1>1, <1>2, <1>3 DEF TipsInv
<1> DEFINE f == [q \in QueryId |-> Unpaid(q)]
<1>5. IsFiniteSet(DOMAIN f) /\ DOMAIN f = QueryId /\ \A q \in DOMAIN f : f[q] = 0
  BY <1>3, TipsAssumption
<1> HIDE DEF f
<1>6. SumFunction(f) = 0
  BY <1>5, SumFunctionZero
<1>7. QED
  BY <1>4, <1>6 DEF OwedTips, f

-----------------------------------------------------------------------------
(* Nothing happens to the reports. *)
LEMMA ReportsStutter ==
    ASSUME ReportsInv, UNCHANGED reportsVars
    PROVE  ReportsInv' /\ [ReportsNext]_reportsVars /\ ReportsTypeOK'
<1>1. [ReportsNext]_reportsVars
  OBVIOUS
<1>2. ReportsInv'
  BY <1>1, StepInv
<1>3. QED
  BY <1>1, <1>2 DEF ReportsInv

(* What a payment leaves of a balance is a balance. *)
LEMMA SpendNat ==
    ASSUME NEW b \in Int, NEW amount \in Nat
    PROVE  Spend(b, amount) \in Nat
  BY TipsAssumption DEF Spend

(* tip keeps the invariant and adds to what is owed as much as it pays in. *)
LEMMA TipInv ==
    ASSUME TipsInv, NEW a \in Account, NEW q \in QueryId, NEW amount \in TipAmounts, Tip(a, q, amount)
    PROVE  TipsInv' /\ OwedTips' = OwedTips + amount /\ tipsBalance' = tipsBalance + amount
<1>1. ReportsInv /\ TipsTypeOK /\ \A p \in QueryId : Books(p, tips[p], paid[p])
  BY DEF TipsInv
<1>2. amount \in Nat \ {0}
  BY TipsAssumption
<1>3. /\ UNCHANGED reportsVars /\ paid' = paid /\ stakingBalance' = stakingBalance
      /\ tips' = [tips EXCEPT ![q] = WithTip(q, amount)]
      /\ funded' = IF CurrentTip(q, WithTip(q, amount)) > 0 THEN funded \cup {q} ELSE funded
      /\ balance' = [balance EXCEPT ![a] = Spend(balance[a], amount)]
      /\ tipsBalance' = tipsBalance + amount
      /\ userTips' = [userTips EXCEPT ![a] = userTips[a] + amount]
  BY DEF Tip
<1>4. ReportsInv' /\ [ReportsNext]_reportsVars /\ ReportsTypeOK'
  BY <1>1, <1>3, ReportsStutter
<1>5. /\ Books(q, WithTip(q, amount), paid[q])
      /\ CumulativeOf(WithTip(q, amount)) = CumulativeOf(tips[q]) + amount
  BY <1>1, <1>2, TipKeepsBooks
<1>6. /\ tips \in [QueryId -> Seq(TipRecord)] /\ DOMAIN paid = QueryId
      /\ balance \in [Account -> Nat] /\ userTips \in [Account -> Nat]
      /\ tipsBalance \in Nat /\ stakingBalance \in Nat /\ funded \subseteq QueryId
      /\ \A p \in QueryId : paid[p] \in [DOMAIN paid[p] -> Nat]
  BY <1>1 DEF TipsTypeOK
<1>7. tips'[q] = WithTip(q, amount) /\ \A p \in QueryId \ {q} : tips'[p] = tips[p]
  BY <1>3, <1>6
<1>8. ASSUME NEW p \in QueryId PROVE Books(p, tips[p], paid[p])'
  <2>1. CASE p = q
    BY <1>1, <1>3, <1>4, <1>5, <1>7, <2>1, BooksKept
  <2>2. CASE p # q
    BY <1>1, <1>3, <1>4, <1>7, <2>2, BooksKept
  <2>3. QED
    BY <2>1, <2>2
<1>9. TipsTypeOK'
  <2>1. tips' \in [QueryId -> Seq(TipRecord)]
    <3>1. WithTip(q, amount) \in Seq(TipRecord)
      BY <1>5 DEF Books, IsSeries
    <3>2. QED
      BY <1>3, <1>6, <3>1
  <2>2. balance' \in [Account -> Nat]
    <3>1. Spend(balance[a], amount) \in Nat
      BY <1>2, <1>6, SpendNat
    <3>2. QED
      BY <1>3, <1>6, <3>1
  <2>3. userTips' \in [Account -> Nat] /\ tipsBalance' \in Nat /\ funded' \subseteq QueryId
    BY <1>2, <1>3, <1>6
  <2>4. QED
    BY <1>3, <1>4, <1>6, <2>1, <2>2, <2>3 DEF TipsTypeOK
<1>10. TipsInv'
  BY <1>4, <1>8, <1>9 DEF TipsInv
<1>11. OwedTips' = OwedTips + amount
  <2>1. CumulativeOf(tips[q]) \in Nat /\ SumFunction(paid[q]) \in Nat
    BY UnpaidNat
  <2>2. Unpaid(q)' = Unpaid(q) + amount
    <3>1. Unpaid(q)' = (CumulativeOf(tips[q]) + amount) - SumFunction(paid[q])
      <4>1. Unpaid(q)' = CumulativeOf(tips'[q]) - SumFunction(paid'[q])
        BY DEF Unpaid, CumulativeOf
      <4>2. QED
        BY <1>3, <1>5, <1>7, <4>1, Zenon
    <3>2. QED
      BY <1>2, <2>1, <3>1 DEF Unpaid
  <2>3. \A p \in QueryId \ {q} : Unpaid(p)' = Unpaid(p)
    BY <1>3, <1>7 DEF Unpaid, CumulativeOf
  <2>4. QED
    BY <1>2, <2>2, <2>3, OwedTipsChange
<1>12. QED
  BY <1>3, <1>10, <1>11

(* The fee is a part of the reward. *)
LEMMA FeePart ==
    ASSUME NEW reward \in Nat
    PROVE  (reward * Fee) \div 1000 \in Nat /\ (reward * Fee) \div 1000 <= reward
<1>1. PICK m \in 0..1000 : m = Fee
  BY TipsAssumption
<1>2. reward * m \in Nat
  OBVIOUS
<1>3. reward * m <= reward * 1000
  OBVIOUS
<1>4. PICK n \in Nat : n = reward * m /\ n <= reward * 1000
  BY <1>2, <1>3
<1>5. n \div 1000 \in Nat /\ n \div 1000 <= reward
  BY <1>4
<1>6. QED
  BY <1>1, <1>4, <1>5

(* A sequence over 1..n has length n. *)
LEMMA BatchLen ==
    ASSUME NEW n \in Nat, NEW S, NEW batch \in [1..n -> S]
    PROVE  Len(batch) = n /\ batch \in Seq(S)
  OBVIOUS

(* claim_onetime_tip keeps the invariant; what is owed falls by the reward *)
(* it pays.                                                                *)
LEMMA ClaimInv ==
    ASSUME TipsInv, NEW a \in Account, NEW q \in QueryId, NEW batch, Len(batch) \in Nat,
           ClaimOnetimeTip(a, q, batch)
    PROVE  /\ TipsInv'
           /\ \E reward \in Nat, fee \in Nat :
                 /\ fee <= reward
                 /\ OwedTips' = OwedTips - reward
                 /\ tipsBalance' = Spend(tipsBalance - (reward - fee), fee)
<1>1. ReportsInv /\ TipsTypeOK /\ \A p \in QueryId : Books(p, tips[p], paid[p])
  BY DEF TipsInv
<1>2. PICK result : result = ClaimBatch(a, q, batch)
  OBVIOUS
<1>3. PICK reward, fee : reward = result.reward /\ fee = (reward * Fee) \div 1000
  OBVIOUS
<1>4. /\ tipsBalance' = Spend(tipsBalance - (reward - fee), fee)
      /\ stakingBalance' = stakingBalance + fee
      /\ balance' = [balance EXCEPT ![a] = balance[a] + reward - fee]
      /\ tips' = [tips EXCEPT ![q] = result.tips]
      /\ paid' = [paid EXCEPT ![q] = result.paid]
      /\ funded' = IF CurrentTip(q, result.tips) = 0 THEN funded \ {q} ELSE funded
      /\ UNCHANGED reportsVars /\ userTips' = userTips
  BY <1>2, <1>3 DEF ClaimOnetimeTip
<1>5. RoundOf(q, result.tips, result.paid, reward)
  BY <1>1, <1>2, <1>3, BatchKeepsBooks DEF RoundKept
<1>6. /\ Books(q, result.tips, result.paid) /\ SameTips(tips[q], result.tips) /\ reward \in Nat
      /\ SumFunction(result.paid) = SumFunction(paid[q]) + reward
  BY <1>5 DEF RoundOf
<1>7. fee \in Nat /\ fee <= reward
  BY <1>3, <1>6, FeePart
<1>8. ReportsInv' /\ [ReportsNext]_reportsVars /\ ReportsTypeOK'
  BY <1>1, <1>4, ReportsStutter
<1>9. /\ tips \in [QueryId -> Seq(TipRecord)] /\ DOMAIN paid = QueryId
      /\ balance \in [Account -> Nat] /\ userTips \in [Account -> Nat]
      /\ tipsBalance \in Nat /\ stakingBalance \in Nat /\ funded \subseteq QueryId
      /\ \A p \in QueryId : paid[p] \in [DOMAIN paid[p] -> Nat]
  BY <1>1 DEF TipsTypeOK
<1>10. /\ tips'[q] = result.tips /\ \A p \in QueryId \ {q} : tips'[p] = tips[p]
       /\ paid'[q] = result.paid /\ \A p \in QueryId \ {q} : paid'[p] = paid[p]
       /\ DOMAIN paid' = QueryId
  BY <1>4, <1>9
<1>11. ASSUME NEW p \in QueryId PROVE Books(p, tips[p], paid[p])'
  <2>1. CASE p = q
    BY <1>1, <1>6, <1>8, <1>10, <2>1, BooksKept
  <2>2. CASE p # q
    BY <1>1, <1>8, <1>10, <2>2, BooksKept
  <2>3. QED
    BY <2>1, <2>2
<1>12. TipsTypeOK'
  <2>1. tips' \in [QueryId -> Seq(TipRecord)]
    <3>1. result.tips \in Seq(TipRecord)
      BY <1>6 DEF Books, IsSeries
    <3>2. QED
      BY <1>4, <1>9, <3>1
  <2>2. \A p \in QueryId : paid'[p] \in [DOMAIN paid'[p] -> Nat]
    BY <1>6, <1>9, <1>10 DEF Books
  <2>3. balance' \in [Account -> Nat]
    <3>1. balance[a] + reward - fee \in Nat
      BY <1>6, <1>7, <1>9
    <3>2. QED
      BY <1>4, <1>9, <3>1
  <2>4. tipsBalance' \in Nat
    <3>1. tipsBalance - (reward - fee) \in Int
      BY <1>6, <1>7, <1>9
    <3>2. QED
      BY <1>4, <1>7, <3>1, SpendNat
  <2>5. stakingBalance' \in Nat /\ funded' \subseteq QueryId
    BY <1>4, <1>7, <1>9
  <2>6. QED
    BY <1>4, <1>8, <1>9, <1>10, <2>1, <2>2, <2>3, <2>4, <2>5 DEF TipsTypeOK
<1>13. TipsInv'
  BY <1>8, <1>11, <1>12 DEF TipsInv
<1>14. OwedTips' = OwedTips - reward
  <2>1. CumulativeOf(tips[q]) \in Nat /\ SumFunction(paid[q]) \in Nat /\ OwedTips \in Nat
    BY UnpaidNat
  <2>2. CumulativeOf(result.tips) = CumulativeOf(tips[q])
    <3>1. Len(tips[q]) \in Nat /\ (Len(tips[q]) # 0 => Len(tips[q]) \in 1..Len(tips[q]))
      BY <1>1, SeriesTypes DEF Books
    <3>2. QED
      BY <1>6, <3>1 DEF SameTips, CumulativeOf
  <2>3. Unpaid(q)' = CumulativeOf(tips[q]) - (SumFunction(paid[q]) + reward)
    BY <1>6, <1>10, <2>2 DEF Unpaid, CumulativeOf
  <2>4. Unpaid(q)' = Unpaid(q) + (0 - reward) /\ 0 - reward \in Int
    BY <1>6, <2>1, <2>3 DEF Unpaid
  <2>5. \A p \in QueryId \ {q} : Unpaid(p)' = Unpaid(p)
    BY <1>10 DEF Unpaid, CumulativeOf
  <2>6. OwedTips' = OwedTips + (0 - reward)
    BY <2>4, <2>5, OwedTipsChange
  <2>7. QED
    BY <1>6, <2>1, <2>6
<1>15. QED
  BY <1>4, <1>6, <1>7, <1>13, <1>14

(* A step that leaves the tips and the payments alone, and at most         *)
(* submits, disputes or moves the clock.                                   *)
LEMMA OtherInv ==
    ASSUME TipsInv, [ReportsNext]_reportsVars, tips' = tips, paid' = paid, funded' = funded,
           userTips' \in [Account -> Nat], balance' \in [Account -> Nat],
           tipsBalance' \in Nat, stakingBalance' \in Nat
    PROVE  TipsInv' /\ OwedTips' = OwedTips
<1>1. ReportsInv /\ TipsTypeOK /\ \A q \in QueryId : Books(q, tips[q], paid[q])
  BY DEF TipsInv
<1>2. ReportsInv'
  BY <1>1, StepInv
<1>3. ASSUME NEW q \in QueryId PROVE Books(q, tips[q], paid[q])'
  BY <1>1, BooksKept
<1>4. TipsTypeOK'
  BY <1>1, <1>2 DEF TipsTypeOK, ReportsInv
<1>5. TipsInv'
  BY <1>2, <1>3, <1>4 DEF TipsInv
<1>6. OwedTips' = OwedTips
  BY DEF OwedTips, Unpaid, CumulativeOf
<1>7. QED
  BY <1>5, <1>6

-----------------------------------------------------------------------------
(* The tips sub-account holds its endowment, the tips not paid out and     *)
(* what else it is kept for (`rest`: the balances of the data feeds).      *)
AccountHolds(rest) == tipsBalance = ExistentialDeposit + rest + OwedTips

(* A claim pays its reward, the fee included: it never leaves a remainder  *)
(* so small that it is lost.                                               *)
LEMMA PaysReward ==
    ASSUME NEW b \in Nat, NEW reward \in Nat, NEW fee \in Nat, fee <= reward,
           b >= ExistentialDeposit + reward
    PROVE  Spend(b - (reward - fee), fee) = b - reward
  BY TipsAssumption DEF Spend

(* The steps of one-time tips keep the account in balance. *)
LEMMA TipStepInv ==
    ASSUME TipsInv, TipStep \/ ClaimStep, NEW rest \in Nat, AccountHolds(rest)
    PROVE  TipsInv' /\ tipsBalance' = ExistentialDeposit + rest + OwedTips'
<1>1. tipsBalance \in Nat /\ OwedTips \in Nat /\ ExistentialDeposit \in Nat
  BY UnpaidNat, TipsAssumption DEF TipsInv, TipsTypeOK
<1>2. tipsBalance = ExistentialDeposit + rest + OwedTips
  BY DEF AccountHolds
<1>3. CASE TipStep
  <2>1. PICK a \in Account, q \in QueryId, amount \in TipAmounts : Tip(a, q, amount)
    BY <1>3 DEF TipStep
  <2>2. TipsInv' /\ OwedTips' = OwedTips + amount /\ tipsBalance' = tipsBalance + amount
    BY <2>1, TipInv
  <2>3. amount \in Nat
    BY TipsAssumption
  <2>4. QED
    BY <1>1, <1>2, <2>2, <2>3
<1>4. CASE ClaimStep
  <2>1. PICK a \in Account, q \in QueryId, n \in 0..MaxClaimTimestamps :
           \E batch \in [1..n -> DOMAIN reports[q]] : ClaimOnetimeTip(a, q, batch)
    BY <1>4 DEF ClaimStep
  <2>2. PICK batch \in [1..n -> DOMAIN reports[q]] : ClaimOnetimeTip(a, q, batch)
    BY <2>1
  <2>3. n \in Nat
    BY TipsAssumption
  <2>4. Len(batch) \in Nat
    BY <2>3, BatchLen
  <2>5. TipsInv'
    BY <2>2, <2>4, ClaimInv
  <2>6. PICK reward \in Nat, fee \in Nat :
           /\ fee <= reward
           /\ OwedTips' = OwedTips - reward
           /\ tipsBalance' = Spend(tipsBalance - (reward - fee), fee)
    BY <2>2, <2>4, ClaimInv
  <2>7. OwedTips' \in Nat
    BY <2>5, OwedTipsNatNext
  <2>8. tipsBalance >= ExistentialDeposit + reward
    BY <1>1, <1>2, <2>6, <2>7
  <2>9. tipsBalance' = tipsBalance - reward
    BY <1>1, <2>6, <2>8, PaysReward
  <2>10. QED
    BY <1>1, <1>2, <2>5, <2>6, <2>9
<1>5. QED
  BY <1>3, <1>4

(* The invariant of one-time tips, with the account in balance. *)
LEMMA TipsInvariant == TipsSpec => [](TipsInv /\ AccountHolds(0))
<1>1. TipsInit => TipsInv /\ AccountHolds(0)
  <2> SUFFICES ASSUME TipsInit PROVE TipsInv /\ AccountHolds(0)
    OBVIOUS
  <2>1. TipsInv /\ OwedTips = 0
    BY InitTips
  <2>2. tipsBalance = ExistentialDeposit /\ ExistentialDeposit \in Nat
    BY TipsAssumption DEF TipsInit
  <2>3. QED
    BY <2>1, <2>2 DEF AccountHolds
<1>2. TipsInv /\ AccountHolds(0) /\ [TipsNext]_vars => (TipsInv /\ AccountHolds(0))'
  <2> SUFFICES ASSUME TipsInv, AccountHolds(0), [TipsNext]_vars
               PROVE  TipsInv' /\ tipsBalance' = ExistentialDeposit + 0 + OwedTips'
    BY DEF AccountHolds
  <2>1. CASE TipStep \/ ClaimStep
    BY <2>1, TipStepInv
  <2>2. CASE ReportStep \/ UNCHANGED vars
    <3>1. [ReportsNext]_reportsVars /\ UNCHANGED tipVars
      BY <2>2 DEF ReportStep, vars
    <3>2. /\ userTips \in [Account -> Nat] /\ balance \in [Account -> Nat]
          /\ tipsBalance \in Nat /\ stakingBalance \in Nat
      BY DEF TipsInv, TipsTypeOK
    <3>3. TipsInv' /\ OwedTips' = OwedTips
      BY <3>1, <3>2, OtherInv DEF tipVars
    <3>4. QED
      BY <3>1, <3>3 DEF AccountHolds, tipVars
  <2>3. QED
    BY <2>1, <2>2 DEF TipsNext
<1>3. QED
  BY <1>1, <1>2, PTL DEF TipsSpec

-----------------------------------------------------------------------------
(* The totals of the properties are those of the proofs. *)
LEMMA EntitlementIsDue ==
    ASSUME NEW q, NEW from, NEW to
    PROVE  GivenBetween(q, from, to) = TotalUpTo(tips[q], to) - TotalUpTo(tips[q], from)
  BY DEF GivenBetween, TotalUpTo

(* Of two undisputed reports the later one points at the earlier or later. *)
LEMMA PreviousCovers ==
    ASSUME ReportsInv, NEW q \in QueryId, NEW s \in Undisputed(q), NEW t \in Undisputed(q), s < t
    PROVE  s <= OrDefault(reports[q][t].previous)
<1>1. s \in UndisputedBefore(q, t) /\ t \in DOMAIN reports[q]
  BY DEF UndisputedBefore, Undisputed
<1>2. IsLatest(reports[q][t].previous, UndisputedBefore(q, t))
  BY <1>1 DEF ReportsInv, PreviousIsLatestUndisputed
<1>3. QED
  BY <1>1, <1>2 DEF IsLatest, OrDefault

(* The tips of a query stay in order, and a tip is marked as claimed only  *)
(* when the report that earned it is paid.                                 *)
THEOREM TipSeriesCorrect == TipsSpec => []TipSeriesConsistent
<1>1. TipsInv => TipSeriesConsistent
  <2> SUFFICES ASSUME TipsInv, NEW q \in QueryId, NEW i \in 1..Len(tips[q])
               PROVE  /\ i > 1 => tips[q][i - 1].timestamp < tips[q][i].timestamp
                      /\ Given(q, i) > 0
                      /\ tips[q][i].amount \in {0, Given(q, i)}
                      /\ tips[q][i].amount = 0 =>
                            \E t \in DOMAIN paid[q] : /\ tips[q][i].timestamp <= t
                                                      /\ OrDefault(reports[q][t].previous) < tips[q][i].timestamp
    BY DEF TipSeriesConsistent
  <2>1. Books(q, tips[q], paid[q])
    BY DEF TipsInv
  <2>2. IsSeries(tips[q])
    BY <2>1 DEF Books
  <2>3. Len(tips[q]) \in Nat /\ \A j \in 1..Len(tips[q]) : tips[q][j].cumulative_tips \in Nat
    BY <2>2, SeriesTypes
  <2>4. Given(q, i) = GivenOf(tips[q], i)
    BY DEF Given, GivenOf
  <2>5. i > 1 => i - 1 \in 1..Len(tips[q]) /\ i - 1 < i
    BY <2>3
  <2>6. i > 1 => /\ tips[q][i - 1].timestamp < tips[q][i].timestamp
                 /\ tips[q][i - 1].cumulative_tips < tips[q][i].cumulative_tips
    BY <2>2, <2>5 DEF IsSeries
  <2>7. Given(q, i) > 0
    <3>1. CASE i = 1
      BY <2>2, <2>3, <3>1 DEF Given, IsSeries
    <3>2. CASE i # 1
      <4>1. i > 1
        BY <2>3, <3>2
      <4>2. QED
        BY <2>3, <2>5, <2>6, <3>2, <4>1 DEF Given
    <3>3. QED
      BY <3>1, <3>2
  <2>8. QED
    BY <2>1, <2>2, <2>4, <2>6, <2>7 DEF Books, IsSeries
<1>2. QED
  BY <1>1, TipsInvariant, PTL

(* No claim of claim_onetime_tip is paid more than the tips since the      *)
(* previous undisputed report.                                             *)
THEOREM PaidCorrect == TipsSpec => []PaidWithinEntitlement
<1>1. TipsInv => PaidWithinEntitlement
  <2> SUFFICES ASSUME TipsInv, NEW q \in QueryId, NEW t \in DOMAIN paid[q]
               PROVE  paid[q][t] <= Entitlement(q, t)
    BY DEF PaidWithinEntitlement
  <2>1. Entitlement(q, t) = DueOf(q, tips[q], t)
    BY EntitlementIsDue DEF Entitlement, DueOf
  <2>2. QED
    BY <2>1 DEF TipsInv, Books
<1>2. QED
  BY <1>1, TipsInvariant, PTL

(* A report that is due tips passes every check of its claim. *)
THEOREM ClaimsCorrect == TipsSpec => []EntitledMayClaim
<1>1. TipsInv => EntitledMayClaim
  <2> SUFFICES ASSUME TipsInv, NEW q \in QueryId, NEW t \in Undisputed(q) \ DOMAIN paid[q],
                      now - t > ClaimBuffer, Entitlement(q, t) > 0
               PROVE  MayClaim(reports[q][t].reporter, q, tips[q], t)
    BY DEF EntitledMayClaim
  <2>1. PICK ts : ts = tips[q]
    OBVIOUS
  <2>2. ReportsInv /\ Books(q, ts, paid[q]) /\ IsSeries(ts)
    BY <2>1 DEF TipsInv, Books
  <2>3. Len(ts) \in Nat /\ \A i \in 1..Len(ts) : ts[i].timestamp \in Nat /\ ts[i].amount \in Nat
    BY <2>2, SeriesTypes
  <2>4. PICK p \in Nat : p = OrDefault(reports[q][t].previous) /\ p <= t /\ t \in Nat
    BY <2>2, LastBounds
  <2>5. TotalUpTo(ts, t) - TotalUpTo(ts, p) > 0
    BY <2>1, <2>4, EntitlementIsDue DEF Entitlement
  <2>6. TotalUpTo(ts, p) \in Nat /\ TotalUpTo(ts, t) \in Nat
    BY <2>2, <2>4, TotalBounds
  <2>7. Len(ts) # 0 /\ ts[1].timestamp <= t
    <3> SUFFICES ASSUME Len(ts) = 0 \/ ~(ts[1].timestamp <= t) PROVE FALSE
      OBVIOUS
    <3>1. Len(ts) # 0 => 1 \in 1..Len(ts)
      BY <2>3
    <3>2. Len(ts) = 0 \/ ts[1].timestamp > t
      BY <2>3, <2>4, <3>1
    <3>3. TotalUpTo(ts, t) = 0
      BY <2>2, <2>4, <3>2, TotalIsNone
    <3>4. QED
      BY <2>5, <2>6, <3>3
  <2>8. PICK k \in 1..Len(ts) : IsLastUpTo(ts, k, t)
    BY <2>2, <2>4, <2>7, LastExists
  <2>9. k = EarnedTip(ts, t) + 1 /\ ts[k].timestamp <= t /\ TotalUpTo(ts, t) = ts[k].cumulative_tips
    BY <2>2, <2>4, <2>7, <2>8, EarnedTipIs, TotalIsLast DEF IsLastUpTo
  <2>10. p < ts[k].timestamp
    <3> SUFFICES ASSUME ts[k].timestamp <= p PROVE FALSE
      BY <2>3, <2>4
    <3>1. k = Len(ts) \/ (k + 1 \in 1..Len(ts) /\ ts[k + 1].timestamp > t)
      BY <2>3, <2>8 DEF IsLastUpTo
    <3>2. IsLastUpTo(ts, k, p)
      BY <2>3, <2>4, <3>1 DEF IsLastUpTo
    <3>3. TotalUpTo(ts, p) = ts[k].cumulative_tips
      BY <2>2, <2>4, <3>2, TotalIsLast
    <3>4. QED
      BY <2>5, <2>6, <2>9, <3>3
  <2>11. ts[k].amount # 0
    <3> SUFFICES ASSUME ts[k].amount = 0 PROVE FALSE
      OBVIOUS
    <3>1. PICK s \in DOMAIN paid[q] : /\ ts[k].timestamp <= s
                                      /\ OrDefault(reports[q][s].previous) < ts[k].timestamp
      BY <2>2 DEF Books
    <3>2. s \in Undisputed(q) /\ s # t
      BY <2>2 DEF Books
    <3>3. PICK r \in Nat : r = OrDefault(reports[q][s].previous) /\ s \in Nat
      BY <2>2, <3>2, LastBounds
    <3>4. CASE s < t
      <4>1. s <= p
        BY <2>2, <2>4, <3>2, <3>4, PreviousCovers
      <4>2. QED
        BY <2>3, <2>4, <2>10, <3>1, <3>3, <4>1
    <3>5. CASE t < s
      <4>1. t <= r
        BY <2>2, <3>2, <3>3, <3>5, PreviousCovers
      <4>2. QED
        BY <2>3, <2>4, <2>9, <3>1, <3>3, <4>1
    <3>6. QED
      BY <2>4, <3>2, <3>3, <3>4, <3>5
  <2>12. ts # <<>> /\ t <= now
    BY <2>2, <2>7, EmptySeq DEF ReportsInv, IndexConsistent, Undisputed
  <2>13. t \in DOMAIN reports[q] /\ ~reports[q][t].is_disputed
    BY DEF Undisputed
  <2>14. t >= ts[k].timestamp /\ ts[k].amount > 0
    BY <2>3, <2>4, <2>9, <2>11
  <2>15. QED
    BY <2>1, <2>4, <2>9, <2>10, <2>12, <2>13, <2>14 DEF MayClaim
<1>2. QED
  BY <1>1, TipsInvariant, PTL

(* The tips account covers everything the undisputed reports are due and   *)
(* every tip not yet earned.                                               *)
THEOREM TipsSolvent == TipsSpec => []TipsAccountSolvent
<1>1. TipsInv /\ AccountHolds(0) => TipsAccountSolvent
  <2> SUFFICES ASSUME TipsInv, AccountHolds(0) PROVE TipsAccountSolvent
    OBVIOUS
  <2> DEFINE Due(q) == SumOver(Undisputed(q) \ DOMAIN paid[q], LAMBDA t : Entitlement(q, t))
             Unearned(q) == GivenBetween(q, OrDefault(lastReported[q]), MaxTime + 1)
             f == [q \in QueryId |-> Due(q) + Unearned(q)]
             h == [q \in QueryId |-> Unpaid(q)]
  <2>1. ASSUME NEW q \in QueryId
        PROVE  Due(q) + Unearned(q) \in Int /\ Unpaid(q) \in Int /\ Due(q) + Unearned(q) <= Unpaid(q)
    <3> DEFINE ts == tips[q]
               pd == paid[q]
               last == OrDefault(lastReported[q])
               rest == SumFunction([t \in Undisputed(q) \ DOMAIN pd |-> DueOf(q, ts, t)])
    <3>1. ReportsInv /\ Books(q, ts, pd) /\ IsSeries(ts)
      BY DEF TipsInv, Books
    <3>2. /\ SumFunction(pd) \in Nat /\ rest \in Nat
          /\ SumFunction(pd) + rest <= TotalUpTo(ts, last)
          /\ TotalUpTo(ts, last) \in Nat /\ CumulativeOf(ts) \in Nat
      BY <3>1, PaidAndDue
    <3>3. MaxTime + 1 \in Nat
      BY ReportsAssumption
    <3>4. TotalUpTo(ts, MaxTime + 1) \in Nat /\ TotalUpTo(ts, MaxTime + 1) <= CumulativeOf(ts)
      BY <3>1, <3>3, TotalBounds
    <3>5. Unearned(q) = TotalUpTo(ts, MaxTime + 1) - TotalUpTo(ts, last)
      BY EntitlementIsDue
    <3>6. Due(q) = rest
      <4>1. \A t : Entitlement(q, t) = DueOf(q, ts, t)
        BY EntitlementIsDue DEF Entitlement, DueOf
      <4>2. QED
        BY <4>1 DEF SumOver
    <3> HIDE DEF Due, Unearned, rest
    <3>7. QED
      BY <3>2, <3>4, <3>5, <3>6 DEF Unpaid
  <2>2. IsFiniteSet(DOMAIN h) /\ DOMAIN f = DOMAIN h
    BY TipsAssumption
  <2>3. \A q \in DOMAIN h : f[q] \in Int /\ h[q] \in Int /\ f[q] <= h[q]
    BY <2>1
  <2>4. SumOver(QueryId, LAMBDA q : Due(q) + Unearned(q)) = SumFunction(f) /\ OwedTips = SumFunction(h)
    BY DEF SumOver, OwedTips
  <2> HIDE DEF Due, Unearned, f, h
  <2>5. SumFunction(f) <= SumFunction(h) /\ SumFunction(f) \in Int /\ SumFunction(h) \in Int
    BY <2>2, <2>3, SumFunctionBelow, SumFunctionType
  <2>6. tipsBalance >= ExistentialDeposit + SumFunction(f)
    <3>1. PICK e \in Nat, x, y \in Int : e = ExistentialDeposit /\ x = SumFunction(f) /\ y = SumFunction(h)
      BY <2>5, TipsAssumption
    <3>2. x <= y /\ tipsBalance = e + 0 + y
      BY <2>4, <2>5, <3>1 DEF AccountHolds
    <3>3. QED
      BY <3>1, <3>2
  <2>7. QED
    BY <2>4, <2>6 DEF TipsAccountSolvent, Due, Unearned
<1>2. QED
  BY <1>1, TipsInvariant, PTL

-----------------------------------------------------------------------------
(* The checks claim_tip makes for a report of feed d, given the claims so  *)
(* far.                                                                    *)
FeedClaimable(a, d, done, t) ==
    /\ t <= now /\ now - t > ClaimBuffer
    /\ t \in DOMAIN reports[d[1]] /\ reports[d[1]][t].reporter = a
    /\ Rewarded(d, t, done)

(* One round of the loop of claim_tip, at timestamp t. *)
AfterFeedClaim(a, d, batch, before, t) ==
    LET total == TotalReward(d, before.reward + RewardAmount(d, t), t, batch)
    IN IF before.ok /\ FeedClaimable(a, d, DOMAIN before.claimed, t) /\ total.ok
       THEN [ok |-> TRUE,
             claimed |-> [s \in DOMAIN before.claimed \cup {t} |->
                            IF s = t THEN total.reward - before.reward ELSE before.claimed[s]],
             reward |-> total.reward,
             exhausted |-> before.exhausted \/ total.exhausted]
       ELSE [before EXCEPT !.ok = FALSE]

(* f is the loop's progress through a batch. *)
IsFeedRun(f, a, d, batch) ==
    /\ f[0] = [ok |-> TRUE, claimed |-> claimed[d], reward |-> 0, exhausted |-> FALSE]
    /\ \A i \in Nat : i < Len(batch) => f[i + 1] = AfterFeedClaim(a, d, batch, f[i], batch[i + 1])

(* The loop of the model goes through these rounds. *)
LEMMA FeedRounds ==
    ASSUME NEW a, NEW d, NEW batch, Len(batch) \in Nat
    PROVE  \E f : IsFeedRun(f, a, d, batch) /\ ClaimFeedBatch(a, d, batch) = f[Len(batch)]
<1>1. PICK n \in Nat : n = Len(batch)
  OBVIOUS
<1>2. PICK c : c = [ok |-> TRUE, claimed |-> claimed[d], reward |-> 0, exhausted |-> FALSE]
  OBVIOUS
<1> DEFINE Step(s, i) == AfterFeedClaim(a, d, batch, s, batch[i])
           At(f, i) ==
             IF i = 0 THEN [ok |-> TRUE, claimed |-> claimed[d], reward |-> 0, exhausted |-> FALSE]
             ELSE LET before == f[i - 1]
                      t == batch[i]
                      may == /\ before.ok
                             /\ t <= now /\ now - t > ClaimBuffer
                             /\ t \in DOMAIN reports[d[1]] /\ reports[d[1]][t].reporter = a
                             /\ Rewarded(d, t, DOMAIN before.claimed)
                      total == TotalReward(d, before.reward + RewardAmount(d, t), t, batch)
                  IN IF may /\ total.ok
                     THEN [ok |-> TRUE,
                           claimed |-> [s \in DOMAIN before.claimed \cup {t} |->
                                          IF s = t THEN total.reward - before.reward ELSE before.claimed[s]],
                           reward |-> total.reward,
                           exhausted |-> before.exhausted \/ total.exhausted]
                     ELSE [before EXCEPT !.ok = FALSE]
           Body(f) == [i \in 0..Len(batch) |-> At(f, i)]
           Loop(f) == [i \in 0..n |-> IF i = 0 THEN c ELSE Step(f[i - 1], i)]
           C == CHOOSE f : f = Body(f)
<1>3. ClaimFeedBatch(a, d, batch) = C[Len(batch)]
  BY DEF ClaimFeedBatch
<1>4. ASSUME NEW f PROVE Body(f) = Loop(f)
  <2>1. ASSUME NEW i \in 0..n PROVE At(f, i) = IF i = 0 THEN c ELSE Step(f[i - 1], i)
    BY <1>2, Zenon DEF AfterFeedClaim, FeedClaimable
  <2>2. QED
    BY <1>1, <2>1, Zenon
<1> HIDE DEF Step, Body
<1> DEFINE Runs(f, m) == f[0] = c /\ \A i \in Nat : i < m => f[i + 1] = Step(f[i], i + 1)
           P == {m \in Nat : \E f : Runs(f, m)}
<1>5. 0 \in P
  <2>1. Runs([i \in {0} |-> c], 0)
    OBVIOUS
  <2>2. QED
    BY <2>1
<1>6. ASSUME NEW m \in Nat, m \in P PROVE m + 1 \in P
  <2>1. PICK f : Runs(f, m)
    BY <1>6
  <2> DEFINE g == [i \in 0..(m + 1) |-> IF i = m + 1 THEN Step(f[m], m + 1) ELSE f[i]]
  <2>2. \A i \in Nat : i <= m => g[i] = f[i]
    OBVIOUS
  <2>3. g[m + 1] = Step(f[m], m + 1)
    OBVIOUS
  <2> HIDE DEF g
  <2>4. g[0] = c
    BY <2>1, <2>2
  <2>5. ASSUME NEW i \in Nat, i < m + 1 PROVE g[i + 1] = Step(g[i], i + 1)
    <3>1. g[i] = f[i]
      BY <2>2, <2>5
    <3>2. CASE i = m
      BY <2>3, <3>1, <3>2
    <3>3. CASE i # m
      <4>1. i < m /\ i + 1 \in Nat /\ i + 1 <= m
        BY <2>5, <3>3
      <4>2. g[i + 1] = f[i + 1]
        BY <2>2, <4>1
      <4>3. f[i + 1] = Step(f[i], i + 1)
        BY <2>1, <4>1
      <4>4. QED
        BY <3>1, <4>2, <4>3
    <3>4. QED
      BY <3>2, <3>3
  <2>6. Runs(g, m + 1)
    BY <2>4, <2>5
  <2>7. QED
    BY <2>6
<1>7. n \in P
  <2> HIDE DEF P
  <2>1. Nat \subseteq P
    BY <1>5, <1>6, NatSetInduction
  <2>2. QED
    BY <2>1
<1>8. PICK f : Runs(f, n)
  BY <1>7
<1> DEFINE g == [i \in 0..n |-> f[i]]
<1>9. g = Loop(g)
  <2>1. ASSUME NEW i \in 0..n PROVE f[i] = IF i = 0 THEN c ELSE Step(g[i - 1], i)
    <3>1. CASE i = 0
      BY <1>8, <3>1
    <3>2. CASE i # 0
      <4>1. i - 1 \in Nat /\ i - 1 < n /\ (i - 1) + 1 = i /\ i - 1 \in 0..n
        BY <3>2
      <4>2. f[(i - 1) + 1] = Step(f[i - 1], (i - 1) + 1)
        BY <1>8, <4>1
      <4>3. g[i - 1] = f[i - 1]
        BY <4>1
      <4>4. f[i] = Step(g[i - 1], i)
        BY <4>1, <4>2, <4>3
      <4> HIDE DEF g
      <4>5. QED
        BY <3>2, <4>4
    <3>3. QED
      BY <3>1, <3>2
  <2>2. QED
    BY <2>1, Zenon
<1> HIDE DEF Loop, g
<1>10. \E h : h = Body(h)
  BY <1>4, <1>9
<1>11. C = Body(C)
  BY <1>10, Zenon
<1>12. C = Loop(C)
  BY <1>4, <1>11
<1> HIDE DEF C
<1>13. \A i \in 0..n : C[i] = IF i = 0 THEN c ELSE Step(C[i - 1], i)
  BY <1>12, Zenon DEF Loop
<1>14. C[0] = c
  BY <1>13
<1>15. ASSUME NEW i \in Nat, i < n PROVE C[i + 1] = Step(C[i], i + 1)
  <2>1. i + 1 \in 0..n /\ i + 1 # 0 /\ (i + 1) - 1 = i
    BY <1>15
  <2>2. C[i + 1] = Step(C[(i + 1) - 1], i + 1)
    BY <1>13, <2>1
  <2>3. QED
    BY <2>1, <2>2
<1>16. QED
  BY <1>1, <1>2, <1>3, <1>14, <1>15, Zenon DEF Step, IsFeedRun

(* A feed has its parameters' types and a positive interval. *)
IsFeed(d) == d \in FeedId /\ d[2].interval > 0

(* The parameters of a feed are numbers. *)
LEMMA FeedTypes ==
    ASSUME NEW d, IsFeed(d)
    PROVE  /\ d[1] \in QueryId
           /\ d[2].reward \in Nat /\ d[2].start_time \in Nat /\ d[2].interval \in Nat \ {0}
           /\ d[2].window \in Nat /\ d[2].price_threshold \in Nat
           /\ d[2].reward_increase_per_second \in Nat
<1>1. d[1] \in QueryId /\ d[2] \in FeedParams
  BY DEF IsFeed, FeedId
<1>2. PICK p : p = d[2]
  OBVIOUS
<1>3. p \in [reward : Nat, start_time : Nat, interval : Nat, window : Nat,
             price_threshold : 0..MaxU16, reward_increase_per_second : Nat]
  BY <1>1, <1>2, FeedsAssumption, Zenon
<1>4. /\ p.reward \in Nat /\ p.start_time \in Nat /\ p.interval \in Nat
      /\ p.window \in Nat /\ p.price_threshold \in Nat /\ p.reward_increase_per_second \in Nat
  <2>1. MaxU16 \in Nat
    BY DEF MaxU16
  <2>2. QED
    BY ONLY <1>3, <2>1
<1>5. p.interval > 0
  BY <1>2 DEF IsFeed
<1>6. QED
  BY <1>1, <1>2, <1>4, <1>5

(* An interval starts no later than the times in it. *)
LEMMA IntervalBounds ==
    ASSUME NEW d, IsFeed(d), NEW t \in Nat, t >= d[2].start_time
    PROVE  IntervalStart(d, t) \in Nat /\ IntervalStart(d, t) <= t
<1>1. PICK s \in Nat, n \in Nat \ {0} : s = d[2].start_time /\ n = d[2].interval
  BY FeedTypes
<1>2. PICK b \in Nat : b = t - s
  BY <1>1
<1>3. n * (b \div n) \in Nat /\ n * (b \div n) <= b
  OBVIOUS
<1>4. IntervalStart(d, t) = s + n * (b \div n)
  BY <1>1, <1>2 DEF IntervalStart
<1>5. PICK k \in Nat : k = n * (b \div n) /\ k <= b
  BY <1>3
<1>6. QED
  BY <1>1, <1>2, <1>4, <1>5

(* A reward is a natural number, at most the feed's balance. *)
LEMMA RewardNat ==
    ASSUME NEW d, IsFeed(d), feeds[d] \in Nat, NEW t \in Nat, t >= d[2].start_time
    PROVE  RewardAmount(d, t) \in Nat /\ RewardAmount(d, t) <= feeds[d]
<1>1. PICK r \in Nat, m \in Nat, s \in Nat :
         r = d[2].reward /\ m = d[2].reward_increase_per_second /\ s = IntervalStart(d, t) /\ s <= t
  BY FeedTypes, IntervalBounds
<1>2. t - s \in Nat
  BY <1>1
<1>3. m * (t - s) \in Nat
  BY <1>2
<1>4. PICK n \in Nat : n = IF InWindow(d, t) THEN m * (t - s) ELSE 0
  BY <1>3
<1>5. RewardAmount(d, t) = IF feeds[d] < r + n THEN feeds[d] ELSE r + n
  BY <1>1, <1>4, Zenon DEF RewardAmount
<1>6. QED
  BY <1>5

-----------------------------------------------------------------------------
(* The report at t was rightly paid by feed d. *)
PaidFor(d, t) ==
    /\ t \in Undisputed(d[1]) /\ now - t >= ReportingLock
    /\ t >= d[2].start_time
    /\ InWindow(d, t) \/ PriceChange(d, t) > d[2].price_threshold

(* What holds after every round of claim_tip. *)
FeedRoundOf(d, cl, reward, exhausted) ==
    /\ reward \in Nat /\ reward <= feeds[d]
    /\ exhausted <=> reward = feeds[d]
    /\ cl \in [DOMAIN cl -> Nat] /\ DOMAIN claimed[d] \subseteq DOMAIN cl
    /\ \A t \in DOMAIN cl : PaidFor(d, t)

FeedRoundKept(d, s) ==
    /\ {"ok", "claimed", "reward", "exhausted"} \subseteq DOMAIN s
    /\ FeedRoundOf(d, s.claimed, s.reward, s.exhausted)

(* A round that claims the report at t. *)
Claims(a, d, batch, s, t) ==
    /\ s.ok /\ FeedClaimable(a, d, DOMAIN s.claimed, t)
    /\ TotalReward(d, s.reward + RewardAmount(d, t), t, batch).ok

(* A round keeps it, and adds the report's reward up to the balance. *)
LEMMA FeedRoundKeeps ==
    ASSUME ReportsInv, NEW d, IsFeed(d), feeds[d] \in Nat \ {0}, NEW a, NEW batch, NEW t,
           NEW s, FeedRoundKept(d, s)
    PROVE  LET next == AfterFeedClaim(a, d, batch, s, t)
               total == s.reward + RewardAmount(d, t)
           IN /\ FeedRoundKept(d, next)
              /\ Claims(a, d, batch, s, t) => 
                   next.reward = IF total < feeds[d] THEN total ELSE feeds[d]
              /\ ~Claims(a, d, batch, s, t) => ~next.ok
<1>1. PICK cl, reward, exhausted : cl = s.claimed /\ reward = s.reward /\ exhausted = s.exhausted
  OBVIOUS
<1>2. {"ok", "claimed", "reward", "exhausted"} \subseteq DOMAIN s
  BY DEF FeedRoundKept
<1>3. FeedRoundOf(d, cl, reward, exhausted)
  BY <1>1 DEF FeedRoundKept
<1>4. PICK next : next = AfterFeedClaim(a, d, batch, s, t)
  OBVIOUS
<1>5. PICK total : total = s.reward + RewardAmount(d, t)
  OBVIOUS
<1>6. CASE Claims(a, d, batch, s, t)
  <2>1. s.ok /\ FeedClaimable(a, d, DOMAIN s.claimed, t) /\ TotalReward(d, total, t, batch).ok
    BY <1>5, <1>6 DEF Claims
  <2>2. PICK tr : tr = TotalReward(d, total, t, batch)
    OBVIOUS
  <2>3. /\ t \in Nat /\ t >= d[2].start_time /\ t \in Undisputed(d[1]) /\ now - t > ClaimBuffer
        /\ InWindow(d, t) \/ PriceChange(d, t) > d[2].price_threshold
    BY <2>1, FeedTypes DEF FeedClaimable, Rewarded, Undisputed, ReportsInv, ReportsTypeOK, Timestamp
  <2>4. PICK r \in Nat : r = RewardAmount(d, t)
    BY <2>3, RewardNat
  <2>5. total = reward + r /\ reward \in Nat /\ reward <= feeds[d]
    BY <1>1, <1>3, <1>5, <2>4 DEF FeedRoundOf
  <2>6. /\ tr.reward = IF total < feeds[d] THEN total ELSE feeds[d]
        /\ tr.exhausted <=> ~(total < feeds[d])
    <3>1. CASE total < feeds[d]
      <4>1. tr = [ok |-> TRUE, reward |-> total, exhausted |-> FALSE]
        BY <2>2, <3>1, Zenon DEF TotalReward
      <4>2. QED
        BY <3>1, <4>1
    <3>2. CASE ~(total < feeds[d])
      <4>1. tr = [ok |-> t = Last(batch), reward |-> feeds[d], exhausted |-> TRUE]
        BY <2>2, <3>2, Zenon DEF TotalReward
      <4>2. QED
        BY <3>2, <4>1
    <3>3. QED
      BY <3>1, <3>2
  <2>7. PICK ce : ce = [z \in DOMAIN cl \cup {t} |-> IF z = t THEN tr.reward - reward ELSE cl[z]]
    OBVIOUS
  <2>8. next = [ok |-> TRUE, claimed |-> ce, reward |-> tr.reward, exhausted |-> exhausted \/ tr.exhausted]
    BY <1>1, <1>4, <1>5, <2>1, <2>2, <2>7, Zenon DEF AfterFeedClaim
  <2>9. /\ next.claimed = ce /\ next.reward = tr.reward
        /\ {"ok", "claimed", "reward", "exhausted"} \subseteq DOMAIN next
    BY <2>8
  <2>10. next.exhausted <=> (exhausted \/ tr.exhausted)
    BY <2>8
  <2>11. tr.reward \in Nat /\ tr.reward <= feeds[d] /\ reward <= tr.reward
    BY <2>4, <2>5, <2>6
  <2>12. next.exhausted <=> next.reward = feeds[d]
    <3>1. exhausted <=> reward = feeds[d]
      BY <1>3 DEF FeedRoundOf
    <3>2. tr.exhausted <=> tr.reward = feeds[d]
      <4>1. total \in Nat
        BY <2>4, <2>5
      <4>2. CASE total < feeds[d]
        <5>1. tr.reward = total /\ ~tr.exhausted
          BY <2>6, <4>2
        <5>2. total # feeds[d]
          BY <4>1, <4>2
        <5>3. QED
          BY <5>1, <5>2
      <4>3. CASE ~(total < feeds[d])
        BY <2>6, <4>3
      <4>4. QED
        BY <4>2, <4>3
    <3>3. reward = feeds[d] => tr.reward = feeds[d]
      BY <2>11
    <3>4. QED
      BY <2>9, <2>10, <3>1, <3>2, <3>3
  <2>13. DOMAIN ce = DOMAIN cl \cup {t} /\ ce \in [DOMAIN ce -> Nat]
    <3>1. tr.reward - reward \in Nat
      BY <2>5, <2>11
    <3>2. cl \in [DOMAIN cl -> Nat]
      BY <1>3 DEF FeedRoundOf
    <3>3. QED
      BY <2>7, <3>1, <3>2
  <2>14. PaidFor(d, t)
    <3>1. now - t >= ReportingLock
      BY <2>3, TipsAssumption, ReportsAssumption, LastBounds, FeedTypes
    <3>2. QED
      BY <2>3, <3>1 DEF PaidFor
  <2>15. FeedRoundOf(d, ce, tr.reward, next.exhausted)
    BY <1>3, <2>9, <2>11, <2>12, <2>13, <2>14 DEF FeedRoundOf
  <2>16. FeedRoundKept(d, next)
    BY <2>9, <2>15 DEF FeedRoundKept
  <2>17. QED
    BY <1>4, <1>5, <1>6, <2>6, <2>9, <2>16
<1>7. CASE ~Claims(a, d, batch, s, t)
  <2>1. next = [s EXCEPT !.ok = FALSE]
    BY <1>4, <1>7, Zenon DEF AfterFeedClaim, Claims
  <2>2. /\ next.claimed = s.claimed /\ next.reward = s.reward /\ next.exhausted = s.exhausted
        /\ {"ok", "claimed", "reward", "exhausted"} \subseteq DOMAIN next
        /\ ~next.ok
    BY ONLY <1>2, <2>1
  <2>3. FeedRoundKept(d, next)
    BY <2>2 DEF FeedRoundKept
  <2>4. QED
    BY <1>4, <1>7, <2>2, <2>3
<1>8. QED
  BY <1>6, <1>7

(* What get_reward_amount adds up for a batch. *)
RewardsOf(d, batch) ==
    [i \in DOMAIN batch |-> IF Rewarded(d, batch[i], DOMAIN claimed[d]) THEN RewardAmount(d, batch[i]) ELSE 0]

Capped(d, sum) == IF sum < feeds[d] THEN sum ELSE feeds[d]

(* The state of feed d is in order. *)
FeedInOrder(d) ==
    /\ IsFeed(d) /\ feeds[d] \in Nat
    /\ claimed[d] \in [DOMAIN claimed[d] -> Nat]
    /\ \A t \in DOMAIN claimed[d] : PaidFor(d, t)

(* A batch of claims keeps the feed in order, and if it is accepted its    *)
(* reward is the sum of the rewards of its reports, up to the balance.     *)
LEMMA FeedBatch ==
    ASSUME ReportsInv, NEW d, FeedInOrder(d), feeds[d] # 0, NEW a,
           NEW n \in Nat, NEW batch, Len(batch) = n, DOMAIN batch = 1..n
    PROVE  LET result == ClaimFeedBatch(a, d, batch)
               sum == SumFunction(RewardsOf(d, batch))
           IN /\ FeedRoundKept(d, result)
              /\ result.ok => sum \in Nat /\ result.reward = Capped(d, sum)
<1>1. PICK f : IsFeedRun(f, a, d, batch) /\ ClaimFeedBatch(a, d, batch) = f[Len(batch)]
  BY FeedRounds
<1>2. IsFeed(d) /\ feeds[d] \in Nat \ {0}
  BY DEF FeedInOrder
<1>3. PICK rewards : rewards = RewardsOf(d, batch)
  OBVIOUS
<1>4. DOMAIN rewards = 1..n
  BY <1>3 DEF RewardsOf
<1> DEFINE SumTo(i) == SumFunctionOnSet(rewards, 1..i)
           Quoted(i) == /\ \A j \in 1..i : rewards[j] \in Nat
                        /\ SumTo(i) \in Nat /\ f[i].reward = Capped(d, SumTo(i))
           P == {i \in Nat : i <= n => FeedRoundKept(d, f[i]) /\ (f[i].ok => Quoted(i))}
<1>5. 0 \in P
  <2>1. f[0] = [ok |-> TRUE, claimed |-> claimed[d], reward |-> 0, exhausted |-> FALSE]
    BY <1>1 DEF IsFeedRun
  <2>2. /\ f[0].claimed = claimed[d] /\ f[0].reward = 0 /\ ~f[0].exhausted
        /\ {"ok", "claimed", "reward", "exhausted"} \subseteq DOMAIN f[0]
    BY <2>1
  <2>3. FeedRoundOf(d, claimed[d], 0, f[0].exhausted)
    BY <1>2, <2>2 DEF FeedRoundOf, FeedInOrder
  <2>4. FeedRoundKept(d, f[0])
    BY <2>2, <2>3 DEF FeedRoundKept
  <2>5. 1..0 = {} /\ SumFunctionOnSet(rewards, {}) = 0
    BY SumEmpty
  <2>6. Quoted(0)
    BY <1>2, <2>2, <2>5 DEF Capped
  <2>7. QED
    BY <2>4, <2>6
<1>6. ASSUME NEW i \in Nat, i \in P PROVE i + 1 \in P
  <2> SUFFICES ASSUME i + 1 <= n
               PROVE  FeedRoundKept(d, f[i + 1]) /\ (f[i + 1].ok => Quoted(i + 1))
    OBVIOUS
  <2>1. i < n /\ i <= n /\ i + 1 \in 1..n
    OBVIOUS
  <2>2. FeedRoundKept(d, f[i]) /\ (f[i].ok => Quoted(i))
    BY <1>6, <2>1
  <2>3. PICK t : t = batch[i + 1]
    OBVIOUS
  <2>4. f[i + 1] = AfterFeedClaim(a, d, batch, f[i], t)
    BY <1>1, <2>1, <2>3 DEF IsFeedRun
  <2> DEFINE total == f[i].reward + RewardAmount(d, t)
  <2>5. /\ FeedRoundKept(d, f[i + 1])
        /\ Claims(a, d, batch, f[i], t) => f[i + 1].reward = IF total < feeds[d] THEN total ELSE feeds[d]
        /\ ~Claims(a, d, batch, f[i], t) => ~f[i + 1].ok
    BY <1>2, <2>2, <2>4, FeedRoundKeeps
  <2>6. ASSUME f[i + 1].ok PROVE Quoted(i + 1)
    <3>1. Claims(a, d, batch, f[i], t)
      BY <2>5, <2>6
    <3>2. f[i].ok /\ Rewarded(d, t, DOMAIN f[i].claimed)
      BY <3>1 DEF Claims, FeedClaimable
    <3>3. DOMAIN claimed[d] \subseteq DOMAIN f[i].claimed
      BY <2>2 DEF FeedRoundKept, FeedRoundOf
    <3>4. Rewarded(d, t, DOMAIN claimed[d])
      BY <3>2, <3>3 DEF Rewarded
    <3>5. t \in Nat /\ t >= d[2].start_time
      BY <1>2, <3>4, FeedTypes DEF Rewarded, ReportsInv, ReportsTypeOK, Timestamp
    <3>6. PICK r \in Nat : r = RewardAmount(d, t)
      BY <1>2, <3>5, RewardNat
    <3>7. rewards[i + 1] = r
      BY <1>3, <2>1, <2>3, <3>4, <3>6 DEF RewardsOf
    <3>8. Quoted(i)
      BY <2>2, <3>2
    <3>9. PICK s \in Nat : s = SumTo(i) /\ f[i].reward = Capped(d, s)
      BY <3>8
    <3>10. \A j \in 1..(i + 1) : rewards[j] \in Nat
      BY <3>7, <3>8
    <3>11. SumTo(i + 1) = r + s
      <4> DEFINE V == 1..i
      <4>1. IsFiniteSet(V) /\ i + 1 \notin V /\ 1..(i + 1) = V \cup {i + 1}
        <5>1. IsFiniteSet(1..i)
          BY FS_Interval
        <5>2. i + 1 \notin 1..i /\ 1..(i + 1) = (1..i) \cup {i + 1}
          OBVIOUS
        <5>3. QED
          BY <5>1, <5>2
      <4> HIDE DEF V
      <4>2. \A x \in V \cup {i + 1} : rewards[x] \in Int
        BY <3>10, <4>1
      <4>3. SumFunctionOnSet(rewards, V \cup {i + 1}) = rewards[i + 1] + SumFunctionOnSet(rewards, V)
        BY <4>1, <4>2, SumAdd
      <4>4. SumFunctionOnSet(rewards, V) = s
        BY <3>9 DEF V
      <4>5. QED
        BY <3>7, <4>1, <4>3, <4>4
    <3>12. f[i + 1].reward = Capped(d, r + s)
      <4>1. f[i + 1].reward = IF total < feeds[d] THEN total ELSE feeds[d]
        BY <2>5, <3>1
      <4>2. PICK b \in Nat : b = feeds[d]
        BY <1>2
      <4>3. total = (IF s < b THEN s ELSE b) + r
        BY <3>6, <3>9, <4>2 DEF Capped
      <4> HIDE DEF total
      <4>4. (IF total < b THEN total ELSE b) = (IF r + s < b THEN r + s ELSE b)
        BY <4>3
      <4>5. QED
        BY <4>1, <4>2, <4>4 DEF Capped
    <3>13. QED
      BY <3>10, <3>11, <3>12
  <2>7. QED
    BY <2>5, <2>6
<1>7. n \in P
  <2> HIDE DEF P
  <2>1. QED
    BY <1>5, <1>6, NatSetInduction
<1>8. FeedRoundKept(d, f[n]) /\ (f[n].ok => SumTo(n) \in Nat /\ f[n].reward = Capped(d, SumTo(n)))
  BY <1>7
<1>9. SumFunction(rewards) = SumTo(n)
  BY <1>4 DEF SumFunction
<1>10. QED
  BY <1>1, <1>3, <1>8, <1>9

-----------------------------------------------------------------------------
(* What was paid for stays paid for: the report is settled, and so are the *)
(* reports before it, whose values decide on it.                           *)
LEMMA PaidForStays ==
    ASSUME ReportsInv, [ReportsNext]_reportsVars, NEW d, IsFeed(d), NEW t, PaidFor(d, t),
           DOMAIN number = QueryId, DOMAIN number[d[1]] = DOMAIN reports[d[1]],
           \A s \in DOMAIN number[d[1]] : s # now => number'[d[1]][s] = number[d[1]][s]
    PROVE  PaidFor(d, t)'
<1>1. PICK q \in QueryId : q = d[1]
  BY FeedTypes
<1>2. /\ t \in Undisputed(q) /\ now - t >= ReportingLock /\ t >= d[2].start_time
      /\ InWindow(d, t) \/ PriceChange(d, t) > d[2].price_threshold
  BY <1>1 DEF PaidFor
<1>3. PICK p \in Nat : p = OrDefault(reports[q][t].previous) /\ p <= t /\ t \in Nat /\ now \in Nat
  BY <1>2, LastBounds
<1>4. /\ now' \in Nat /\ now <= now'
      /\ DOMAIN reports[q] \subseteq DOMAIN reports'[q]
      /\ DOMAIN reports'[q] \subseteq DOMAIN reports[q] \cup {now}
      /\ \A s \in DOMAIN reports[q] : now - s >= ReportingLock => reports'[q][s] = reports[q][s]
  BY SeriesStep
<1>5. ReportsInv'
  BY StepInv
<1>6. t < now /\ p < now /\ now' - t >= ReportingLock
  <2>1. PICK l \in Nat \ {0} : l = ReportingLock
    BY ReportsAssumption
  <2>2. PICK m, k \in Nat : m = now /\ k = now' /\ m <= k
    BY <1>3, <1>4
  <2>3. m - t >= l
    BY <1>2, <2>1, <2>2
  <2>4. t < m /\ p < m /\ k - t >= l
    BY <1>3, <2>2, <2>3
  <2>5. QED
    BY <2>1, <2>2, <2>4
<1>7. reports'[q][t] = reports[q][t] /\ t \in Undisputed(q)'
  BY <1>2, <1>4 DEF Undisputed
<1>8. Before(d, t)' = Before(d, t) /\ Before(d, t) = p
  BY <1>1, <1>3, <1>7 DEF Before
<1>9. ASSUME NEW s \in Nat, s < now, now - s >= ReportingLock PROVE ValueAt(q, s)' = ValueAt(q, s)
  <2>1. values[q] = Undisputed(q) /\ values'[q] = Undisputed(q)'
    BY <1>5 DEF ReportsInv, ValueIffUndisputed
  <2>2. s \in DOMAIN reports'[q] <=> s \in DOMAIN reports[q]
    BY <1>3, <1>4, <1>9
  <2>3. s \in DOMAIN reports[q] => reports'[q][s] = reports[q][s]
    BY <1>4, <1>9
  <2>4. s \in values'[q] <=> s \in values[q]
    BY <2>1, <2>2, <2>3 DEF Undisputed
  <2>5. s \in values[q] => s \in DOMAIN number[q] /\ number'[q][s] = number[q][s]
    BY <1>1, <1>3, <1>9, <2>1 DEF Undisputed
  <2>6. QED
    BY <2>4, <2>5 DEF ValueAt
<1>10. ValueAt(q, t)' = ValueAt(q, t) /\ ValueAt(q, p)' = ValueAt(q, p)
  <2>1. now - p >= ReportingLock
    BY <1>2, <1>3, ReportsAssumption
  <2>2. QED
    BY <1>2, <1>3, <1>6, <1>9, <2>1
<1>11. PriceChange(d, t)' = PriceChange(d, t)
  <2>1. ValueAt(d[1], t)' = ValueAt(d[1], t) /\ ValueAt(d[1], Before(d, t))' = ValueAt(d[1], Before(d, t))
    BY <1>1, <1>8, <1>10 DEF ValueAt
  <2>2. QED
    BY <2>1 DEF PriceChange
<1>12. InWindow(d, t)' <=> InWindow(d, t)
  BY <1>8 DEF InWindow, IntervalStart
<1>13. QED
  BY <1>1, <1>2, <1>6, <1>7, <1>11, <1>12 DEF PaidFor

-----------------------------------------------------------------------------
(* The feeds: listed as funded exactly while they have a balance, and paid *)
(* only for reports that stay rewarded.                                    *)
FeedStore ==
    /\ feeds \in [DOMAIN feeds -> Nat] /\ IsFiniteSet(DOMAIN feeds)
    /\ feedsWithFunding = {d \in DOMAIN feeds : feeds[d] > 0}
    /\ DOMAIN claimed = DOMAIN feeds
    /\ \A d \in DOMAIN feeds : FeedInOrder(d)

(* Every report has the number its value converts to. *)
NumberStore == DOMAIN number = QueryId /\ \A q \in QueryId : DOMAIN number[q] = DOMAIN reports[q]

(* The inductive invariant of one-time tips and data feeds together. *)
FeedsInv ==
    /\ TipsInv
    /\ FeedStore
    /\ NumberStore
    /\ AccountHolds(SumFunction(feeds))

(* Reports come and go without a change of what was paid for. *)
NumbersKept ==
    \A q \in QueryId : \A s \in DOMAIN number[q] : s # now => number'[q][s] = number[q][s]

(* What a step of the store leaves of the feeds it does not touch. *)
LEMMA FeedsUntouched ==
    ASSUME ReportsInv, [ReportsNext]_reportsVars, NumberStore, NumbersKept,
           NEW d, FeedInOrder(d), feeds'[d] \in Nat, claimed'[d] = claimed[d]
    PROVE  FeedInOrder(d)'
<1>1. d[1] \in QueryId /\ IsFeed(d)
  BY FeedTypes DEF FeedInOrder
<1>2. ASSUME NEW t \in DOMAIN claimed[d] PROVE PaidFor(d, t)'
  <2>1. PaidFor(d, t)
    BY DEF FeedInOrder
  <2>2. /\ DOMAIN number = QueryId /\ DOMAIN number[d[1]] = DOMAIN reports[d[1]]
        /\ \A s \in DOMAIN number[d[1]] : s # now => number'[d[1]][s] = number[d[1]][s]
    BY <1>1 DEF NumberStore, NumbersKept
  <2>3. QED
    BY <1>1, <2>1, <2>2, PaidForStays
<1>3. IsFeed(d)'
  BY <1>1 DEF IsFeed
<1>4. claimed'[d] \in [DOMAIN claimed'[d] -> Nat]
  BY DEF FeedInOrder
<1>5. QED
  BY <1>2, <1>3, <1>4 DEF FeedInOrder

(* The same for all feeds. *)
LEMMA FeedStoreKept ==
    ASSUME ReportsInv, [ReportsNext]_reportsVars, NumberStore, NumbersKept, FeedStore,
           feeds' = feeds, feedsWithFunding' = feedsWithFunding, claimed' = claimed
    PROVE  FeedStore'
<1>1. ASSUME NEW d \in DOMAIN feeds PROVE FeedInOrder(d)'
  <2>1. FeedInOrder(d) /\ feeds[d] \in Nat
    BY DEF FeedStore
  <2>2. QED
    BY <2>1, FeedsUntouched
<1>2. QED
  BY <1>1 DEF FeedStore

(* When nothing happens to the reports their numbers stay. *)
LEMMA NumbersStutter ==
    ASSUME TipsInv, NumberStore, UNCHANGED reportsVars, number' = number
    PROVE  ReportsInv /\ [ReportsNext]_reportsVars /\ NumbersKept /\ NumberStore'
<1>1. ReportsInv /\ [ReportsNext]_reportsVars /\ reports' = reports
  BY DEF TipsInv, reportsVars, storeVars
<1>2. QED
  BY <1>1 DEF NumbersKept, NumberStore

(* Submissions, disputes and the clock. *)
LEMMA FeedsReportInv ==
    ASSUME FeedsInv, SubmitNumber \/ OtherReportStep
    PROVE  FeedsInv'
<1>1. TipsInv /\ FeedStore /\ NumberStore /\ AccountHolds(SumFunction(feeds)) /\ ReportsInv /\ ReportsTypeOK
  BY DEF FeedsInv, TipsInv, ReportsInv
<1>2. /\ ReportsNext /\ UNCHANGED tipVars
      /\ feeds' = feeds /\ feedsWithFunding' = feedsWithFunding /\ claimed' = claimed
      /\ NumbersKept /\ NumberStore'
  <2>1. CASE SubmitNumber
    <3>1. PICK a \in Account, q \in QueryId, m \in StakeMultiples, v \in ReportedValues :
             /\ SubmitValue(a, q, m)
             /\ number' = [number EXCEPT ![q] =
                             [t \in DOMAIN number[q] \cup {now} |-> IF t = now THEN v ELSE number[q][t]]]
      BY <2>1 DEF SubmitNumber
    <3>2. /\ UNCHANGED <<now, tipVars>>
          /\ feeds' = feeds /\ feedsWithFunding' = feedsWithFunding /\ claimed' = claimed
      BY <2>1 DEF SubmitNumber
    <3>3. ReportsNext
      BY <3>1, <3>2 DEF ReportsNext, SubmitValueStep
    <3>4. Appended(a, q)
      BY <1>1, <3>1, SubmitEffect
    <3>5. /\ DOMAIN reports'[q] = DOMAIN reports[q] \cup {now}
          /\ \A p \in QueryId \ {q} : reports'[p] = reports[p]
      BY <3>4 DEF Appended
    <3>6. DOMAIN number = QueryId /\ \A p \in QueryId : DOMAIN number[p] = DOMAIN reports[p]
      BY <1>1 DEF NumberStore
    <3>7. /\ DOMAIN number' = QueryId
          /\ number'[q] = [t \in DOMAIN number[q] \cup {now} |-> IF t = now THEN v ELSE number[q][t]]
          /\ \A p \in QueryId \ {q} : number'[p] = number[p]
      BY <3>1, <3>6
    <3>8. NumberStore'
      BY <3>5, <3>6, <3>7 DEF NumberStore
    <3>9. NumbersKept
      BY <3>7 DEF NumbersKept
    <3>10. QED
      BY <3>2, <3>3, <3>8, <3>9
  <2>2. CASE OtherReportStep
    <3>1. /\ RemoveValueStep \/ ClockStep
          /\ UNCHANGED tipVars /\ feeds' = feeds /\ feedsWithFunding' = feedsWithFunding
          /\ claimed' = claimed /\ number' = number
      BY <2>2 DEF OtherReportStep, feedVars
    <3>2. \A p \in QueryId : DOMAIN reports'[p] = DOMAIN reports[p]
      <4>1. CASE RemoveValueStep
        <5>1. PICK q \in QueryId : \E t \in DOMAIN reports[q] : WithinDisputePeriod(t) /\ RemoveValue(q, t)
          BY <4>1 DEF RemoveValueStep
        <5>2. PICK t \in DOMAIN reports[q] : RemoveValue(q, t)
          BY <5>1
        <5>3. PICK stop : Removed(q, t, stop)
          BY <1>1, <5>2, RemoveEffect
        <5>4. /\ reports'[q] = Relinked(q, t, reports[q][t].index + 1, stop)
              /\ \A p \in QueryId \ {q} : reports'[p] = reports[p]
          BY <5>3 DEF Removed
        <5>5. QED
          BY <5>4 DEF Relinked
      <4>2. CASE ClockStep
        BY <4>2 DEF ClockStep, storeVars
      <4>3. QED
        BY <3>1, <4>1, <4>2
    <3>3. NumbersKept /\ NumberStore'
      BY <1>1, <3>1, <3>2 DEF NumbersKept, NumberStore
    <3>4. QED
      BY <3>1, <3>3 DEF ReportsNext
  <2>3. QED
    BY <2>1, <2>2
<1>3. FeedStore'
  BY <1>1, <1>2, FeedStoreKept
<1>4. TipsInv' /\ OwedTips' = OwedTips
  <2>1. /\ tips' = tips /\ paid' = paid /\ funded' = funded /\ userTips' = userTips /\ balance' = balance
        /\ tipsBalance' = tipsBalance /\ stakingBalance' = stakingBalance
    BY <1>2 DEF tipVars
  <2>2. /\ userTips \in [Account -> Nat] /\ balance \in [Account -> Nat]
        /\ tipsBalance \in Nat /\ stakingBalance \in Nat
    BY <1>1 DEF TipsInv, TipsTypeOK
  <2>3. QED
    BY <1>1, <1>2, <2>1, <2>2, OtherInv
<1>5. AccountHolds(SumFunction(feeds))'
  <2>1. tipsBalance' = tipsBalance
    BY <1>2 DEF tipVars
  <2>2. QED
    BY <1>1, <1>2, <1>4, <2>1 DEF AccountHolds
<1>6. QED
  BY <1>2, <1>3, <1>4, <1>5 DEF FeedsInv

(* The sum of the balances of the feeds. *)
LEMMA FeedsSumNat == ASSUME FeedStore PROVE SumFunction(feeds) \in Nat
  BY SumFunctionType DEF FeedStore

(* One-time tips leave the feeds alone. *)
LEMMA FeedsTipInv ==
    ASSUME FeedsInv, OnetimeTipStep
    PROVE  FeedsInv'
<1>1. TipsInv /\ FeedStore /\ NumberStore /\ AccountHolds(SumFunction(feeds))
  BY DEF FeedsInv
<1>2. /\ TipStep \/ ClaimStep
      /\ feeds' = feeds /\ feedsWithFunding' = feedsWithFunding /\ claimed' = claimed /\ number' = number
  BY DEF OnetimeTipStep, feedVars
<1>3. UNCHANGED reportsVars
  BY <1>2 DEF TipStep, ClaimStep, Tip, ClaimOnetimeTip
<1>4. ReportsInv /\ [ReportsNext]_reportsVars /\ NumbersKept /\ NumberStore'
  BY <1>1, <1>2, <1>3, NumbersStutter
<1>5. FeedStore'
  BY <1>1, <1>2, <1>4, FeedStoreKept
<1>6. TipsInv' /\ tipsBalance' = ExistentialDeposit + SumFunction(feeds) + OwedTips'
  BY <1>1, <1>2, FeedsSumNat, TipStepInv
<1>7. AccountHolds(SumFunction(feeds))'
  BY <1>2, <1>6 DEF AccountHolds
<1>8. QED
  BY <1>4, <1>5, <1>6, <1>7 DEF FeedsInv

(* What pays into a feed: the amount reaches the account, and the feed is  *)
(* listed once it has a balance.                                           *)
PaysIn(a, d, amount) ==
    \/ amount > 0 /\ PayIn(a, d, amount)
    \/ amount = 0 /\ UNCHANGED <<balance, tipsBalance, userTips, feedsWithFunding>>

(* Funding a feed, new or not, keeps the invariant. *)
LEMMA FundingInv ==
    ASSUME FeedsInv, NEW a \in Account, NEW d, IsFeed(d), NEW amount \in Nat,
           PaysIn(a, d, amount), feeds' = Funded(d, amount),
           UNCHANGED <<reportsVars, tips, funded, stakingBalance, paid, number>>,
           DOMAIN claimed' = DOMAIN claimed \cup {d},
           \A g \in DOMAIN feeds : claimed'[g] = claimed[g],
           d \notin DOMAIN feeds => claimed'[d] = [t \in {} |-> 0]
    PROVE  FeedsInv'
<1>1. TipsInv /\ FeedStore /\ NumberStore /\ AccountHolds(SumFunction(feeds))
  BY DEF FeedsInv
<1>2. ReportsInv /\ [ReportsNext]_reportsVars /\ NumbersKept /\ NumberStore'
  BY <1>1, NumbersStutter
<1>3. /\ feeds \in [DOMAIN feeds -> Nat] /\ IsFiniteSet(DOMAIN feeds)
      /\ feedsWithFunding = {g \in DOMAIN feeds : feeds[g] > 0}
      /\ DOMAIN claimed = DOMAIN feeds /\ \A g \in DOMAIN feeds : FeedInOrder(g)
  BY <1>1 DEF FeedStore
<1>4. /\ userTips \in [Account -> Nat] /\ balance \in [Account -> Nat]
      /\ tipsBalance \in Nat /\ stakingBalance \in Nat
  BY <1>1 DEF TipsInv, TipsTypeOK
<1>5. PICK old \in Nat : old = IF d \in DOMAIN feeds THEN feeds[d] ELSE 0
  BY <1>3
<1>6. /\ DOMAIN feeds' = DOMAIN feeds \cup {d} /\ feeds'[d] = old + amount
      /\ \A g \in DOMAIN feeds \ {d} : feeds'[g] = feeds[g]
  <2>1. DOMAIN feeds' = DOMAIN feeds \cup {d}
    BY DEF Funded
  <2>2. \A g \in DOMAIN feeds \cup {d} :
           feeds'[g] = (IF g \in DOMAIN feeds THEN feeds[g] ELSE 0) + (IF g = d THEN amount ELSE 0)
    BY DEF Funded
  <2>3. feeds'[d] = old + amount
    BY <1>5, <2>2
  <2>4. \A g \in DOMAIN feeds \ {d} : feeds'[g] = feeds[g] + 0
    BY <2>2
  <2>5. QED
    BY <1>3, <2>1, <2>3, <2>4
<1>7. feeds' \in [DOMAIN feeds' -> Nat] /\ IsFiniteSet(DOMAIN feeds')
  <2>1. feeds' = [g \in DOMAIN feeds' |-> feeds'[g]]
    BY <1>6 DEF Funded
  <2>2. \A g \in DOMAIN feeds' : feeds'[g] \in Nat
    BY <1>3, <1>6
  <2>3. QED
    BY <1>3, <1>6, <2>1, <2>2, FS_AddElement
<1>8. SumFunction(feeds') = SumFunction(feeds) + amount
  <2>1. SumFunction(feeds') = SumFunction(feeds) + feeds'[d] - (IF d \in DOMAIN feeds THEN feeds[d] ELSE 0)
    BY <1>3, <1>6, SumFunctionPut
  <2>2. SumFunction(feeds) \in Nat
    BY <1>1, FeedsSumNat
  <2>3. QED
    BY <1>5, <1>6, <2>1, <2>2
<1>9. /\ tipsBalance' = tipsBalance + amount
      /\ userTips' \in [Account -> Nat] /\ balance' \in [Account -> Nat]
      /\ feedsWithFunding' = IF amount > 0 THEN feedsWithFunding \cup {d} ELSE feedsWithFunding
  <2>1. CASE amount > 0
    <3>1. /\ tipsBalance' = tipsBalance + amount
          /\ balance' = [balance EXCEPT ![a] = Spend(balance[a], amount)]
          /\ userTips' = [userTips EXCEPT ![a] = userTips[a] + amount]
          /\ feedsWithFunding' = feedsWithFunding \cup {d}
      BY <2>1 DEF PaysIn, PayIn
    <3>2. Spend(balance[a], amount) \in Nat
      BY <1>4, SpendNat
    <3>3. balance' \in [Account -> Nat]
      BY <1>4, <3>1, <3>2
    <3>4. QED
      BY <1>4, <2>1, <3>1, <3>3
  <2>2. CASE amount = 0
    BY <1>4, <2>2 DEF PaysIn
  <2>3. QED
    BY <2>1, <2>2
<1>10. TipsInv' /\ OwedTips' = OwedTips
  BY <1>1, <1>2, <1>4, <1>9, OtherInv
<1>11. feedsWithFunding' = {g \in DOMAIN feeds' : feeds'[g] > 0}
  <2>1. CASE amount > 0
    <3>1. feeds'[d] > 0
      BY <1>6, <2>1
    <3>2. QED
      BY <1>3, <1>6, <1>9, <2>1, <3>1
  <2>2. CASE amount = 0
    <3>1. feeds'[d] = old
      BY <1>6, <2>2
    <3>2. QED
      BY <1>3, <1>5, <1>6, <1>9, <2>2, <3>1
  <2>3. QED
    BY <2>1, <2>2
<1>12. ASSUME NEW g \in DOMAIN feeds' PROVE FeedInOrder(g)'
  <2>1. feeds'[g] \in Nat
    BY <1>7
  <2>2. CASE g \in DOMAIN feeds
    BY <1>1, <1>2, <1>3, <2>1, <2>2, FeedsUntouched
  <2>3. CASE g \notin DOMAIN feeds
    <3>1. g = d /\ claimed'[g] = [t \in {} |-> 0]
      BY <1>6, <2>3
    <3>2. IsFeed(g)' /\ DOMAIN claimed'[g] = {}
      BY <3>1 DEF IsFeed
    <3>3. claimed'[g] \in [DOMAIN claimed'[g] -> Nat]
      BY <3>1
    <3>4. QED
      BY <2>1, <3>2, <3>3 DEF FeedInOrder
  <2>4. QED
    BY <2>2, <2>3
<1>13. FeedStore'
  BY <1>3, <1>6, <1>7, <1>11, <1>12 DEF FeedStore
<1>14. AccountHolds(SumFunction(feeds))'
  <2>1. SumFunction(feeds) \in Nat /\ OwedTips \in Nat /\ ExistentialDeposit \in Nat
    BY <1>1, FeedsSumNat, UnpaidNat, TipsAssumption
  <2>2. tipsBalance = ExistentialDeposit + SumFunction(feeds) + OwedTips
    BY <1>1 DEF AccountHolds
  <2>3. tipsBalance' = ExistentialDeposit + (SumFunction(feeds) + amount) + OwedTips
    BY <1>9, <2>1, <2>2
  <2>4. QED
    BY <1>8, <1>10, <2>3 DEF AccountHolds
<1>15. QED
  BY <1>2, <1>10, <1>13, <1>14 DEF FeedsInv

(* setup_data_feed and fund_feed. *)
LEMMA FeedsFundInv ==
    ASSUME FeedsInv, SetupStep \/ FundStep
    PROVE  FeedsInv'
<1>1. /\ feeds \in [DOMAIN feeds -> Nat] /\ DOMAIN claimed = DOMAIN feeds
      /\ \A g \in DOMAIN feeds : IsFeed(g)
  BY DEF FeedsInv, FeedStore, FeedInOrder
<1>2. CASE SetupStep
  <2>1. PICK a \in Account, d \in FeedId, amount \in FundAmounts : SetupDataFeed(a, d, amount)
    BY <1>2 DEF SetupStep
  <2>2. amount \in Nat
    BY FeedsAssumption
  <2>3. /\ d \notin DOMAIN feeds /\ d[2].interval > 0 /\ feeds' = Funded(d, amount)
        /\ claimed' = [g \in DOMAIN claimed \cup {d} |-> IF g = d THEN [t \in {} |-> 0] ELSE claimed[g]]
        /\ IF amount > 0 THEN PayIn(a, d, amount)
           ELSE UNCHANGED <<balance, tipsBalance, userTips, feedsWithFunding>>
        /\ UNCHANGED <<reportsVars, tips, funded, stakingBalance, paid, number>>
    BY <2>1 DEF SetupDataFeed
  <2>4. PaysIn(a, d, amount) /\ IsFeed(d)
    BY <2>2, <2>3 DEF PaysIn, IsFeed
  <2>5. /\ DOMAIN claimed' = DOMAIN claimed \cup {d} /\ claimed'[d] = [t \in {} |-> 0]
        /\ \A g \in DOMAIN feeds : claimed'[g] = claimed[g]
    BY <1>1, <2>3
  <2>6. QED
    BY <2>2, <2>3, <2>4, <2>5, FundingInv
<1>3. CASE FundStep
  <2>1. PICK a \in Account, d \in DOMAIN feeds, amount \in FundAmounts : FundFeed(a, d, amount)
    BY <1>3 DEF FundStep
  <2>2. amount \in Nat
    BY FeedsAssumption
  <2>3. /\ amount > 0 /\ feeds' = Funded(d, amount) /\ PayIn(a, d, amount) /\ claimed' = claimed
        /\ UNCHANGED <<reportsVars, tips, funded, stakingBalance, paid, number>>
    BY <2>1 DEF FundFeed
  <2>4. PaysIn(a, d, amount) /\ IsFeed(d) /\ DOMAIN claimed' = DOMAIN claimed \cup {d}
    BY <1>1, <2>3 DEF PaysIn
  <2>5. QED
    BY <2>2, <2>3, <2>4, FundingInv
<1>4. QED
  BY <1>2, <1>3

(* claim_tip: the feed pays what it loses, and the account keeps all that  *)
(* it holds for others.                                                    *)
LEMMA FeedsClaimInv ==
    ASSUME FeedsInv, ClaimFeedStep
    PROVE  FeedsInv'
<1>1. TipsInv /\ FeedStore /\ NumberStore /\ AccountHolds(SumFunction(feeds)) /\ ReportsInv
  BY DEF FeedsInv, TipsInv
<1>2. PICK a \in Account, d \in DOMAIN feeds, n \in 0..MaxClaimTimestamps :
         \E batch \in [1..n -> DOMAIN reports[d[1]]] : ClaimTip(a, d, batch)
  BY DEF ClaimFeedStep
<1>3. PICK batch \in [1..n -> DOMAIN reports[d[1]]] : ClaimTip(a, d, batch)
  BY <1>2
<1>4. n \in Nat /\ DOMAIN batch = 1..n
  BY TipsAssumption
<1>5. Len(batch) = n
  BY <1>4, BatchLen
<1>6. PICK result : result = ClaimFeedBatch(a, d, batch)
  OBVIOUS
<1>7. PICK reward, fee : reward = result.reward /\ fee = FeeOf(reward)
  OBVIOUS
<1>8. /\ feeds[d] > 0
      /\ tipsBalance' = Spend(tipsBalance - (reward - fee), fee)
      /\ stakingBalance' = stakingBalance + fee
      /\ balance' = [balance EXCEPT ![a] = balance[a] + reward - fee]
      /\ feeds' = [feeds EXCEPT ![d] = feeds[d] - reward]
      /\ claimed' = [claimed EXCEPT ![d] = result.claimed]
      /\ feedsWithFunding' = IF result.exhausted THEN feedsWithFunding \ {d} ELSE feedsWithFunding
      /\ UNCHANGED reportsVars /\ tips' = tips /\ funded' = funded /\ userTips' = userTips
      /\ paid' = paid /\ number' = number
  BY <1>3, <1>6, <1>7 DEF ClaimTip, Reduced
<1>9. /\ feeds \in [DOMAIN feeds -> Nat] /\ IsFiniteSet(DOMAIN feeds)
      /\ feedsWithFunding = {g \in DOMAIN feeds : feeds[g] > 0}
      /\ DOMAIN claimed = DOMAIN feeds /\ \A g \in DOMAIN feeds : FeedInOrder(g)
  BY <1>1 DEF FeedStore
<1>10. /\ userTips \in [Account -> Nat] /\ balance \in [Account -> Nat]
       /\ tipsBalance \in Nat /\ stakingBalance \in Nat
  BY <1>1 DEF TipsInv, TipsTypeOK
<1>11. FeedRoundOf(d, result.claimed, reward, result.exhausted)
  <2>1. feeds[d] # 0
    BY <1>8, <1>9
  <2>2. FeedRoundKept(d, ClaimFeedBatch(a, d, batch))
    BY <1>1, <1>4, <1>5, <1>9, <2>1, FeedBatch
  <2>3. QED
    BY <1>6, <1>7, <2>2 DEF FeedRoundKept
<1>12. /\ reward \in Nat /\ reward <= feeds[d] /\ (result.exhausted <=> reward = feeds[d])
       /\ result.claimed \in [DOMAIN result.claimed -> Nat]
       /\ \A t \in DOMAIN result.claimed : PaidFor(d, t)
  BY <1>11 DEF FeedRoundOf
<1>13. fee \in Nat /\ fee <= reward
  BY <1>7, <1>12, FeePart DEF FeeOf
<1>14. ReportsInv /\ [ReportsNext]_reportsVars /\ NumbersKept /\ NumberStore'
  BY <1>1, <1>8, NumbersStutter
<1>15. PICK left \in Nat : left = feeds[d] - reward
  BY <1>9, <1>12
<1>16. /\ DOMAIN feeds' = DOMAIN feeds /\ feeds' \in [DOMAIN feeds -> Nat] /\ feeds'[d] = left
       /\ \A g \in DOMAIN feeds \ {d} : feeds'[g] = feeds[g]
       /\ DOMAIN claimed' = DOMAIN feeds /\ claimed'[d] = result.claimed
       /\ \A g \in DOMAIN feeds \ {d} : claimed'[g] = claimed[g]
  BY <1>8, <1>9, <1>15
<1>17. SumFunction(feeds) \in Nat /\ SumFunction(feeds') = SumFunction(feeds) - reward
  <2>1. SumFunction(feeds) \in Nat
    BY <1>1, FeedsSumNat
  <2>2. DOMAIN feeds' = DOMAIN feeds \cup {d}
    BY <1>16
  <2>3. SumFunction(feeds') = SumFunction(feeds) + feeds'[d] - (IF d \in DOMAIN feeds THEN feeds[d] ELSE 0)
    BY <1>9, <1>16, <2>2, SumFunctionPut
  <2>4. QED
    BY <1>9, <1>12, <1>15, <1>16, <2>1, <2>3
<1>18. OwedTips \in Nat /\ ExistentialDeposit \in Nat
  BY <1>1, UnpaidNat, TipsAssumption
<1>19. tipsBalance = ExistentialDeposit + SumFunction(feeds) + OwedTips
  BY <1>1 DEF AccountHolds
<1>20. tipsBalance' = tipsBalance - reward
  <2>1. feeds[d] <= SumFunction(feeds) /\ feeds[d] \in Nat
    BY <1>9, SumFunctionCovers
  <2>2. tipsBalance >= ExistentialDeposit + reward
    BY <1>12, <1>17, <1>18, <1>19, <2>1
  <2>3. QED
    BY <1>8, <1>10, <1>12, <1>13, <2>2, PaysReward
<1>21. TipsInv' /\ OwedTips' = OwedTips
  <2>1. tipsBalance' \in Nat
    <3>1. tipsBalance - (reward - fee) \in Int
      BY <1>10, <1>12, <1>13
    <3>2. QED
      BY <1>8, <1>13, <3>1, SpendNat
  <2>2. balance' \in [Account -> Nat] /\ stakingBalance' \in Nat /\ userTips' \in [Account -> Nat]
    <3>1. balance[a] + reward - fee \in Nat
      BY <1>10, <1>12, <1>13
    <3>2. QED
      BY <1>8, <1>10, <1>13, <3>1
  <2>3. QED
    BY <1>1, <1>8, <1>14, <2>1, <2>2, OtherInv
<1>22. feedsWithFunding' = {g \in DOMAIN feeds' : feeds'[g] > 0}
  <2>1. feeds'[d] > 0 <=> ~result.exhausted
    BY <1>9, <1>12, <1>15, <1>16
  <2>2. d \in feedsWithFunding
    BY <1>8, <1>9
  <2>3. QED
    BY <1>8, <1>9, <1>16, <2>1, <2>2
<1>23. ASSUME NEW g \in DOMAIN feeds PROVE FeedInOrder(g)'
  <2>1. feeds'[g] \in Nat /\ FeedInOrder(g)
    BY <1>9, <1>16
  <2>2. CASE g # d
    BY <1>14, <1>1, <1>16, <2>1, <2>2, FeedsUntouched
  <2>3. CASE g = d
    <3>1. IsFeed(d) /\ d[1] \in QueryId
      BY <2>1, <2>3, FeedTypes DEF FeedInOrder
    <3>2. /\ DOMAIN number = QueryId /\ DOMAIN number[d[1]] = DOMAIN reports[d[1]]
          /\ \A s \in DOMAIN number[d[1]] : s # now => number'[d[1]][s] = number[d[1]][s]
      BY <1>1, <1>14, <3>1 DEF NumberStore, NumbersKept
    <3>3. ASSUME NEW t \in DOMAIN claimed'[d] PROVE PaidFor(d, t)'
      BY <1>12, <1>14, <1>16, <3>1, <3>2, PaidForStays
    <3>4. IsFeed(d)' /\ claimed'[d] \in [DOMAIN claimed'[d] -> Nat]
      BY <1>12, <1>16, <3>1 DEF IsFeed
    <3>5. QED
      BY <2>1, <2>3, <3>3, <3>4 DEF FeedInOrder
  <2>4. QED
    BY <2>2, <2>3
<1>24. FeedStore'
  BY <1>9, <1>16, <1>22, <1>23 DEF FeedStore
<1>25. AccountHolds(SumFunction(feeds))'
  <2>1. tipsBalance' = ExistentialDeposit + (SumFunction(feeds) - reward) + OwedTips
    BY <1>12, <1>17, <1>18, <1>19, <1>20
  <2>2. QED
    BY <1>17, <1>21, <2>1 DEF AccountHolds
<1>26. QED
  BY <1>14, <1>21, <1>24, <1>25 DEF FeedsInv

(* The invariant holds in every reachable state. *)
LEMMA FeedsInvariant == FeedsSpec => []FeedsInv
<1>1. FeedsInit => FeedsInv
  <2> SUFFICES ASSUME FeedsInit PROVE FeedsInv
    OBVIOUS
  <2>1. /\ TipsInit /\ feeds = [f \in {} |-> 0] /\ feedsWithFunding = {}
        /\ claimed = [f \in {} |-> <<>>] /\ number = [q \in QueryId |-> [t \in {} |-> 0]]
    BY DEF FeedsInit
  <2>2. TipsInv /\ OwedTips = 0
    BY <2>1, InitTips
  <2>3. DOMAIN feeds = {} /\ DOMAIN claimed = {} /\ IsFiniteSet(DOMAIN feeds)
    BY <2>1, FS_EmptySet
  <2>4. FeedStore
    BY <2>1, <2>3 DEF FeedStore
  <2>5. NumberStore
    <3>1. \A q \in QueryId : DOMAIN reports[q] = {}
      BY <2>1 DEF TipsInit, ReportsInit
    <3>2. QED
      BY <2>1, <3>1 DEF NumberStore
  <2>6. SumFunction(feeds) = 0
    BY <2>3, SumFunctionEmpty
  <2>7. tipsBalance = ExistentialDeposit /\ ExistentialDeposit \in Nat
    BY <2>1, TipsAssumption DEF TipsInit
  <2>8. QED
    BY <2>2, <2>4, <2>5, <2>6, <2>7 DEF FeedsInv, AccountHolds
<1>2. FeedsInv /\ [FeedsNext]_autopayVars => FeedsInv'
  <2> SUFFICES ASSUME FeedsInv, [FeedsNext]_autopayVars PROVE FeedsInv'
    OBVIOUS
  <2>1. CASE SubmitNumber \/ OtherReportStep
    BY <2>1, FeedsReportInv
  <2>2. CASE OnetimeTipStep
    BY <2>2, FeedsTipInv
  <2>3. CASE SetupStep \/ FundStep
    BY <2>3, FeedsFundInv
  <2>4. CASE ClaimFeedStep
    BY <2>4, FeedsClaimInv
  <2>5. CASE UNCHANGED autopayVars
    <3>1. /\ UNCHANGED reportsVars /\ UNCHANGED tipVars /\ feeds' = feeds
          /\ feedsWithFunding' = feedsWithFunding /\ claimed' = claimed /\ number' = number
      BY <2>5 DEF autopayVars, vars, feedVars
    <3>2. TipsInv /\ FeedStore /\ NumberStore /\ AccountHolds(SumFunction(feeds))
      BY DEF FeedsInv
    <3>3. ReportsInv /\ [ReportsNext]_reportsVars /\ NumbersKept /\ NumberStore'
      BY <3>1, <3>2, NumbersStutter
    <3>4. FeedStore'
      BY <3>1, <3>2, <3>3, FeedStoreKept
    <3>5. /\ tips' = tips /\ paid' = paid /\ funded' = funded /\ userTips' = userTips
          /\ balance' = balance /\ tipsBalance' = tipsBalance /\ stakingBalance' = stakingBalance
      BY <3>1 DEF tipVars
    <3>6. TipsInv' /\ OwedTips' = OwedTips
      BY <3>2, <3>3, <3>5, OtherInv DEF TipsInv, TipsTypeOK
    <3>7. QED
      BY <3>1, <3>2, <3>3, <3>4, <3>5, <3>6 DEF FeedsInv, AccountHolds
  <2>6. QED
    BY <2>1, <2>2, <2>3, <2>4, <2>5 DEF FeedsNext
<1>3. QED
  BY <1>1, <1>2, PTL DEF FeedsSpec

-----------------------------------------------------------------------------
(* Every stored item of autopay has its type. *)
THEOREM FeedsTypeCorrect == FeedsSpec => []FeedsTypeOK
<1>1. FeedsInv => FeedsTypeOK
  <2> SUFFICES ASSUME FeedsInv PROVE FeedsTypeOK
    OBVIOUS
  <2>1. TipsTypeOK /\ FeedStore /\ NumberStore
    BY DEF FeedsInv, TipsInv
  <2>2. \A d \in DOMAIN feeds : d \in FeedId /\ claimed[d] \in [DOMAIN claimed[d] -> Nat]
    BY <2>1 DEF FeedStore, FeedInOrder, IsFeed
  <2>3. QED
    BY <2>1, <2>2 DEF FeedsTypeOK, FeedStore, NumberStore
<1>2. QED
  BY <1>1, FeedsInvariant, PTL

(* FeedsWithFunding lists exactly the feeds with a balance. *)
THEOREM FeedsFundedCorrect == FeedsSpec => []FeedFundedIffBalance
<1>1. FeedsInv => FeedFundedIffBalance
  BY DEF FeedsInv, FeedStore, FeedFundedIffBalance
<1>2. QED
  BY <1>1, FeedsInvariant, PTL

(* The account that feeds and one-time tips share holds exactly what each  *)
(* of them is owed, and its endowment.                                     *)
THEOREM AccountCoversAll == FeedsSpec => []TipsAccountCoversAll
<1>1. FeedsInv => TipsAccountCoversAll
  <2> SUFFICES ASSUME FeedsInv PROVE TipsAccountCoversAll
    OBVIOUS
  <2> DEFINE Given1(q) == IF tips[q] = <<>> THEN 0 ELSE Last(tips[q]).cumulative_tips
             Paid1(q) == SumFunction([t \in DOMAIN paid[q] |-> paid[q][t]])
  <2>1. TipsTypeOK /\ FeedStore /\ AccountHolds(SumFunction(feeds))
    BY DEF FeedsInv, TipsInv
  <2>2. ASSUME NEW q \in QueryId PROVE Given1(q) - Paid1(q) = Unpaid(q)
    <3>1. tips[q] \in Seq(TipRecord) /\ paid[q] \in [DOMAIN paid[q] -> Nat]
      BY <2>1 DEF TipsTypeOK
    <3>2. [t \in DOMAIN paid[q] |-> paid[q][t]] = paid[q]
      BY <3>1
    <3>3. tips[q] = <<>> <=> Len(tips[q]) = 0
      BY <3>1, EmptySeq
    <3>4. QED
      BY <3>2, <3>3 DEF Unpaid, CumulativeOf, Last
  <2>3. [q \in QueryId |-> Given1(q) - Paid1(q)] = [q \in QueryId |-> Unpaid(q)]
    BY <2>2
  <2>4. [f \in DOMAIN feeds |-> feeds[f]] = feeds
    BY <2>1 DEF FeedStore
  <2>5. tipsBalance = ExistentialDeposit + SumFunction([f \in DOMAIN feeds |-> feeds[f]])
                      + SumFunction([q \in QueryId |-> Given1(q) - Paid1(q)])
    BY <2>1, <2>3, <2>4 DEF AccountHolds, OwedTips
  <2>6. QED
    BY <2>5 DEF TipsAccountCoversAll, SumOver
<1>2. QED
  BY <1>1, FeedsInvariant, PTL

(* Of two reports a feed paid in one interval the later was paid for its   *)
(* change of price.                                                        *)
THEOREM OnePaid == FeedsSpec => []OnePaidPerWindow
<1>1. FeedsInv => OnePaidPerWindow
  <2> SUFFICES ASSUME FeedsInv, NEW d \in DOMAIN feeds, NEW t1 \in DOMAIN claimed[d],
                      NEW t2 \in DOMAIN claimed[d], t1 < t2,
                      IntervalStart(d, t1) = IntervalStart(d, t2)
               PROVE  PriceChange(d, t2) > d[2].price_threshold
    BY DEF OnePaidPerWindow
  <2>1. ReportsInv /\ FeedInOrder(d)
    BY DEF FeedsInv, TipsInv, FeedStore
  <2>2. IsFeed(d) /\ PaidFor(d, t1) /\ PaidFor(d, t2)
    BY <2>1 DEF FeedInOrder
  <2>3. PICK q \in QueryId : q = d[1]
    BY <2>2, FeedTypes
  <2>4. t1 \in Undisputed(q) /\ t2 \in Undisputed(q) /\ t1 >= d[2].start_time
    BY <2>2, <2>3 DEF PaidFor
  <2>5. PICK p \in Nat : p = OrDefault(reports[q][t2].previous)
    BY <2>1, <2>4, LastBounds
  <2>6. t1 <= p /\ t1 \in Nat
    BY <2>1, <2>4, <2>5, PreviousCovers, LastBounds
  <2>7. IntervalStart(d, t1) \in Nat /\ IntervalStart(d, t1) <= t1
    BY <2>2, <2>4, <2>6, IntervalBounds
  <2>8. ~InWindow(d, t2)
    <3>1. ~(p < IntervalStart(d, t2))
      BY <2>5, <2>6, <2>7
    <3>2. QED
      BY <2>3, <2>5, <3>1 DEF InWindow, Before
  <2>9. QED
    BY <2>2, <2>8 DEF PaidFor
<1>2. QED
  BY <1>1, FeedsInvariant, PTL

(* claim_tip pays what get_reward_amount quotes. *)
THEOREM QuoteIsPaid == FeedsSpec => []QuotedRewardIsPaid
<1>1. FeedsInv => QuotedRewardIsPaid
  <2> SUFFICES ASSUME FeedsInv, NEW d \in DOMAIN feeds, NEW a \in Account,
                      NEW n \in 1..MaxClaimTimestamps,
                      NEW batch \in [1..n -> DOMAIN reports[d[1]]],
                      feeds[d] > 0, ClaimFeedBatch(a, d, batch).ok
               PROVE  GetRewardAmount(d, batch)
                        = ClaimFeedBatch(a, d, batch).reward - FeeOf(ClaimFeedBatch(a, d, batch).reward)
    BY DEF QuotedRewardIsPaid
  <2>1. ReportsInv /\ FeedInOrder(d)
    BY DEF FeedsInv, TipsInv, FeedStore
  <2>2. n \in Nat /\ DOMAIN batch = 1..n
    BY TipsAssumption
  <2>3. Len(batch) = n
    BY <2>2, BatchLen
  <2>4. PICK b \in Nat \ {0} : b = feeds[d]
    BY <2>1 DEF FeedInOrder
  <2>5. PICK sum \in Nat : /\ sum = SumFunction(RewardsOf(d, batch))
                           /\ ClaimFeedBatch(a, d, batch).reward = Capped(d, sum)
    BY <2>1, <2>2, <2>3, <2>4, FeedBatch
  <2>6. FoldFunction(+, 0, RewardsOf(d, batch)) = sum
    BY <2>5 DEF FoldFunction, SumFunction, SumFunctionOnSet
  <2>7. PICK r \in Nat : r = Capped(d, sum) /\ r = IF sum > feeds[d] THEN feeds[d] ELSE sum
    BY <2>4 DEF Capped
  <2>8. GetRewardAmount(d, batch) = r - FeeOf(r)
    BY <2>6, <2>7, Zenon DEF GetRewardAmount, RewardsOf
  <2>9. QED
    BY <2>5, <2>7, <2>8
<1>2. QED
  BY <1>1, FeedsInvariant, PTL
=============================================================================
