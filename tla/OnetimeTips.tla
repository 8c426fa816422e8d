----------------------------- MODULE OnetimeTips -----------------------------
(***************************************************************************)
(* One-time tips: anyone tips a query identifier, and the reporter of the  *)
(* first undisputed report after a tip may claim it once the report can no *)
(* longer be disputed.  Because a dispute hands the tips of the disputed   *)
(* report to the next one, a claim pays every tip since the previous       *)
(* undisputed report, found by binary search over the cumulative tips.     *)
(*                                                                         *)
(* Of do_add_staking_rewards only the transfer is modelled here; the       *)
(* reward rate it recomputes belongs to staking.                           *)
(***************************************************************************)
EXTENDS Reports, Sequences, SequencesExt

CONSTANTS
    ClaimBuffer,         \* 12 * HOURS: how long a claim waits
    TipAmounts,          \* amounts explored for a tip
    Fee,                 \* Config::Fee, in thousandths
    MaxClaimTimestamps,  \* Config::MaxClaimTimestamps
    ExistentialDeposit,  \* Asset::minimum_balance()
    InitialBalance,      \* balance of each account at the start
    MaxTipped            \* bound: the total an account may tip

ASSUME TipsAssumption ==
    /\ IsFiniteSet(QueryId)  \* identifiers are 32-byte hashes
    /\ ClaimBuffer \in Nat /\ ClaimBuffer >= ReportingLock
    /\ TipAmounts \subseteq Nat \ {0}
    /\ Fee \in 0..1000
    /\ MaxClaimTimestamps \in Nat
    /\ ExistentialDeposit \in Nat
    /\ InitialBalance \in Nat
    /\ MaxTipped \in Nat

VARIABLES
    tips,            \* Tips and TipCount: the sequence of a query's tips
    funded,          \* QueryIdsWithFunding
    userTips,        \* UserTipsTotal
    balance,         \* free balance of each account
    tipsBalance,     \* balance of the tips sub-account
    stakingBalance,  \* balance of the staking rewards sub-account
    paid             \* history: what was paid for each claimed report

tipVars == <<tips, funded, userTips, balance, tipsBalance, stakingBalance, paid>>
vars == <<reportsVars, tipVars>>

TipRecord == [amount : Nat, timestamp : Timestamp, cumulative_tips : Nat]

OrDefault(t) == IF t = None THEN 0 ELSE t

-----------------------------------------------------------------------------
(* The pallet after `register` has endowed its sub-accounts. *)
TipsInit ==
    /\ ReportsInit
    /\ tips = [q \in QueryId |-> <<>>]
    /\ funded = {}
    /\ userTips = [a \in Account |-> 0]
    /\ balance = [a \in Account |-> InitialBalance]
    /\ tipsBalance = ExistentialDeposit
    /\ stakingBalance = ExistentialDeposit
    /\ paid = [q \in QueryId |-> [t \in {} |-> 0]]

(* get_current_tip, for the tips ts of q: what the next report would earn. *)
CurrentTip(q, ts) ==
    IF ts # <<>> /\ OrDefault(lastReported[q]) < Last(ts).timestamp THEN Last(ts).amount ELSE 0

(* Variant: a tip is always added to the last one. *)
WithTipMerged(q, amount) ==
    LET ts == tips[q]
    IN IF ts = <<>>
       THEN <<[amount |-> amount, timestamp |-> now + 1, cumulative_tips |-> amount]>>
       ELSE Append(Front(ts), [amount |-> Last(ts).amount + amount, timestamp |-> now + 1,
                               cumulative_tips |-> Last(ts).cumulative_tips + amount])

(* The tips of q with another one: added to the last tip while no report   *)
(* has earned it, which also moves that tip to the present.                *)
WithTip(q, amount) ==
    LET ts == tips[q]
        cumulative == IF ts = <<>> THEN 0 ELSE Last(ts).cumulative_tips
        merges == ts # <<>> /\ OrDefault(lastReported[q]) < Last(ts).timestamp
        tip == [amount |-> IF merges THEN Last(ts).amount + amount ELSE amount,
                timestamp |-> now + 1,
                cumulative_tips |-> cumulative + amount]
    IN IF merges THEN Append(Front(ts), tip) ELSE Append(ts, tip)

(* A transfer that may empty the account; a remainder below the            *)
(* existential deposit is lost.                                            *)
Spend(b, amount) == IF b - amount < ExistentialDeposit THEN 0 ELSE b - amount

(* tip *)
Tip(a, q, amount) ==
    /\ userTips[a] + amount <= MaxTipped
    /\ tips' = [tips EXCEPT ![q] = WithTip(q, amount)]
    /\ funded' = IF CurrentTip(q, WithTip(q, amount)) > 0 THEN funded \cup {q} ELSE funded
    /\ amount <= balance[a]
    /\ balance' = [balance EXCEPT ![a] = Spend(@, amount)]
    /\ tipsBalance' = tipsBalance + amount
    /\ userTips' = [userTips EXCEPT ![a] = @ + amount]
    /\ UNCHANGED <<reportsVars, stakingBalance, paid>>

(* Variant: a tip stamped exactly t is not found. *)
TipSearchBefore(ts, t, lo, hi) ==
    LET search[range \in Nat \X Nat] ==
          LET min == range[1]
              max == range[2]
              mid == (max + min) \div 2
          IN IF max - min <= 1 THEN min
             ELSE IF ts[mid + 1].timestamp >= t THEN search[<<min, mid>>]
             ELSE search[<<mid, max>>]
    IN search[<<lo, hi>>]

(* The binary search of get_onetime_tip_amount: the last index (from 0)    *)
(* in lo..hi-1 of a tip no later than t, or lo.                            *)
TipSearch(ts, t, lo, hi) ==
    LET search[range \in Nat \X Nat] ==
          LET min == range[1]
              max == range[2]
              mid == (max + min) \div 2
          IN IF max - min <= 1 THEN min
             ELSE IF ts[mid + 1].timestamp > t THEN search[<<min, mid>>]
             ELSE search[<<mid, max>>]
    IN search[<<lo, hi>>]

(* The index of the tip that the report at t earned itself. *)
EarnedTip(ts, t) == TipSearch(ts, t, 0, Len(ts))

(* The checks of get_onetime_tip_amount. *)
MayClaim(a, q, ts, t) ==
    /\ t <= now /\ now - t > ClaimBuffer
    /\ t \in DOMAIN reports[q]
    /\ ~reports[q][t].is_disputed
    /\ reports[q][t].reporter = a
    /\ ts # <<>>
    /\ LET tip == ts[EarnedTip(ts, t) + 1]
       IN /\ OrDefault(reports[q][t].previous) < tip.timestamp
          /\ t >= tip.timestamp
          /\ tip.amount > 0

(* Variant: the tips of all times are granted. *)
TipAmountCumulative(q, ts, t) == ts[EarnedTip(ts, t) + 1].cumulative_tips

(* What get_onetime_tip_amount grants: the tip earned and, when disputed   *)
(* reports lie between, the tips they would have earned.                   *)
TipAmount(q, ts, t) ==
    LET report == reports[q][t]
        earned == EarnedTip(ts, t)
        first == TipSearch(ts, report.previous, 0, earned) + 1
    IN IF report.previous = None THEN ts[earned + 1].cumulative_tips
       ELSE IF /\ report.index - reports[q][report.previous].index > 1
               /\ first < earned
       THEN ts[earned + 1].cumulative_tips - ts[first + 1].cumulative_tips + ts[first + 1].amount
       ELSE ts[earned + 1].amount

(* Variant: the tip is not marked. *)
ClaimedKept(ts, t) == ts

(* The tip the report at t earned is marked as claimed. *)
Claimed(ts, t) == [ts EXCEPT ![EarnedTip(ts, t) + 1].amount = 0]

(* The loop of claim_onetime_tip over a batch of timestamps: whether all   *)
(* may be claimed, the tips left behind and what was granted.              *)
ClaimBatch(a, q, batch) ==
    LET claim[i \in 0..Len(batch)] ==
          IF i = 0 THEN [ok |-> TRUE, tips |-> tips[q], paid |-> paid[q], reward |-> 0]
          ELSE LET before == claim[i - 1]
                   t == batch[i]
                   amount == TipAmount(q, before.tips, t)
                   already == IF t \in DOMAIN before.paid THEN before.paid[t] ELSE 0
               IN IF before.ok /\ MayClaim(a, q, before.tips, t)
                  THEN [ok |-> TRUE,
                        tips |-> Claimed(before.tips, t),
                        paid |-> [s \in DOMAIN before.paid \cup {t} |->
                                    IF s = t THEN already + amount ELSE before.paid[s]],
                        reward |-> before.reward + amount]
                  ELSE [before EXCEPT !.ok = FALSE]
    IN claim[Len(batch)]

(* claim_onetime_tip *)
ClaimOnetimeTip(a, q, batch) ==
    LET result == ClaimBatch(a, q, batch)
        fee == (result.reward * Fee) \div 1000
    IN /\ tips[q] # <<>>
       /\ result.ok
       /\ tipsBalance - (result.reward - fee) >= ExistentialDeposit
       /\ tipsBalance >= result.reward
       /\ tipsBalance' = Spend(tipsBalance - (result.reward - fee), fee)
       /\ stakingBalance' = stakingBalance + fee
       /\ balance' = [balance EXCEPT ![a] = @ + result.reward - fee]
       /\ tips' = [tips EXCEPT ![q] = result.tips]
       /\ paid' = [paid EXCEPT ![q] = result.paid]
       /\ funded' = IF CurrentTip(q, result.tips) = 0 THEN funded \ {q} ELSE funded
       /\ UNCHANGED <<reportsVars, userTips>>

-----------------------------------------------------------------------------
TipStep == \E a \in Account, q \in QueryId, amount \in TipAmounts : Tip(a, q, amount)

ClaimStep ==
    \E a \in Account, q \in QueryId, n \in 0..MaxClaimTimestamps :
        \E batch \in [1..n -> DOMAIN reports[q]] : ClaimOnetimeTip(a, q, batch)

ReportStep == ReportsNext /\ UNCHANGED tipVars

TipsNext == TipStep \/ ClaimStep \/ ReportStep

TipsSpec == TipsInit /\ [][TipsNext]_vars

-----------------------------------------------------------------------------
(* Every stored item has its type. *)
TipsTypeOK ==
    /\ ReportsTypeOK
    /\ tips \in [QueryId -> Seq(TipRecord)]
    /\ funded \subseteq QueryId
    /\ userTips \in [Account -> Nat]
    /\ balance \in [Account -> Nat]
    /\ tipsBalance \in Nat
    /\ stakingBalance \in Nat
    /\ DOMAIN paid = QueryId
    /\ \A q \in QueryId : paid[q] \in [DOMAIN paid[q] -> Nat]

(* The amount given as the i-th tip of q (later claims do not change it). *)
Given(q, i) == tips[q][i].cumulative_tips - (IF i = 1 THEN 0 ELSE tips[q][i - 1].cumulative_tips)

(* The tips given to q and stamped later than `from`, up to `to`. *)
GivenBetween(q, from, to) ==
    LET last(t) == {i \in 1..Len(tips[q]) : tips[q][i].timestamp <= t}
        total(t) == IF last(t) = {} THEN 0
                    ELSE LET i == CHOOSE i \in last(t) : \A j \in last(t) : j <= i
                         IN tips[q][i].cumulative_tips
    IN total(to) - total(from)

(* What the report at t is due: all tips since the previous undisputed     *)
(* report.                                                                 *)
Entitlement(q, t) == GivenBetween(q, OrDefault(reports[q][t].previous), t)

(* The tips of a query stay in the order of time, and each still holds     *)
(* either all that was given or nothing, and nothing only when the report  *)
(* that earned it is settled and paid: merging a new tip into the last one *)
(* after a dispute never revives a claimed tip.                            *)
TipSeriesConsistent ==
    \A q \in QueryId : \A i \in 1..Len(tips[q]) :
        /\ i > 1 => tips[q][i - 1].timestamp < tips[q][i].timestamp
        /\ Given(q, i) > 0
        /\ tips[q][i].amount \in {0, Given(q, i)}
        /\ tips[q][i].amount = 0 =>
              \E t \in DOMAIN paid[q] : /\ tips[q][i].timestamp <= t
                                       /\ OrDefault(reports[q][t].previous) < tips[q][i].timestamp

(* No claim is paid more than the tips since the previous undisputed       *)
(* report, whatever was disputed around it and in whatever order and       *)
(* batches claims are made.                                                *)
PaidWithinEntitlement ==
    \A q \in QueryId : \A t \in DOMAIN paid[q] : paid[q][t] <= Entitlement(q, t)

SumOver(S, f(_)) == SumFunction([x \in S |-> f(x)])

(* The tips account can pay, besides its existential deposit, everything   *)
(* the undisputed and unclaimed reports are due and every tip no report    *)
(* has earned yet: no claim is paid out of another report's tips.          *)
TipsAccountSolvent ==
    LET Due(q) == SumOver(Undisputed(q) \ DOMAIN paid[q], LAMBDA t : Entitlement(q, t))
        Unearned(q) == GivenBetween(q, OrDefault(lastReported[q]), MaxTime + 1)
    IN tipsBalance >= ExistentialDeposit + SumOver(QueryId, LAMBDA q : Due(q) + Unearned(q))

(* A reporter who is due tips can get them: an undisputed report that is   *)
(* past the claim buffer, unclaimed and due anything passes every check.   *)
EntitledMayClaim ==
    \A q \in QueryId : \A t \in Undisputed(q) \ DOMAIN paid[q] :
        now - t > ClaimBuffer /\ Entitlement(q, t) > 0 =>
            MayClaim(reports[q][t].reporter, q, tips[q], t)

(* A comment of get_onetime_tip_amount, "check whether eligible for        *)
(* previous tips in array due to disputes": a claim is paid all that the   *)
(* report is due.                                                          *)
PaidInFull ==
    \A q \in QueryId : \A t \in DOMAIN paid[q] : paid[q][t] = Entitlement(q, t)
=============================================================================
