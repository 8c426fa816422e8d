------------------------------ MODULE DataFeeds ------------------------------
(***************************************************************************)
(* Data feeds: recurring rewards for reports, paid once per interval to    *)
(* the first undisputed report inside the interval's window, or to any     *)
(* report that moves the price by more than the feed's threshold.  Feeds   *)
(* are funded into the same sub-account as one-time tips, so the module    *)
(* extends OnetimeTips and both run side by side.                          *)
(*                                                                         *)
(* A feed identifier, the hash of the query identifier and the feed's      *)
(* parameters, is that pair.  A reported value is the number it converts   *)
(* to, or None when it is too long to convert.                             *)
(***************************************************************************)
EXTENDS OnetimeTips

CONSTANTS
    FeedParams,      \* parameters explored for setup_data_feed
    FundAmounts,     \* amounts explored for funding, zero included
    ReportedValues,  \* values explored for reports
    ClaimExpiry      \* 4 * WEEKS

MaxU16 == 65535  \* u16::MAX

ASSUME FeedsAssumption ==
    /\ FeedParams \subseteq [reward : Nat, start_time : Nat, interval : Nat, window : Nat,
                             price_threshold : 0..MaxU16, reward_increase_per_second : Nat]
    /\ FundAmounts \subseteq Nat
    /\ ReportedValues \subseteq Nat \cup {None}
    /\ ClaimExpiry \in Nat

VARIABLES
    feeds,             \* DataFeeds: the balance of each feed
    feedsWithFunding,  \* FeedsWithFunding
    claimed,           \* DataFeedRewardClaimed, with the amount credited (history)
    number             \* the numbers the reported values convert to

feedVars == <<feeds, feedsWithFunding, claimed, number>>
autopayVars == <<vars, feedVars>>

FeedId == QueryId \X FeedParams

-----------------------------------------------------------------------------
FeedsInit ==
    /\ TipsInit
    /\ feeds = [f \in {} |-> 0]
    /\ feedsWithFunding = {}
    /\ claimed = [f \in {} |-> <<>>]
    /\ number = [q \in QueryId |-> [t \in {} |-> 0]]

(* A feed's balance once `amount` is added; a feed is created with none. *)
Funded(f, amount) ==
    [g \in DOMAIN feeds \cup {f} |->
        (IF g \in DOMAIN feeds THEN feeds[g] ELSE 0) + (IF g = f THEN amount ELSE 0)]

(* The transfer and the bookkeeping of do_fund_feed. *)
PayIn(a, f, amount) ==
    /\ userTips[a] + amount <= MaxTipped
    /\ amount <= balance[a]
    /\ balance' = [balance EXCEPT ![a] = Spend(@, amount)]
    /\ tipsBalance' = tipsBalance + amount
    /\ userTips' = [userTips EXCEPT ![a] = @ + amount]
    /\ feedsWithFunding' = feedsWithFunding \cup {f}

(* fund_feed *)
FundFeed(a, f, amount) ==
    /\ f \in DOMAIN feeds
    /\ amount > 0
    /\ feeds' = Funded(f, amount)
    /\ PayIn(a, f, amount)
    /\ UNCHANGED <<reportsVars, tips, funded, stakingBalance, paid, claimed, number>>

(* setup_data_feed, with an optional first funding. *)
SetupDataFeed(a, f, amount) ==
    /\ f \notin DOMAIN feeds
    /\ f[2].reward > 0 /\ f[2].interval > 0 /\ f[2].window < f[2].interval
    /\ feeds' = Funded(f, amount)
    /\ claimed' = [g \in DOMAIN claimed \cup {f} |-> IF g = f THEN [t \in {} |-> 0] ELSE claimed[g]]
    /\ IF amount > 0 THEN PayIn(a, f, amount)
       ELSE UNCHANGED <<balance, tipsBalance, userTips, feedsWithFunding>>
    /\ UNCHANGED <<reportsVars, tips, funded, stakingBalance, paid, number>>

(* The start of the interval of f in which t lies. *)
IntervalStart(f, t) ==
    f[2].start_time + f[2].interval * ((t - f[2].start_time) \div f[2].interval)

Before(f, t) == OrDefault(reports[f[1]][t].previous)

(* Variant: a report need not be the first of its interval. *)
InWindowAgain(f, t) == t - IntervalStart(f, t) < f[2].window

(* The report at t is the first of its interval and inside the window. *)
InWindow(f, t) ==
    /\ t - IntervalStart(f, t) < f[2].window
    /\ Before(f, t) < IntervalStart(f, t)

ValueAt(q, t) == IF t \in values[q] THEN number[q][t] ELSE 0

(* The change from the previous value in hundredths of a percent; a feed   *)
(* without a threshold looks at no values.                                 *)
PriceChange(f, t) ==
    LET v1 == ValueAt(f[1], t)
        v2 == ValueAt(f[1], Before(f, t))
        change == IF v1 >= v2 THEN v1 - v2 ELSE v2 - v1
        percent == (10000 * change) \div v2
    IN IF f[2].price_threshold = 0 THEN 0
       ELSE IF v2 = 0 THEN 10000
       ELSE IF percent > MaxU16 THEN MaxU16 ELSE percent

(* The checks of do_get_reward_amount, given the timestamps claimed so far. *)
Rewarded(f, t, done) ==
    LET q == f[1]
    IN /\ t <= now /\ now - t < ClaimExpiry
       /\ t \notin done
       /\ t >= f[2].start_time
       /\ t \in DOMAIN reports[q]
       /\ ~reports[q][t].is_disputed
       /\ f[2].price_threshold # 0 =>
             t \in values[q] /\ number[q][t] # None /\ ValueAt(q, Before(f, t)) # None
       /\ InWindow(f, t) \/ PriceChange(f, t) > f[2].price_threshold

(* The reward of a report, at most the feed's balance. *)
RewardAmount(f, t) ==
    LET increase == IF InWindow(f, t)
                    THEN f[2].reward_increase_per_second * (t - IntervalStart(f, t)) ELSE 0
        reward == f[2].reward + increase
    IN IF feeds[f] < reward THEN feeds[f] ELSE reward

FeeOf(reward) == (reward * Fee) \div 1000

(* Variant: the sum is not capped. *)
GetRewardAmountUncapped(f, batch) ==
    LET rewards == [i \in DOMAIN batch |->
                      IF Rewarded(f, batch[i], DOMAIN claimed[f]) THEN RewardAmount(f, batch[i]) ELSE 0]
        reward == FoldFunction(+, 0, rewards)
    IN reward - FeeOf(reward)

(* get_reward_amount: the reward quoted for a batch, after the fee. *)
GetRewardAmount(f, batch) ==
    LET rewards == [i \in DOMAIN batch |->
                      IF Rewarded(f, batch[i], DOMAIN claimed[f]) THEN RewardAmount(f, batch[i]) ELSE 0]
        sum == FoldFunction(+, 0, rewards)
        reward == IF sum > feeds[f] THEN feeds[f] ELSE sum
    IN reward - FeeOf(reward)

(* Variant: the reward is never cut to the feed's balance. *)
TotalRewardUncut(f, total, t, batch) == [ok |-> TRUE, reward |-> total, exhausted |-> total >= feeds[f]]

(* Variant: a feed that is paid out to the last token stays listed. *)
TotalRewardExact(f, total, t, batch) ==
    IF total <= feeds[f] THEN [ok |-> TRUE, reward |-> total, exhausted |-> FALSE]
    ELSE [ok |-> t = Last(batch), reward |-> feeds[f], exhausted |-> TRUE]

(* The batch's reward so far: only the last timestamp may exhaust the feed, *)
(* and is paid what is left.                                               *)
TotalReward(f, total, t, batch) ==
    IF total < feeds[f] THEN [ok |-> TRUE, reward |-> total, exhausted |-> FALSE]
    ELSE [ok |-> t = Last(batch), reward |-> feeds[f], exhausted |-> TRUE]

(* The loop of claim_tip. *)
ClaimFeedBatch(a, f, batch) ==
    LET claim[i \in 0..Len(batch)] ==
          IF i = 0 THEN [ok |-> TRUE, claimed |-> claimed[f], reward |-> 0, exhausted |-> FALSE]
          ELSE LET before == claim[i - 1]
                   t == batch[i]
                   may == /\ before.ok
                          /\ t <= now /\ now - t > ClaimBuffer
                          /\ t \in DOMAIN reports[f[1]] /\ reports[f[1]][t].reporter = a
                          /\ Rewarded(f, t, DOMAIN before.claimed)
                   total == TotalReward(f, before.reward + RewardAmount(f, t), t, batch)
               IN IF may /\ total.ok
                  THEN [ok |-> TRUE,
                        claimed |-> [s \in DOMAIN before.claimed \cup {t} |->
                                       IF s = t THEN total.reward - before.reward ELSE before.claimed[s]],
                        reward |-> total.reward,
                        exhausted |-> before.exhausted \/ total.exhausted]
                  ELSE [before EXCEPT !.ok = FALSE]
    IN claim[Len(batch)]

(* Variant: the feed's balance is not reduced. *)
ReducedNot(f, reward) == feeds

(* The feeds after f has paid a reward. *)
Reduced(f, reward) == [feeds EXCEPT ![f] = @ - reward]

(* claim_tip *)
ClaimTip(a, f, batch) ==
    LET result == ClaimFeedBatch(a, f, batch)
        fee == FeeOf(result.reward)
    IN /\ feeds[f] > 0
       /\ result.ok
       /\ tipsBalance - (result.reward - fee) >= ExistentialDeposit
       /\ tipsBalance >= result.reward
       /\ tipsBalance' = Spend(tipsBalance - (result.reward - fee), fee)
       /\ stakingBalance' = stakingBalance + fee
       /\ balance' = [balance EXCEPT ![a] = @ + result.reward - fee]
       /\ feeds' = Reduced(f, result.reward)
       /\ claimed' = [claimed EXCEPT ![f] = result.claimed]
       /\ feedsWithFunding' = IF result.exhausted THEN feedsWithFunding \ {f} ELSE feedsWithFunding
       /\ UNCHANGED <<reportsVars, tips, funded, userTips, paid, number>>

-----------------------------------------------------------------------------
(* submit_value, with the number its value converts to. *)
SubmitNumber ==
    /\ \E a \in Account, q \in QueryId, multiple \in StakeMultiples, v \in ReportedValues :
          /\ SubmitValue(a, q, multiple)
          /\ number' = [number EXCEPT ![q] =
                          [t \in DOMAIN @ \cup {now} |-> IF t = now THEN v ELSE @[t]]]
    /\ UNCHANGED <<now, tipVars, feeds, feedsWithFunding, claimed>>

OtherReportStep ==
    /\ RemoveValueStep \/ ClockStep
    /\ UNCHANGED <<tipVars, feedVars>>

OnetimeTipStep ==
    /\ TipStep \/ ClaimStep
    /\ UNCHANGED feedVars

SetupStep == \E a \in Account, f \in FeedId, amount \in FundAmounts : SetupDataFeed(a, f, amount)

FundStep == \E a \in Account, f \in DOMAIN feeds, amount \in FundAmounts : FundFeed(a, f, amount)

ClaimFeedStep ==
    \E a \in Account, f \in DOMAIN feeds, n \in 0..MaxClaimTimestamps :
        \E batch \in [1..n -> DOMAIN reports[f[1]]] : ClaimTip(a, f, batch)

FeedsNext ==
    SubmitNumber \/ OtherReportStep \/ OnetimeTipStep \/ SetupStep \/ FundStep \/ ClaimFeedStep

FeedsSpec == FeedsInit /\ [][FeedsNext]_autopayVars

-----------------------------------------------------------------------------
(* Every stored item has its type. *)
FeedsTypeOK ==
    /\ TipsTypeOK
    /\ DOMAIN feeds \subseteq FeedId
    /\ feeds \in [DOMAIN feeds -> Nat]
    /\ feedsWithFunding \subseteq DOMAIN feeds
    /\ DOMAIN claimed = DOMAIN feeds
    /\ \A f \in DOMAIN feeds : claimed[f] \in [DOMAIN claimed[f] -> Nat]
    /\ \A q \in QueryId : DOMAIN number[q] = DOMAIN reports[q]

(* FeedsWithFunding, from which reporters pick work, lists exactly the     *)
(* feeds that still have a balance, after any order of funding and claims. *)
FeedFundedIffBalance == feedsWithFunding = {f \in DOMAIN feeds : feeds[f] > 0}

(* The tips sub-account, which feeds and one-time tips share, holds        *)
(* exactly its endowment, the balances of all feeds and the one-time tips  *)
(* not paid out: neither side is ever paid from the other's money.         *)
TipsAccountCoversAll ==
    LET Given1(q) == IF tips[q] = <<>> THEN 0 ELSE Last(tips[q]).cumulative_tips
        Paid1(q) == SumOver(DOMAIN paid[q], LAMBDA t : paid[q][t])
    IN tipsBalance = ExistentialDeposit + SumOver(DOMAIN feeds, LAMBDA f : feeds[f])
                     + SumOver(QueryId, LAMBDA q : Given1(q) - Paid1(q))

(* An interval is paid for its time once: of two paid reports in one       *)
(* interval the later was paid for its change of price, whatever was       *)
(* disputed between them and whenever they were claimed.                   *)
OnePaidPerWindow ==
    \A f \in DOMAIN feeds : \A t1, t2 \in DOMAIN claimed[f] :
        t1 < t2 /\ IntervalStart(f, t1) = IntervalStart(f, t2) =>
            PriceChange(f, t2) > f[2].price_threshold

(* Whatever batch claim_tip accepts from its reporter, the reporter is     *)
(* paid what get_reward_amount quotes for it.                              *)
QuotedRewardIsPaid ==
    \A f \in DOMAIN feeds, a \in Account, n \in 1..MaxClaimTimestamps :
        \A batch \in [1..n -> DOMAIN reports[f[1]]] :
            LET result == ClaimFeedBatch(a, f, batch)
            IN feeds[f] > 0 /\ result.ok =>
                  GetRewardAmount(f, batch) = result.reward - FeeOf(result.reward)
=============================================================================
