----------------------------- MODULE StakeAmount -----------------------------
(***************************************************************************)
(* The stake amount and the dispute fee, which follow two prices that are  *)
(* reported to the oracle itself: the staking token's price in the         *)
(* currency of the stake target, and in the local token.  A price counts   *)
(* once it is older than the period in which it may be disputed.           *)
(*                                                                         *)
(* Both amounts are updated by on_initialize, which sees the time of the   *)
(* previous block, no sooner than an interval after its last success, and  *)
(* by anybody's call of update_stake_amount.  Either way a failure of the  *)
(* second update undoes the first.                                         *)
(***************************************************************************)
EXTENDS ReportLookup, TokenDecimals

CONSTANTS
    StakingTokenPriceQueryId, StakingToLocalTokenPriceQueryId,
    SettlePeriod,               \* 12 * HOURS
    PriceUnit,                  \* 10^18
    MinPrice, MaxPrice,         \* 10^16 and 10^24
    StakeAmountCurrencyTarget,
    MinimumStakeAmount,
    InitialDisputeFee,
    UpdateStakeAmountInterval,
    ReportedPrices              \* the numbers explored; None: not a number

ASSUME StakeAmountAssumption ==
    /\ {StakingTokenPriceQueryId, StakingToLocalTokenPriceQueryId} \subseteq QueryId
    /\ SettlePeriod \in Nat /\ SettlePeriod >= ReportingLock
    /\ {PriceUnit, MinPrice, MaxPrice} \subseteq Nat \ {0}
    /\ {StakeAmountCurrencyTarget, MinimumStakeAmount, InitialDisputeFee} \subseteq Nat
    /\ UpdateStakeAmountInterval \in Nat
    /\ ReportedPrices \subseteq Nat \cup {None}

VARIABLES
    price,        \* the number each reported value converts to
    stakeAmount,  \* StakeAmount
    disputeFee,   \* DisputeFee
    lastUpdate    \* LastStakeAmountUpdate

amountVars == <<stakeAmount, disputeFee, lastUpdate>>
stakeAmountVars == <<reportsVars, price, amountVars>>

StakeAmountInit ==
    /\ ReportsInit
    /\ price = [q \in QueryId |-> [t \in {} |-> None]]
    /\ stakeAmount = MinimumStakeAmount
    /\ disputeFee = InitialDisputeFee
    /\ lastUpdate = 0

-----------------------------------------------------------------------------
(* Variant: the least price is out of range. *)
IsPriceAboveLeast(p) == p # None /\ p > MinPrice /\ p < MaxPrice

(* The range check of both updates; None does not convert to a number. *)
IsPrice(p) == p # None /\ p >= MinPrice /\ p < MaxPrice

(* The time of the report whose price an update uses. *)
SettledPriceTime(q) ==
    IF now < SettlePeriod THEN None ELSE GetDataBeforeWithStart(q, now - SettlePeriod, 0)

(* The price an update uses, None where the code returns an error. *)
SettledPrice(q) ==
    LET t == SettledPriceTime(q)
    IN IF t = None THEN None ELSE IF IsPrice(price[q][t]) THEN price[q][t] ELSE None

(* The end of do_update_stake_amount. *)
StakeFor(p) ==
    LET adjusted == (StakeAmountCurrencyTarget * PriceUnit) \div p
    IN IF adjusted < MinimumStakeAmount THEN MinimumStakeAmount ELSE adjusted

(* calculate_dispute_fee: a tenth of the stake amount, in the local token. *)
FeeFor(stake, p) == Convert(((stake \div 10) * p) \div TenToThe[DECIMALS])

(* Variant: the stake amount stays updated when the fee's price fails. *)
UpdateAmountsApart ==
    LET p == SettledPrice(StakingTokenPriceQueryId)
        localPrice == SettledPrice(StakingToLocalTokenPriceQueryId)
    IN /\ p # None
       /\ stakeAmount' = StakeFor(p)
       /\ disputeFee' = IF localPrice = None THEN disputeFee ELSE FeeFor(StakeFor(p), localPrice)

(* do_update_stake_amount followed by update_dispute_fee, which reads the  *)
(* stake amount just stored: both or neither.                              *)
UpdateAmounts ==
    LET p == SettledPrice(StakingTokenPriceQueryId)
        localPrice == SettledPrice(StakingToLocalTokenPriceQueryId)
    IN /\ p # None /\ localPrice # None
       /\ stakeAmount' = StakeFor(p)
       /\ disputeFee' = FeeFor(StakeFor(p), localPrice)

(* update_stake_amount *)
UpdateStakeAmount ==
    /\ UpdateAmounts
    /\ UNCHANGED <<reportsVars, price, lastUpdate>>

UpdateDue ==
    LET interval == UpdateStakeAmountInterval
    IN /\ interval > 0
       /\ now >= lastUpdate + IF interval > SettlePeriod THEN interval ELSE SettlePeriod

(* The update in on_initialize: a failed one is tried again in every block. *)
OnInitialize ==
    LET failing == \E q \in {StakingTokenPriceQueryId, StakingToLocalTokenPriceQueryId} :
                      SettledPrice(q) = None
    IN \/ UpdateDue /\ UpdateAmounts /\ lastUpdate' = now
       \/ (~UpdateDue \/ failing) /\ UNCHANGED amountVars

(* on_initialize of a block, then the block's timestamp. *)
NewBlock(t) ==
    /\ OnInitialize
    /\ AdvanceTime(t)
    /\ UNCHANGED <<storeVars, stakerVars, price>>

(* submit_value of a number. *)
SubmitPrice(a, q, multiple, p) ==
    /\ SubmitValue(a, q, multiple)
    /\ price' = [price EXCEPT ![q] = [t \in DOMAIN @ \cup {now} |-> IF t = now THEN p ELSE @[t]]]
    /\ UNCHANGED <<now, amountVars>>

-----------------------------------------------------------------------------
Submit ==
    \E a \in Account, q \in QueryId, multiple \in StakeMultiples, p \in ReportedPrices :
        SubmitPrice(a, q, multiple, p)

Dispute == RemoveValueStep /\ UNCHANGED <<price, amountVars>>

Block == \E t \in now..MaxTime : NewBlock(t)

StakeAmountNext == Submit \/ Dispute \/ UpdateStakeAmount \/ Block

(* The chain keeps producing blocks, and on_initialize runs in each. *)
StakeAmountSpec ==
    StakeAmountInit /\ [][StakeAmountNext]_stakeAmountVars /\ WF_stakeAmountVars(Block)

-----------------------------------------------------------------------------
(* The amounts are the ones that the prices reported at s and l give. *)
InForce(s, l) ==
    LET p == price[StakingTokenPriceQueryId]
        localPrice == price[StakingToLocalTokenPriceQueryId]
    IN /\ s \in DOMAIN p /\ l \in DOMAIN localPrice
       /\ IsPrice(p[s]) /\ IsPrice(localPrice[l])
       /\ stakeAmount = StakeFor(p[s])
       /\ disputeFee = FeeFor(StakeFor(p[s]), localPrice[l])

LatestBefore(q, t) == LatestOf(UndisputedBefore(q, t))

(* Stake amount and dispute fee always belong together and rest on prices  *)
(* nobody has disputed since: they are the initial ones, or there is one   *)
(* instant, at least twelve hours ago, whose latest undisputed prices give *)
(* both.  update_stake_amount, on_initialize, submissions, disputes and    *)
(* prices out of range may come in any order.                              *)
AmountsExplained ==
    \/ stakeAmount = MinimumStakeAmount /\ disputeFee = InitialDisputeFee
    \/ \E t \in 0..(now - SettlePeriod) :
          InForce(LatestBefore(StakingTokenPriceQueryId, t),
                  LatestBefore(StakingToLocalTokenPriceQueryId, t))

(* The latest undisputed price of more than twelve hours ago. *)
SettledIs(q, p) ==
    LET t == LatestBefore(q, now - SettlePeriod) IN t # None /\ price[q][t] = p

(* on_initialize catches up with the prices: once an update is due, prices *)
(* that are settled and in range come into force unless later ones         *)
(* supersede them.                                                         *)
DuePricesApply ==
    \A p, localPrice \in (ReportedPrices \ {None}) \cap MinPrice..(MaxPrice - 1) :
        LET settled == /\ SettledIs(StakingTokenPriceQueryId, p)
                       /\ SettledIs(StakingToLocalTokenPriceQueryId, localPrice)
        IN (UpdateDue /\ settled)
           ~> \/ stakeAmount = StakeFor(p) /\ disputeFee = FeeFor(StakeFor(p), localPrice)
              \/ ~settled
=============================================================================
