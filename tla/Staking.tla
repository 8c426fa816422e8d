------------------------------- MODULE Staking -------------------------------
(***************************************************************************)
(* Staking: the pallet's copy of the stakes held by the staking contract   *)
(* on the controller chain, kept up to date by the contract's reports, and *)
(* the rewards that accrue to them from one sub-account.                   *)
(*                                                                         *)
(* Rewards accrue at a rate per second to an accumulator per share; a      *)
(* staker's debt is what the accumulator had granted when its stake last   *)
(* changed.  All divisions round down, and stakes are first converted from *)
(* the decimals of the staking token to those of the local one.            *)
(*                                                                         *)
(* An operator that computes new storage yields Failed where the code      *)
(* returns an error; the call then has no effect.                          *)
(*                                                                         *)
(* A staker's own account on this chain may come and go for any reason;    *)
(* whether it exists when a report arrives is an input, `exists`.          *)
(***************************************************************************)
EXTENDS TokenDecimals, FiniteSets, Functions

CONSTANTS
    Account, Address, None, Failed,
    ExistentialDeposit,
    RewardPeriod,            \* 30 * DAYS
    WithdrawalPeriod,        \* 7 * DAYS
    Deposits, Requests, Slashes,  \* amounts explored in the contract's reports
    RewardAmounts,           \* amounts explored for add_staking_rewards
    StakeAmounts,            \* values explored for StakeAmount
    MaxTime, MaxStake, MaxRewards, MaxVotes  \* bounds of the exploration

(* The fields of StakerDetails that are about stakes, and the storage      *)
(* values of staking together with the balance of the rewards account.     *)
StakeInfo ==
    [address : Address, start_date : Nat, staked_balance : Nat, locked_balance : Nat,
     reward_debt : Nat, start_vote_count : Nat, start_vote_tally : Nat, staked : BOOLEAN]

Pool ==
    [total_stake_amount : Nat, total_stakers : Nat, to_withdraw : Nat,
     accumulated_reward_per_share : Nat, reward_rate : Nat, total_reward_debt : Nat,
     time_of_last_allocation : Nat, balance : Nat]

ASSUME StakingAssumption ==
    /\ ExistentialDeposit \in Nat \ {0}
    /\ RewardPeriod \in Nat \ {0} /\ WithdrawalPeriod \in Nat
    /\ (Deposits \cup Requests \cup Slashes) \subseteq Nat /\ RewardAmounts \subseteq Nat
    /\ StakeAmounts \subseteq Nat \ {0}
    /\ {MaxTime, MaxStake, MaxRewards, MaxVotes} \subseteq Nat
    /\ None \notin StakeInfo
    /\ Failed \notin Pool \cup [pool : Pool, staker : StakeInfo]

VARIABLES
    now,
    staker,       \* StakerDetails, without the fields of reporting
    pool,         \* the storage values of staking and the rewards account
    stakeAmount,  \* StakeAmount
    voteCount,    \* VoteCount
    voteTally,    \* VoteTallyByAddress
    requested     \* when each account last requested a withdrawal (history)

stakingVars == <<now, staker, pool, stakeAmount, voteCount, voteTally, requested>>

NewStaker(address) ==
    [address |-> address, start_date |-> 0, staked_balance |-> 0, locked_balance |-> 0,
     reward_debt |-> 0, start_vote_count |-> 0, start_vote_tally |-> 0, staked |-> FALSE]

EmptyPool(balance) ==
    [total_stake_amount |-> 0, total_stakers |-> 0, to_withdraw |-> 0,
     accumulated_reward_per_share |-> 0, reward_rate |-> 0, total_reward_debt |-> 0,
     time_of_last_allocation |-> 0, balance |-> balance]

(* Storage before the first report, with what the rewards account holds. *)
StakesInit(balance) ==
    /\ now = 0
    /\ staker = [a \in Account |-> None]
    /\ pool = EmptyPool(balance)
    /\ stakeAmount \in StakeAmounts
    /\ voteCount = 0
    /\ voteTally = [a \in Account |-> 0]
    /\ requested = [a \in Account |-> 0]

(* The pallet after `register` has endowed its sub-accounts. *)
StakingInit == StakesInit(ExistentialDeposit)

-----------------------------------------------------------------------------
(* What the accumulator grants to a stake. *)
Granted(acc, stake) == (acc * Convert(stake)) \div Unit

(* The rewards accrued and not yet paid, as the code computes them. *)
Accrued(p) ==
    Granted(p.accumulated_reward_per_share, p.total_stake_amount) - p.total_reward_debt

(* update_rewards *)
UpdateRewards(p) ==
    LET stake == Convert(p.total_stake_amount)
        grown == [p EXCEPT !.accumulated_reward_per_share =
                       @ + ((now - p.time_of_last_allocation) * p.reward_rate * Unit) \div stake]
        left == p.balance - Accrued(p)
        exhausted == [p EXCEPT !.accumulated_reward_per_share = @ + (left * Unit) \div stake,
                               !.reward_rate = 0]
    IN IF p.time_of_last_allocation = now THEN p
       ELSE IF stake = 0 \/ p.reward_rate = 0 THEN [p EXCEPT !.time_of_last_allocation = now]
       ELSE IF Accrued(grown) < 0 THEN Failed
       ELSE IF Accrued(grown) < p.balance THEN [grown EXCEPT !.time_of_last_allocation = now]
       ELSE IF Accrued(p) >= 0 /\ left >= 0 THEN [exhausted EXCEPT !.time_of_last_allocation = now]
       ELSE Failed

(* The reward rate that pays what is not accrued yet over RewardPeriod. *)
WithRewardRate(p) ==
    IF Accrued(p) >= 0 /\ p.balance >= Accrued(p)
    THEN [p EXCEPT !.reward_rate = (p.balance - Accrued(p)) \div RewardPeriod]
    ELSE Failed

(* The share of a pending reward that voting in the disputes since the     *)
(* deposit earns.                                                          *)
Participation(a, s, pending) ==
    LET votes == voteCount - s.start_vote_count
        reduced == (pending * (voteTally[a] - s.start_vote_tally)) \div votes
    IN IF votes > 0 /\ reduced < pending THEN reduced ELSE pending

Pending(p, s) == Granted(p.accumulated_reward_per_share, s.staked_balance) - s.reward_debt

(* Variant: the debt of the old stake stays in the total. *)
WithoutStakeKeepingDebt(p, s, reward) ==
    [p EXCEPT !.balance = @ - reward, !.total_stake_amount = @ - s.staked_balance]

(* The pool once a staker is paid and its old stake is taken out. *)
WithoutStake(p, s, reward) ==
    [p EXCEPT !.balance = @ - reward,
              !.total_reward_debt = @ - s.reward_debt,
              !.total_stake_amount = @ - s.staked_balance]

(* A payment does not open an account with less than the existential       *)
(* deposit; one of nothing goes nowhere.                                   *)
CanReceive(exists, reward) == exists \/ reward = 0 \/ reward >= ExistentialDeposit

(* A staker with a stake is paid first, which must leave the rewards       *)
(* account its existential deposit.                                        *)
PaidOut(p, a, s, exists) ==
    LET reward == Participation(a, s, Pending(p, s))
    IN IF s.staked_balance = 0 THEN p
       ELSE IF /\ Pending(p, s) >= 0
               /\ voteCount >= s.start_vote_count
               /\ voteCount > s.start_vote_count => voteTally[a] >= s.start_vote_tally
               /\ p.balance - reward >= ExistentialDeposit
               /\ CanReceive(exists, reward)
               /\ p.total_reward_debt >= s.reward_debt
               /\ p.total_stake_amount >= s.staked_balance
       THEN WithoutStake(p, s, reward)
       ELSE Failed

(* Variant: the debt of the old stake is kept when the stake changes. *)
RestakedKeepingDebt(p, s, balance) ==
    [s EXCEPT !.staked_balance = balance, !.staked = balance >= stakeAmount]

(* A staker with a new balance. *)
Restaked(p, s, balance) ==
    [s EXCEPT !.staked_balance = balance,
              !.staked = balance >= stakeAmount,
              !.reward_debt = Granted(p.accumulated_reward_per_share, balance)]

StakersAfter(total, was, is) ==
    IF is /\ ~was THEN total + 1 ELSE IF was /\ ~is /\ total > 0 THEN total - 1 ELSE total

(* update_stake_and_pay_rewards: the pool and the staker after it. *)
UpdateStake(p, a, s, balance, exists) ==
    LET updated == UpdateRewards(p)
        without == PaidOut(updated, a, s, exists)
        staked == Restaked(updated, s, balance)
        with == [without EXCEPT !.total_stakers = StakersAfter(@, s.staked, staked.staked),
                                !.total_reward_debt = @ + staked.reward_debt,
                                !.total_stake_amount = @ + balance]
        rated == IF with.reward_rate = 0 THEN WithRewardRate(with) ELSE with
    IN IF updated = Failed \/ without = Failed \/ rated = Failed THEN Failed
       ELSE [pool |-> rated, staker |-> staked]

(* ToWithdraw reduced by an amount. *)
Released(p, amount) ==
    IF p.to_withdraw >= amount THEN [p EXCEPT !.to_withdraw = @ - amount] ELSE Failed

-----------------------------------------------------------------------------
(* The storage of staking becomes `result`, if it is one. *)
Apply(a, result) ==
    /\ result # Failed
    /\ pool' = result.pool
    /\ staker' = [staker EXCEPT ![a] = result.staker]

(* report_stake_deposited: a deposit takes from the locked balance first. *)
DepositResult(a, amount, address, exists) ==
    LET old == IF staker[a] = None THEN NewStaker(address) ELSE staker[a]
        used == IF old.locked_balance >= amount THEN amount ELSE old.locked_balance
        begun == IF old.locked_balance = 0 /\ old.staked_balance = 0
                 THEN [old EXCEPT !.start_vote_count = voteCount, !.start_vote_tally = voteTally[a]]
                 ELSE [old EXCEPT !.locked_balance = @ - used]
        released == Released(pool, used)
        result == UpdateStake(released, a, begun, old.staked_balance + amount, exists)
    IN IF old.address # address \/ released = Failed \/ result = Failed THEN Failed
       ELSE [result EXCEPT !.staker.start_date = now]

ReportStakeDeposited(a, amount, address) ==
    /\ \E exists \in BOOLEAN : Apply(a, DepositResult(a, amount, address, exists))
    /\ UNCHANGED <<now, stakeAmount, voteCount, voteTally, requested>>

(* Variant: a request does not restart the waiting period. *)
RequestedKeepingDate(s, amount) == [s EXCEPT !.locked_balance = @ + amount]

(* The staker after a withdrawal request. *)
Requested(s, amount) == [s EXCEPT !.start_date = now, !.locked_balance = @ + amount]

(* report_staking_withdraw_request *)
WithdrawRequestResult(a, amount, address, exists) ==
    LET s == staker[a]
        result == UpdateStake(pool, a, s, s.staked_balance - amount, exists)
    IN IF s = None THEN Failed
       ELSE IF s.address # address \/ s.staked_balance < amount \/ result = Failed THEN Failed
       ELSE [pool |-> [result.pool EXCEPT !.to_withdraw = @ + amount],
             staker |-> Requested(result.staker, amount)]

ReportStakingWithdrawRequest(a, amount, address) ==
    /\ \E exists \in BOOLEAN : Apply(a, WithdrawRequestResult(a, amount, address, exists))
    /\ requested' = [requested EXCEPT ![a] = now]
    /\ UNCHANGED <<now, stakeAmount, voteCount, voteTally>>

(* report_stake_withdrawn: ToWithdraw is reduced by the whole locked       *)
(* balance, the staker's own balance by the amount reported.               *)
WithdrawnResult(a, amount) ==
    LET s == staker[a]
        released == Released(pool, s.locked_balance)
    IN IF s = None THEN Failed
       ELSE IF \/ s.locked_balance = 0
               \/ now - s.start_date < WithdrawalPeriod
               \/ released = Failed
               \/ s.locked_balance < amount
       THEN Failed
       ELSE [pool |-> released, staker |-> [s EXCEPT !.locked_balance = @ - amount]]

ReportStakeWithdrawn(a, amount) ==
    /\ Apply(a, WithdrawnResult(a, amount))
    /\ UNCHANGED <<now, stakeAmount, voteCount, voteTally, requested>>

(* Variant: what is locked is forgotten when the stake is slashed too. *)
SlashedLockForgetful(s, amount) == IF s.locked_balance >= amount THEN amount ELSE 0

(* What a slash takes from the locked balance. *)
SlashedLock(s, amount) == IF s.locked_balance >= amount THEN amount ELSE s.locked_balance

(* Variant: the slash is not limited to what there is. *)
SlashedStakeUnlimited(s, amount) == s.staked_balance - (amount - s.locked_balance)

(* The stake a slash beyond the locked balance leaves. *)
SlashedStake(s, amount) ==
    IF s.locked_balance + s.staked_balance >= amount
    THEN s.staked_balance - (amount - s.locked_balance) ELSE 0

(* report_slash: from the locked balance, then from the stake, at most all *)
(* there is.                                                               *)
SlashResult(a, amount, exists) ==
    LET s == staker[a]
        released == Released(pool, SlashedLock(s, amount))
        result == UpdateStake(released, a, s, SlashedStake(s, amount), exists)
    IN IF s = None THEN Failed
       ELSE IF s.staked_balance + s.locked_balance = 0 \/ released = Failed THEN Failed
       ELSE IF s.locked_balance >= amount
            THEN [pool |-> released, staker |-> [s EXCEPT !.locked_balance = @ - amount]]
       ELSE IF result = Failed THEN Failed
       ELSE [result EXCEPT !.staker.locked_balance = 0]

ReportSlash(a, amount) ==
    /\ \E exists \in BOOLEAN : Apply(a, SlashResult(a, amount, exists))
    /\ UNCHANGED <<now, stakeAmount, voteCount, voteTally, requested>>

(* add_staking_rewards, and the fees of tips: the transfer, which must not *)
(* create an account below the existential deposit, then the rate.         *)
AddStakingRewards(amount) ==
    LET updated == UpdateRewards([pool EXCEPT !.balance = @ + amount])
    IN /\ amount > 0 => pool.balance + amount >= ExistentialDeposit
       /\ updated # Failed
       /\ WithRewardRate(updated) # Failed
       /\ pool' = WithRewardRate(updated)
       /\ UNCHANGED <<now, staker, stakeAmount, voteCount, voteTally, requested>>

-----------------------------------------------------------------------------
(* What other parts of the pallet change: a dispute round is opened, an    *)
(* account votes, the stake amount follows the price.                      *)
OpenVote ==
    /\ voteCount < MaxVotes
    /\ voteCount' = voteCount + 1
    /\ UNCHANGED <<now, staker, pool, stakeAmount, voteTally, requested>>

CastVote(a) ==
    /\ voteTally[a] < voteCount
    /\ voteTally' = [voteTally EXCEPT ![a] = @ + 1]
    /\ UNCHANGED <<now, staker, pool, stakeAmount, voteCount, requested>>

UpdateStakeAmount ==
    /\ stakeAmount' \in StakeAmounts
    /\ UNCHANGED <<now, staker, pool, voteCount, voteTally, requested>>

AdvanceTime ==
    /\ now < MaxTime
    /\ now' = now + 1
    /\ UNCHANGED <<staker, pool, stakeAmount, voteCount, voteTally, requested>>

DepositStep ==
    \E a \in Account, amount \in Deposits, address \in Address :
        /\ pool.total_stake_amount + pool.to_withdraw + amount <= MaxStake
        /\ ReportStakeDeposited(a, amount, address)

RequestStep ==
    \E a \in Account, amount \in Requests, address \in Address :
        ReportStakingWithdrawRequest(a, amount, address)

(* The contract always pays out the whole locked balance. *)
WithdrawStep ==
    \E a \in {x \in Account : staker[x] # None} : ReportStakeWithdrawn(a, staker[a].locked_balance)

SlashStep == \E a \in Account, amount \in Slashes : ReportSlash(a, amount)

RewardStep ==
    \E amount \in RewardAmounts :
        /\ pool.balance + amount <= MaxRewards
        /\ AddStakingRewards(amount)

VoteStep == OpenVote \/ \E a \in Account : CastVote(a)

StakingNext ==
    DepositStep \/ RequestStep \/ WithdrawStep \/ SlashStep \/ RewardStep
    \/ VoteStep \/ UpdateStakeAmount \/ AdvanceTime

StakingSpec == StakingInit /\ [][StakingNext]_stakingVars

-----------------------------------------------------------------------------
Stakers == {a \in Account : staker[a] # None}

(* The fields of the stakers, to be summed up. *)
StakedBalances == [a \in Stakers |-> staker[a].staked_balance]
LockedBalances == [a \in Stakers |-> staker[a].locked_balance]
RewardDebts == [a \in Stakers |-> staker[a].reward_debt]
PendingRewards == [a \in Stakers |-> Pending(pool, staker[a])]

(* Every stored item has its type, and no time is in the future. *)
StakingTypeOK ==
    /\ now \in Nat
    /\ staker \in [Account -> StakeInfo \cup {None}]
    /\ pool \in Pool /\ pool.time_of_last_allocation <= now
    /\ stakeAmount \in Nat \ {0}
    /\ voteCount \in Nat
    /\ voteTally \in [Account -> Nat]
    /\ requested \in [Account -> Nat]

(* The totals that the handlers adjust one by one are the sums over the    *)
(* stakers, after any order of deposits, requests, withdrawals, slashes    *)
(* and changes of the stake amount.                                        *)
TotalsMatchStakers ==
    /\ pool.total_stake_amount = SumFunction(StakedBalances)
    /\ pool.total_reward_debt = SumFunction(RewardDebts)
    /\ pool.to_withdraw = SumFunction(LockedBalances)
    /\ pool.total_stakers = Cardinality({a \in Stakers : staker[a].staked})

(* The rewards account holds what all stakers have accrued together, with  *)
(* every rounding of the accumulator and of the conversion.                *)
RewardsCovered ==
    /\ \A a \in Stakers : PendingRewards[a] >= 0
    /\ pool.balance >= SumFunction(PendingRewards)

(* report_slash takes effect on every staker that has something to slash,  *)
(* whose own account exists.                                               *)
SlashApplies ==
    \A a \in Stakers, amount \in Slashes :
        staker[a].staked_balance + staker[a].locked_balance > 0 => SlashResult(a, amount, TRUE) # Failed

(* The rewards due now leave the rewards account its existential deposit,  *)
(* and one rounding for each of n stakers: at most a local unit of stake   *)
(* each, lost in the conversion, and a unit of reward.                     *)
RewardsFundedFor(n) ==
    LET p == UpdateRewards(pool)
        rounding == n * (p.accumulated_reward_per_share \div Unit + 1)
        reserve == IF rounding > ExistentialDeposit THEN rounding ELSE ExistentialDeposit
    IN p # Failed /\ Accrued(p) + reserve <= p.balance

RewardsFunded == RewardsFundedFor(Cardinality(Stakers))

(* The reward that the next change of a's stake pays. *)
RewardDue(a) == Participation(a, staker[a], Pending(UpdateRewards(pool), staker[a]))

(* That reward, if any, can be paid to a. *)
CanBePaid(a, exists) == staker[a].staked_balance > 0 => CanReceive(exists, RewardDue(a))

(* No arithmetic of totals, debts, votes or rates refuses a report of the  *)
(* contract, as long as the rewards due leave the rewards account its      *)
(* existential deposit and the roundings and the staker's account can      *)
(* receive what it is due: the two chains stay in step.  A slash that the  *)
(* locked balance covers pays nothing.                                     *)
ReportsApplyWhenFunded ==
    RewardsFunded =>
        \A a \in Stakers, exists \in BOOLEAN :
            /\ \A amount \in Slashes :
                  /\ staker[a].staked_balance + staker[a].locked_balance > 0
                  /\ staker[a].locked_balance < amount => CanBePaid(a, exists)
                  => SlashResult(a, amount, exists) # Failed
            /\ CanBePaid(a, exists) =>
                  /\ \A amount \in Deposits :
                        DepositResult(a, amount, staker[a].address, exists) # Failed
                  /\ \A amount \in Requests :
                        amount <= staker[a].staked_balance =>
                            WithdrawRequestResult(a, amount, staker[a].address, exists) # Failed

(* A withdrawal is accepted only seven days after the account's last       *)
(* request, so that what was requested stays slashable for that time.      *)
WithdrawalsWait ==
    [][\A a \in Stakers :
          ReportStakeWithdrawn(a, staker[a].locked_balance) =>
              now - requested[a] >= WithdrawalPeriod]_stakingVars
=============================================================================
