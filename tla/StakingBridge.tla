---------------------------- MODULE StakingBridge ----------------------------
(***************************************************************************)
(* The pallet's copy of the stakes next to the staking contract that holds *)
(* them.  `register` makes the parachain known to the controller chain;    *)
(* from then on the contract changes its own ledger at once and reports    *)
(* each change to the pallet.  Reports arrive in order, any time later.    *)
(* The contract never learns whether a report was applied: one that is     *)
(* lost, or that the pallet refuses, leaves the copy behind for good.      *)
(***************************************************************************)
EXTENDS Staking, Sequences

CONSTANTS
    PalletBalance,  \* balance of the pallet's account before registration
    MaxInFlight,    \* bound: reports on their way
    Losses          \* bound: reports that never arrive

ASSUME BridgeAssumption ==
    /\ {PalletBalance, MaxInFlight, Losses} \subseteq Nat

VARIABLES
    registered,     \* register was sent to the registry contract
    palletBalance,  \* balance of the pallet's account
    subAccounts,    \* balances of the dispute fees and the tips sub-account
    ledger,         \* the contract's stakes
    inFlight,       \* reports sent and not yet delivered
    lost,           \* reports that never arrived
    excused         \* a report had no effect for a reason the design knows of

bridgeVars == <<registered, palletBalance, subAccounts, ledger, inFlight, lost, excused>>
allVars == <<stakingVars, bridgeVars>>

BridgeInit ==
    /\ StakesInit(0)
    /\ registered = FALSE
    /\ palletBalance = PalletBalance
    /\ subAccounts = [x \in {"dispute_fees", "tips"} |-> 0]
    /\ ledger = [a \in Account |-> [staked |-> 0, locked |-> 0, since |-> 0]]
    /\ inFlight = <<>>
    /\ lost = 0
    /\ excused = FALSE

-----------------------------------------------------------------------------
(* register: endows each sub-account that holds less than the existential  *)
(* deposit, from the pallet's own account, which has to stay alive, and    *)
(* sends the registration.  A send that fails undoes the endowments.       *)
Register ==
    LET Endowed(balance) ==
          IF balance < ExistentialDeposit THEN balance + ExistentialDeposit ELSE balance
        poor == Cardinality({x \in DOMAIN subAccounts : subAccounts[x] < ExistentialDeposit})
                + IF pool.balance < ExistentialDeposit THEN 1 ELSE 0
    IN /\ poor > 0 => palletBalance - poor * ExistentialDeposit >= ExistentialDeposit
       /\ palletBalance' = palletBalance - poor * ExistentialDeposit
       /\ subAccounts' = [x \in DOMAIN subAccounts |-> Endowed(subAccounts[x])]
       /\ pool' = [pool EXCEPT !.balance = Endowed(@)]
       /\ registered' = TRUE
       /\ UNCHANGED <<now, staker, stakeAmount, voteCount, voteTally, requested,
                      ledger, inFlight, lost, excused>>

-----------------------------------------------------------------------------
(* The contract's side. *)
Less(n, m) == IF n > m THEN n - m ELSE 0

(* A stake after the change that report r is about: a deposit comes out of *)
(* the locked balance first, a slash as well.                              *)
After(stake, r) ==
    CASE r.kind = "deposit"  -> [stake EXCEPT !.staked = @ + r.amount, !.locked = Less(@, r.amount)]
      [] r.kind = "request"  -> [stake EXCEPT !.staked = @ - r.amount, !.locked = @ + r.amount]
      [] r.kind = "withdraw" -> [stake EXCEPT !.locked = @ - r.amount]
      [] r.kind = "slash"    -> [stake EXCEPT !.staked = Less(@, Less(r.amount, stake.locked)),
                                              !.locked = Less(@, r.amount)]

Dated(stake, r) == IF r.kind \in {"deposit", "request"} THEN [stake EXCEPT !.since = now] ELSE stake

(* The changes the contract accepts: a withdrawal is of the whole locked   *)
(* balance, seven days after the last request or deposit.  Deposits and    *)
(* requests name the address they come from.  The second bound keeps a     *)
(* copy that is behind for good from growing with every new deposit.       *)
ContractChanges ==
    LET Of(kind, amounts, addresses) ==
          [kind : {kind}, reporter : Account, amount : amounts, address : addresses]
    IN {r \in Of("deposit", Deposits, Address) :
           /\ ledger[r.reporter].staked + ledger[r.reporter].locked + r.amount <= MaxStake
           /\ pool.total_stake_amount + pool.to_withdraw + r.amount <= MaxStake}
       \cup {r \in Of("request", Requests, Address) : r.amount <= ledger[r.reporter].staked}
       \cup {r \in Of("withdraw", {ledger[a].locked : a \in Account}, {None}) :
               /\ r.amount > 0 /\ r.amount = ledger[r.reporter].locked
               /\ now - ledger[r.reporter].since >= WithdrawalPeriod}
       \cup {r \in Of("slash", Slashes, {None}) :
               ledger[r.reporter].staked + ledger[r.reporter].locked > 0}

ContractStep ==
    /\ registered
    /\ Len(inFlight) < MaxInFlight
    /\ \E r \in ContractChanges :
          /\ ledger' = [ledger EXCEPT ![r.reporter] = Dated(After(@, r), r)]
          /\ inFlight' = Append(inFlight, r)
    /\ UNCHANGED <<stakingVars, registered, palletBalance, subAccounts, lost, excused>>

-----------------------------------------------------------------------------
(* What the pallet's handler of a report yields. *)
HandlerResult(r, exists) ==
    CASE r.kind = "deposit"  -> DepositResult(r.reporter, r.amount, r.address, exists)
      [] r.kind = "request"  -> WithdrawRequestResult(r.reporter, r.amount, r.address, exists)
      [] r.kind = "withdraw" -> WithdrawnResult(r.reporter, r.amount)
      [] r.kind = "slash"    -> SlashResult(r.reporter, r.amount, exists)

Handle(r) ==
    \/ r.kind = "deposit" /\ ReportStakeDeposited(r.reporter, r.amount, r.address)
    \/ r.kind = "request" /\ ReportStakingWithdrawRequest(r.reporter, r.amount, r.address)
    \/ r.kind = "withdraw" /\ ReportStakeWithdrawn(r.reporter, r.amount)
    \/ r.kind = "slash" /\ ReportSlash(r.reporter, r.amount)

(* The handler of r changes the stake itself, and pays what is due on it.  *)
ChangesStake(r) ==
    \/ r.kind \in {"deposit", "request"}
    \/ r.kind = "slash" /\ staker[r.reporter] # None /\ staker[r.reporter].locked_balance < r.amount

(* The known reasons to refuse a report: the rewards have run out, with    *)
(* the rounding of a staker who is new counted in, the reward due is too   *)
(* small to open the staker's account, a stake made for the account from   *)
(* another address, and a withdrawal that took less time to arrive than    *)
(* the request before it, so that the pallet has not counted seven days    *)
(* yet.                                                                    *)
Excuse(r, exists) ==
    \/ ChangesStake(r) /\ ~RewardsFundedFor(Cardinality(Stakers \cup {r.reporter}))
    \/ ChangesStake(r) /\ staker[r.reporter] # None /\ ~CanBePaid(r.reporter, exists)
    \/ /\ r.kind \in {"deposit", "request"} /\ staker[r.reporter] # None
       /\ r.address # staker[r.reporter].address
    \/ /\ r.kind = "withdraw" /\ staker[r.reporter] # None
       /\ now - staker[r.reporter].start_date < WithdrawalPeriod

Deliver ==
    /\ inFlight # <<>>
    /\ Handle(Head(inFlight))
    /\ inFlight' = Tail(inFlight)
    /\ UNCHANGED <<registered, palletBalance, subAccounts, ledger, lost, excused>>

Refuse ==
    /\ inFlight # <<>>
    /\ \E exists \in BOOLEAN :
          /\ HandlerResult(Head(inFlight), exists) = Failed
          /\ excused' = (excused \/ Excuse(Head(inFlight), exists))
    /\ inFlight' = Tail(inFlight)
    /\ UNCHANGED <<stakingVars, registered, palletBalance, subAccounts, ledger, lost>>

Lose ==
    /\ inFlight # <<>> /\ lost < Losses
    /\ inFlight' = Tail(inFlight)
    /\ lost' = lost + 1
    /\ excused' = TRUE
    /\ UNCHANGED <<stakingVars, registered, palletBalance, subAccounts, ledger>>

PalletStep ==
    /\ RewardStep \/ VoteStep \/ UpdateStakeAmount \/ AdvanceTime
    /\ UNCHANGED bridgeVars

BridgeNext == Register \/ ContractStep \/ Deliver \/ Refuse \/ Lose \/ PalletStep

BridgeSpec == BridgeInit /\ [][BridgeNext]_allVars

-----------------------------------------------------------------------------
(* The pallet's copy of a stake. *)
Copy(a) ==
    IF staker[a] = None THEN [staked |-> 0, locked |-> 0]
    ELSE [staked |-> staker[a].staked_balance, locked |-> staker[a].locked_balance]

(* The copy with the reports on their way applied to it, one by one. *)
Delivered(a) ==
    LET copy[n \in 0..Len(inFlight)] ==
          IF n = 0 THEN Copy(a)
          ELSE IF inFlight[n].reporter = a THEN After(copy[n - 1], inFlight[n])
          ELSE copy[n - 1]
    IN copy[Len(inFlight)]

(* However late the reports arrive, the copy and the contract stay in      *)
(* step: with the reports on their way applied, the copy is the contract's *)
(* ledger.  Only a lost report, rewards that have run out, a reward too    *)
(* small to open the staker's account, a stake from another address and a  *)
(* withdrawal that overtakes its request's seven days end this.            *)
CopyInStep ==
    ~excused =>
        \A a \in Account :
            Delivered(a) = [staked |-> ledger[a].staked, locked |-> ledger[a].locked]

(* What a report that had no effect does to the pallet's own books: the    *)
(* totals rewards are computed from keep matching the copies, but          *)
(* ToWithdraw may fall short of what they have locked, because a later     *)
(* withdrawal of less than the copy's locked balance takes all of it out.  *)
TotalsSurviveLoss ==
    LET locked == SumFunction(LockedBalances)
    IN /\ pool.total_stake_amount = SumFunction(StakedBalances)
       /\ pool.total_reward_debt = SumFunction(RewardDebts)
       /\ pool.total_stakers = Cardinality({a \in Stakers : staker[a].staked})
       /\ pool.to_withdraw <= locked
       /\ ~excused => pool.to_withdraw = locked
=============================================================================
