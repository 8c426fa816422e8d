# Verification of the Tellor pallet

TLA+ models of the Tellor pallet (`src/src`), a Substrate pallet that gives a parachain an oracle: reporters
submit values for query identifiers, users tip for them, anybody may dispute a fresh value, and disputes are
voted on here and decided by governance and staking contracts on another chain, reached over XCM. The modules
are model-checked with TLC on small instances; every safety property that passes there is also proved with TLAPS,
for every instance. Two abstract specifications, what a consumer is promised and how a dispute may go, are shown to be
implemented by the detailed ones.

## 1. Inventory

| Component | State | Operations | Talks to |
| --- | --- | --- | --- |
| Report store | `Reports`, `ReportedTimestampsByIndex`, `ReportedTimestampCount`, `ReportedValuesByTimestamp`, `LastReportedTimestamp`, `TimeOfLastNewValue`, the reporter fields of `StakerDetails` | `submit_value`, `remove_value` | read by every other component; `remove_value` is called by `begin_dispute` |
| Look-ups by time | none of its own | `get_current_value`, `get_data_before`, `get_data_after`, `get_multiple_values_before` | read the store; used by consumers, feeds, stake amount and dispute fee |
| Disputes and votes | `VoteInfo`, `VoteRounds`, `Votes`, `DisputeInfo`, `OpenDisputesOnId`, `PendingVotes`, `VoteCount`, `VoteTallyByAddress`, `DisputeFee`, the dispute fees sub-account | `begin_dispute`, `vote`, `vote_on_multiple_disputes`, `send_votes`, `report_vote_tallied`, `report_vote_executed`, part of `on_initialize` | the store; the governance contract (XCM out, calls back) |
| One-time tips | `Tips`, `TipCount`, `QueryIdsWithFunding`, `UserTipsTotal`, the tips sub-account | `tip`, `claim_onetime_tip` | the store; pays a fee to staking rewards |
| Data feeds | `DataFeeds`, `FeedsWithFunding`, `DataFeedRewardClaimed`, `UserTipsTotal`, the tips sub-account | `setup_data_feed`, `fund_feed`, `claim_tip` | the store and its look-ups; pays a fee to staking rewards |
| Staking | `StakerDetails`, `TotalStakeAmount`, `TotalStakers`, `ToWithdraw`, `AccumulatedRewardPerShare`, `RewardRate`, `TotalRewardDebt`, `TimeOfLastAllocation`, the staking sub-account | `report_stake_deposited`, `report_staking_withdraw_request`, `report_stake_withdrawn`, `report_slash`, `add_staking_rewards` | the staking contract's messages; `VoteCount` and `VoteTallyByAddress` for the reward of voting stakers |
| Stake amount and dispute fee | `StakeAmount`, `DisputeFee`, `LastStakeAmountUpdate` | `update_stake_amount`, part of `on_initialize` | look-ups of two price feeds |
| Registration | the endowments of the three sub-accounts | `register` | the registry contract |
| Sample consumer (`using-tellor`) | `Configuration`, `Values` | `configure`, `do_something` | reads the oracle through `get_data_before` |
| Encodings, weights, traits, runtime API | none | - | - |

**What is hard.** Every call is transactional and calls do not overlap, so the difficulty is not in memory races
but in long sequences of legal calls by parties who do not coordinate, in time boundaries, and in two chains that
only exchange messages:

* disputes remove values from the middle of a linked time series, in any order, while it grows;
* claims, price updates and disputes meet at the 12 hour boundary, where one side uses `<` and the other `>`;
* binary searches run over a series of which some entries are disputed;
* a dispute has up to 20 rounds; the round is implied, not named, in the messages to and from the contract; an XCM
  send may fail and is retried by later blocks, three per block;
* controller messages arrive late, repeated, in any order or never, and the contracts do not learn whether the pallet
  applied them;
* two prices update two amounts that must fit together, while the prices themselves may be disputed;
* one fees account, one tips account and one staking rewards account are shared by all disputes, tips and stakers;
* counters and lists (`OpenDisputesOnId`, `QueryIdsWithFunding`, `ToWithdraw`) duplicate what other storage says.

`PROJECT.json` lists these hazards one by one, at the line where each bites, with the property that would catch it.

## 2. Modules

| Module | Models | Extends |
| --- | --- | --- |
| `OracleSeries` | abstract: what a consumer is promised of a series | - |
| `Reports` | the report store; implements `OracleSeries` | - |
| `ReportLookup` | the look-ups by time, each with its reference definition | `Reports` |
| `UsingTellor` | the sample consumer pallet | `ReportLookup` |
| `DisputeLifecycle` | abstract: the life of disputes | - |
| `Governance` | disputes, rounds, votes, sending, fees, the controller's messages; implements `DisputeLifecycle` | `Reports` |
| `OnetimeTips` | tips and claims | `Reports` |
| `DataFeeds` | data feeds and their claims, next to one-time tips | `OnetimeTips` |
| `TokenDecimals` | conversion between the staking and the local token | - |
| `StakeAmount` | stake amount and dispute fee, updated from two reported prices | `ReportLookup`, `TokenDecimals` |
| `Staking` | stakes as the staking contract reports them, rewards | `TokenDecimals` |
| `StakingBridge` | `Staking` next to the staking contract: registration, late, lost and refused reports | `Staking` |
| `SumTheorems` | lemmas about sums over functions, loops written as recursive functions, powers | `TLAPS` |
| `ReportsProofs` | theorems about `Reports`, its refinement of `OracleSeries` | `Reports`, `TLAPS` |
| `LookupProofs` | theorems about `ReportLookup` | `ReportLookup`, `ReportsProofs`, `SumTheorems` |
| `ConsumerProofs` | theorems about `UsingTellor` and `StakeAmount`, the readers of the store | `UsingTellor`, `StakeAmount`, `LookupProofs` |
| `GovernanceProofs` | theorems about `Governance`, its refinements | `Governance`, `ReportsProofs`, `SumTheorems` |
| `StakingProofs` | theorems about `Staking` | `Staking`, `SumTheorems` |
| `BridgeProofs` | theorems about `StakingBridge` | `StakingBridge`, `StakingProofs` |
| `TipsProofs` | theorems about `OnetimeTips` and `DataFeeds`, which share the tips account | `DataFeeds`, `ReportsProofs`, `SumTheorems` |
| `MC*` | instances for TLC | - |

**Conventions.** An action is one dispatchable or hook, with everything it calls. A call that returns `Err` leaves
storage as it was, so it is a stuttering step; the guards of an action are the code's checks. Operators named as
variants (their comment starts with "Variant:") are wrong on purpose: each replaces the definition that follows it
to show that a property notices. A value's bytes are abstracted to whether the value can be read; a dispute
identifier, which is a hash of query identifier and timestamp, is that pair.

### Reports

`SubmitValue` is `submit_value` past its checks of the input's form: the reporting lock in thousandths divided by the
stake multiple, the refusal of a second report at the same timestamp, the append and the reporter's records. The
multiple `staked_balance / StakeAmount` is an input, so any history of stakes and stake amounts is covered.
`RemoveValue` is `remove_value`: the report is marked, `LastReportedTimestamp` steps back if it named it, and the loop
repoints the following reports up to and including the next undisputed one, failing after `MaxDisputedTimeSeries`
iterations. `RemoveValueStep` is what `begin_dispute` does to the store. `AdvanceTime` is the timestamp inherent,
external to the pallet.

`OracleSeries` is the store as a consumer sees it: values become readable in order of time, a value may be retracted only while it is young,
never comes back, and the current value is always the latest readable one. The refinement maps `readable` to `ReportedValuesByTimestamp`
and `current` to `LastReportedTimestamp`; indices, back pointers and the repair loop disappear.

### ReportLookup

The two binary searches are recursive functions with the loop's variables as arguments; a `?` on a missing entry is
`None`. `Kept` is both loops of `get_multiple_values_before`: the first goes back over the indices of the range (`Backwards`) and keeps
undisputed timestamps up to `max_count`, the second goes over these in reverse and keeps those whose value is found. Invariants compare them with set definitions over every time and every reachable series.

### UsingTellor

The sample pallet's two dispatchables next to the store. The number a value converts to is the time it was reported at, so that numbers tell
reports apart; some values do not convert. `readAt` is a history variable. `DerivedFromLatest` says what a stored number rests on, and
that only a report as old as the reporting lock is safe from later disputes: the fifteen minutes of `get_price` are not.

### Governance

`voteInfo[d]` is the sequence of a dispute's rounds (`VoteInfo` and `VoteRounds`), with the voters of a round
(`Votes`) in it. `BeginDispute` and `BeginNextRound` are the two branches of `begin_dispute`; both end in `OpenRound`.
`SendBatch` is the body of `do_send_votes`; the set `accepted` says which sends XCM takes. `NewBlock` is
`on_initialize` (which still sees the previous block's time) followed by the new block's timestamp. The dispute fee
may become any member of `DisputeFees` at each block: when and how it changes is the stake amount component's. The messages
handed to XCM are kept per dispute in `outbox`. `ReportVoteTallied` and `ReportVoteExecuted` may happen whenever their
guards allow, as often as they allow: the controller is not trusted to be timely.

`DisputeLifecycle` keeps of a dispute only its rounds' outcomes and whether it was executed: a round is opened and decided once, a decided
round may be followed by another up to a limit, and the outcome of the last is executed once. Messages, dates, fees and queue disappear in the mapping.

### OnetimeTips

`tips[q]` is the sequence of `Tips` entries. `WithTip` merges a tip into the last entry as `tip` does; `MayClaim`,
`TipAmount` and `Claimed` are the three parts of `get_onetime_tip_amount`; `ClaimBatch` is the loop of
`claim_onetime_tip`, in which a claim sees what the previous ones of the batch left. `paid` is a history variable.

### DataFeeds

`feeds` maps an existing feed to its balance; a feed identifier, a hash, is the pair of query and parameters.
`Rewarded` and `RewardAmount` are the checks and the amount of `do_get_reward_amount`; `ClaimFeedBatch` is the loop of
`claim_tip`, in which only the last timestamp may exhaust the feed; `GetRewardAmount` is the quote `get_reward_amount`
gives. `claimed` is `DataFeedRewardClaimed` with the amount credited added as history. `SubmitNumber` is `submit_value` with the number
the value converts to, `None` when it does not convert. Both one-time tips and feeds pay from `tipsBalance`.

### Staking

`staker` holds the staking fields of `StakerDetails`, `pool` the storage values of staking with the balance of the
rewards account. `UpdateRewards` is `update_rewards`, `UpdateStake` is `update_stake_and_pay_rewards`; they map a pool
to a pool or to `Failed`, so that a handler that fails half-way has no effect, as in the code. `Convert` and `Granted` keep the
order of divisions of the code, because the properties are about what rounding loses. Dispute rounds, votes and
the stake amount change as inputs. `requested` is a history variable. Whether the staker's own account on this chain exists when a report
arrives is an input too, `exists`: the payment of a reward fails on the sender's side when it would leave the rewards account less than its existential deposit, and on
the receiver's (`CanReceive`) when there is no account and the reward is too small to open one.

### StakeAmount

`SettledPrice` is the first half of `do_update_stake_amount` and of `update_dispute_fee`: the latest undisputed report of more than
twelve hours ago, `None` when there is none or its price is out of range. `UpdateAmounts` is both updates; either is undone when the other fails, in the
call because it is transactional and in the hook because of its storage layer. `NewBlock` is `on_initialize`, which sees the previous block's time, and
the new timestamp.

### StakingBridge

`Register` is `register`. The contract's side (external: `After`, `ContractChanges`, `ContractStep`) changes `ledger` and appends a report to `inFlight`;
`Deliver` applies the first report with the handlers of `Staking`, `Refuse` drops one whose handler fails, `Lose` drops any. `excused` records that a
report had no effect for one of five reasons: it was lost, the rewards had run out (finding 3), the reward due was too small to open the staker's
own account, it named another address than the account's first stake, or it was a withdrawal that came faster than its request, so that the pallet has not counted
seven days. Rewards have run out when they lack the reserve for one rounding per staker, the report's own account counted in: a first deposit splits the total once more. The two
reasons about rewards count only for a report that changes the stake itself (`ChangesStake`); a slash within the locked balance and a withdrawal pay nothing.
`CopyInStep` says there is no sixth reason; `Delivered` is the copy with the reports on their way applied.

## 3. Runs

| Run | Instance | Checks |
| --- | --- | --- |
| `reports` | 2 queries, 2 reporters, lock of 4 time units, multiples 1, 2 and 5, 5 instants, repair limit 2 | the store's invariants; settled reports never change; the store implements `OracleSeries` (`ConsumerView`) |
| `lookups` | 1 query, up to 7 reports, any disputes, 1 consumer | searches = reference definitions at all times; answers about settled times are final; what the consumer stores follows from a fresh undisputed report |
| `dispute_rounds` | 1 report, 2 rounds, base fees 1 and 2, 1 voter, sends of 0 or 1 | order of rounds, queue, messages, fees; implements `DisputeLifecycle`; the store sees only its own steps (`ReportsSpec`) |
| `concurrent_disputes` | 2 reports of one query, 2 rounds, fees 1 and 3, one place per block, failing sends | counter of open disputes; contents of the fees account; liveness: a due vote is sent |
| `send_votes_doc` | 2 queries, 2 rounds, one place per block | violated: votes are sent after their voting period |
| `onetime_tips` | 1 query, 4 reports, tips of 1 and 2 up to 4, batches of up to 2 | claims are covered, at most once, and due claims pass |
| `tips_paid_in_full` | same | violated: a first tip is lost to a dispute |
| `data_feeds` | 1 query, 1 account, 3 reports, 2 feeds (one with a price threshold), batches of up to 2 | the tips account covers feeds and tips; an interval is paid once; the quote is paid; the list of funded feeds |
| `stake_amount` | 2 price queries of 2 reports each, prices 10, 20 and 30 (out of range), 6 instants | both amounts come from one instant's settled prices; settled prices come into force |
| `staking` | 2 stakers, deposits and slashes of 15, requests of 10, a local unit of 10, existential deposit 2, 3 instants | totals, rewards covered, no report refused with enough rewards and an account that can receive them, seven days' wait |
| `slash_applies` | same | violated: a slash is refused because the reward due cannot be paid |
| `staking_bridge` | 1 staker, 2 addresses (symmetric), existential deposit 2, 2 reports in flight, 1 loss, 3 instants | the copy follows the contract's ledger; the pallet's totals after a report without effect |

**Bounds.** `MaxTime`, `MaxReports` and `MaxTipped` only bound the exploration. Time units are chosen so that every
boundary is met: in `reports` and `lookups` the lock is four units, so a report can be one unit before, at and one unit after the end of its
dispute period, and the lock at multiple 5 is below one unit; the repair limit of 2 is reached. The consumer's delay is one unit and its day five, so
prices just before, at and past the lock and past the day are met. In the governance
instances a unit is half a day: the lock is 1, sending is due after 1, a round lasts `min(2r, 3)`, an appeal is possible for 2;
so all of "vote, send, tally, appeal, second round, execution" happens in 7 units. Two rounds are enough to meet
every interaction between a round and its predecessor; rounds further back are not touched by the code except to
read their fee. The fee's cap of ten base fees needs five rounds and is met by the proofs only. In `onetime_tips` four reports allow two adjacent disputed reports between two undisputed ones.
In `data_feeds` one time unit is six hours of the claim buffer, so a report can be too fresh, claimable or expired, and
the feeds' windows admit two reports of one interval as well as rewards that sum to more than a feed's balance.
Values that do not convert to a number are left out of the instance for its size. In `staking` amounts of 15 and 10 at ten to a
local unit make the conversion lose up to half of a stake; rewards of up to 7, the existential deposit included, run out after two units, the period they are spread
over, and a withdrawal has to wait one. The existential deposit is 2 so that a reward of 1 cannot open a staker's account. In this run withdrawals are of the whole locked balance, which is what a copy in step with the contract sees;
`staking_bridge` explores the partial ones that follow a lost slash, and the refused ones that follow a late request.
There requests are of 15 and slashes of 20, so that a slash may take from both balances and exceed what is left. A copy that has fallen behind for good would grow with every further deposit; the contract's deposits are bounded by the copy's total as well.
One staker is enough there, because a handler touches one staker and the shared totals, whose sums over two the run `staking` checks.
In `stake_amount` the lock and the settling period are two units, the update interval of one is raised to that floor, and prices lie
in the range from 10 up to, not including, 30; values that are no numbers take the same path as prices out of range and are left out.
Deadlock is not checked where the clock's bound ends all behaviour; the governance instances keep producing blocks
and are checked for deadlock.

**Fairness.** `concurrent_disputes` and `send_votes_doc` assume weak fairness of `HealthyBlock`, a block in which
XCM accepts what `on_initialize` sends. Blocks are produced by the chain and `on_initialize` runs in each; that the
transport recovers is an assumption about the environment, and without it nothing can be promised. It says that some blocks see a transport that takes
whatever is sent: votes that fail for ever while others would be accepted, and so keep the places of the oldest, are excluded. All votes go to one destination in messages of one form. `stake_amount` assumes weak fairness
of `Block` alone. No fairness is assumed of users, of `send_votes`, of `update_stake_amount` or of the controller.

**Findings.** (1) `README.md` says `send_votes` works "provided the voting period hasn't elapsed"; `do_send_votes`
checks no such thing, and a vote delayed by XCM or by full blocks is sent after the period, even after the tally.
(2) When a disputed report's tips include the query's very first tip and an undisputed, untipped report is older,
the claim of the next report skips that first tip, which then stays in the tips account for good.
(3) `report_slash` pays the staker's pending reward first. Rates and rewards are computed from the whole balance of the rewards account, its
existential deposit included, and when the rewards run out all of it is granted to the stakers; the last one cannot be paid, and its slash (or deposit, or
withdrawal request) is refused until somebody adds rewards. The shortest trace needs no rewards at all: the endowment is shared out. `ReportsApplyWhenFunded` shows
that of a slash, a deposit or a request within the stake, for a known staker and its address, only one other thing is refused: a change of stake while the reward due is
below the existential deposit and the staker has no account on this chain.

Not a finding, but worth knowing: a query whose tip becomes current again because the report that had earned it is disputed is not
listed by `get_funded_query_ids` if a claim had delisted it. And a round that is superseded by an appeal before its votes were sent, because XCM failed
since, stays unsent in `VoteInfo` for good: `PendingIffUnsent` is about the latest round, and `VoteMessagesMatchRounds` says that no later message carries the old round's votes.

## 4. Proofs

The theorems hold for every value of the constants that satisfies the assumptions stated where the constants are declared
(`ReportsAssumption`, `GovernanceAssumption`, `LookupAssumption`, `StakeAmountAssumption`, `DecimalsAssumption`, `StakingAssumption`,
`BridgeAssumption`, `TipsAssumption`, `FeedsAssumption`). Most say that a number
is natural or not zero, as its type in the code does; `None` and `Failed` are no stored values; `SettlePeriod >= ReportingLock` are the two
twelve-hour constants, and `Day <= StartTime` says that the chain's clock is past its first day. `ClaimBuffer >= ReportingLock` are two more twelve-hour constants, `Fee` is at most the
whole, and for the tips account, which sums over all queries, there are finitely many query identifiers (they are 32 bytes). Otherwise sets of queries and accounts, amounts,
decimals, limits and bounds are arbitrary; the other sums run over stakers, disputes, reports or feeds, of which the invariants say that there are finitely many.

**Sums and loops** (`SumTheorems`). The prover cannot instantiate an induction schema, so induction is done in
first-order form: the set of numbers at which a claim fails has a least member, and that member is refuted. In this form follow what a
sum over a function becomes when one entry is added or changed, that a sum is the sum of its parts and bounds each entry, that powers are positive, and
`LoopResult`: a tail-recursive function with a measure that falls returns what its loop invariant says.

**The report store** (`ReportsProofs`). The inductive invariant `ReportsInv` is the conjunction of the store's invariants and its types. They need one another: `remove_value` finds the reports to repair by index, so
the back pointers rest on the index being one to one and ordered; that the first undisputed report
after the disputed one is the last whose pointer can have named it rests on the pointers being right before the step; and
that a settled report is out of the loop's reach rests on the index being ordered by time: the loop only touches
later reports than the disputed one, which is itself younger than the lock. `SubmitEffect` and `RemoveEffect` say what a
submission and a removal do to the series in terms of reports and times; `SubmitInv`, `RemoveInv` and `ClockInv`
show that each kind of step keeps the invariant. `ReportsSpacedByLock` has an invariant of its own, `ReporterInv`: a reporter's
last timestamp is not before any of its reports, nor after the clock. `ConsumerViewCorrect` is the refinement of `OracleSeries`: a submission publishes, a
removal retracts a value younger than the lock, everything else stutters.

**Look-ups** (`LookupProofs`). Each binary search keeps the reports between its bounds' neighbours apart from the searched time, and each walk over
disputed reports skips disputed reports only; with the ordered index of `ReportsInv` the result is the latest
(earliest) undisputed report on its side of the time (`DataBeforeCorrect`, `DataAfterCorrect`). `MultipleValuesCorrect` joins the two: the searches
bound the range, so its undisputed reports are those between the two indices (`UndisputedBetween`); going back over them, the first loop holds at every turn what is
undisputed of the times seen (`KeptDecreasing`) and stops early only at the limit, so that what it keeps are the latest (`KeptAreLatest`: an element is kept
exactly if fewer than `max_count` are later); all of these have values, so the second loop loses none (`KeptAll`). That answers about settled times are final
(`SettledDataCorrect`) follows from the reference definition and `ReportSettledStep`: no step adds, removes or disputes a settled report.

**The readers** (`ConsumerProofs`). Both specifications implement `ReportsSpec`, so the store's theorems apply to them. `UsingInv` says which report a
stored number rests on and that it was read in the past; the look-up theorem gives it at the read, `ReportSettledStep` keeps it. `PricedInv` adds to `AmountsExplained`
that exactly the reports have prices: an update takes both prices at one settled instant, and no later step changes what is settled.

**Disputes** (`GovernanceProofs`). `GovInv` joins `ReportsInv` with the types of `Governance`, `DisputedIffVoted`, `RoundsInOrder` and
`PendingIffUnsent`, and that only finitely many disputes exist. Each action is first shown to have an effect on
rounds and queue (`Opened` and its siblings), then each effect to keep the invariant. `ReportsRefined` and `LifecycleRefined` are the two refinements. `OpenDisputesCounted` and
`FeesHeld` are sums over disputes: a step changes one entry and the counter or the account by as much. `ExecutionAlwaysFunded` follows: the account can
pay whatever an execution owes. `FeesSettled` and `VoteMessagesMatchRounds` are inductive next to `GovInv`, the first
account by account, the second dispute by dispute.

**Staking** (`StakingProofs`). `StakesInv` joins the types, the totals of stakes and debts, `RewardsCovered`, that no staker's votes began after the current count, that
no request is dated after its staker's start date, and that stakers are finitely many; every handler keeps it. `StakingInv` adds that `ToWithdraw` is what is locked
(`Shortfall = 0`), which holds as long as withdrawals are of the whole locked balance.
* Totals: a report changes one staker; each sum changes by the difference, as each total does. `UpdateStake` first takes the old stake out and then puts the new one in, so that
  no subtraction goes below zero.
* Rewards: what the accumulator grants to a stake (`Granted`) grows with the accumulator and is superadditive: two stakes are granted no more apart than together. So the pending rewards
  of all stakers sum to at most `Accrued`, what the code computes from the totals, and `update_rewards` never lets that exceed the balance. A payment takes at most the staker's own pending
  reward, and leaves the staker none.
* `ReportsApply`: taking a stake out and putting another in can lose at most `accumulated_reward_per_share \div Unit + 2` to rounding, so with two or more stakers
  the reserve of `RewardsFunded` covers the loss, and a lone staker loses nothing. One rounding per staker is enough, where the account
  of a first deposit counts as one (`FundedWith`). With that `update_stake_and_pay_rewards` fails only if the receiver cannot be paid (`Payable`); what the handlers would pay is
  `RewardDue`, because the amount to withdraw, the locked balance and the votes of a stake of zero do not enter it (`PayableSame`).
* `WithdrawalsWait` follows from the dates: a request sets both dates, a deposit only the later one.

**The staking contract and its copy** (`BridgeProofs`). `CopyInStep` is not inductive: that the copy becomes the ledger says nothing about whether a handler will accept what is on its way.
`BridgeInv` therefore says that, while no report is missing, the reports in flight lead (`Leads`) from the copy of each stake to the contract's ledger and that each of them is `Accepted` by the stake it will meet:
a request is covered, a withdrawal is of all that is locked, a slash finds something.
* `ContractInv`: the contract's step extends the chain at its end by a change the ledger accepts. `DeliverInv`: a handler does to the copy what `After` does
  to the ledger (`HandleInv`), which takes the first report off the chain; the withdrawal is then complete, so `ToWithdraw` stays what is locked.
* `RefuseInv`: an accepted report that is refused without an excuse would contradict the lemma behind `ReportsApply` (`RefusedForAReason`). `LoseInv`: a loss is an excuse, and nothing is promised of the
  chain after it.
* `DeliveredLeads`: the stakes that follow a chain are unique, so `Delivered` is the end of the chain, the ledger (`CopyFollows`).
* After an excuse `StakesInv` and `Shortfall >= 0` remain: a withdrawal of a part takes all of the locked balance out of `ToWithdraw`, never more than there is
  (`TotalsAfterLoss`).

**One-time tips** (`TipsProofs`). `TipsInv` joins `ReportsInv`, the types and, for each query, its `Books`: the tips are in order of time and each is whole or claimed; a tip is claimed
exactly if the report that earned it is paid; only settled undisputed reports are paid, each at most what it is due.
* `TipSearchFinds`: the binary search returns the last tip no later than the time searched. Hence a report's grant (`GrantedWithinDue`) is at most the tips given since
  the previous undisputed report, with or without the second search for tips of disputed reports in between.
* `ClaimKeepsBooks` and `BatchKeepsBooks` go through a batch claim by claim: each leaves books that the next one may rely on. `TipKeepsBooks`: a tip is merged only
  while no undisputed report is as late as the last tip, so that the last tip cannot have been claimed. `ReportKeepsBooks`: submissions and disputes do not touch settled
  reports, and only those are paid.
* The account: what undisputed reports are due telescopes (`DuesTelescope`), because each is due the tips since the one before it. Together they are due the tips up to the
  last report, so payments and open dues never exceed what was given. With that the account holds its endowment and exactly the tips not paid out
  (`AccountHolds`), which also shows that no payment leaves a remainder below the existential deposit.

**Data feeds** (`TipsProofs`). `FeedsInv` adds to `TipsInv` that feeds are listed exactly while they have a balance, that every claimed report was rightly paid (`PaidFor`), and that
the account holds the feeds' balances on top of the tips. `PaidFor` stays true because a claimed report is settled, and so are the report before it and both values. `FeedBatch`
goes through the loop of `claim_tip`: the reward is the sum of the quoted rewards, cut to the balance, and the feed is exhausted exactly if the reward is all of it.
`OnePaidPerWindow` follows from the back pointers: the earlier of two paid reports in an interval is undisputed, so the later one's pointer is not before it, and its
window is taken. The quote equals the payment because the balance does not change within a batch and the two cuts agree.

**Only model-checked.**
* Liveness: `DueVotesAreSent`, `DuePricesApply`. The prover supports neither fairness nor `ENABLED`.
* That the three properties of the violated runs do not hold is shown by TLC's counterexamples.

## 5. Not modelled

* What one module takes from another as an input: `Reports` takes the stake multiple, `Governance` the
  dispute fee and the users' tip totals, `Staking` the stake amount and the votes; claims in `OnetimeTips` and `DataFeeds`
  transfer their fee to the rewards account without the update of the reward rate, which is `AddStakingRewards`.
* The undoing of a call that fails half-way, such as a `begin_dispute` whose message is not accepted: FRAME's storage layers do it, and the models assume it by making a call one
  step.
* The users' accounts beyond what the pallet moves. `Staking` takes whether a staker's account exists as an input, because a report of the contract is lost by a failed payment; in
  `Governance` and in the tip modules payments go to accounts that exist. A claim or an execution (`src/src/impls.rs:474`) whose payment below the existential deposit meets an account that is gone returns an
  error and changes nothing; it is accepted if it is sent again once the account exists.
* The ABI and XCM encodings, the weight and fee of a message, weights, benchmarks, mock runtime, consumer traits and runtime API: conversions and
  forwarding without state. The simple getters only return stored items.
* The controller contracts: external. Of governance only what it may send is modelled, of staking the ledger its reports are about.

## 6. Plan

What is left: a composition of governance and staking over one controller, in which a slash reaches the reporter of the disputed
report and the seven-day withdrawal outlasts the rounds it must.
