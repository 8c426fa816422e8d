---------------------------- MODULE StakingProofs ----------------------------
(***************************************************************************)
(* Proofs about Staking, for any accounts, decimals, periods and amounts:  *)
(* the totals of the pool are the sums over the stakers, the rewards       *)
(* account covers what they have accrued, a report of the staking contract *)
(* is applied whenever the rewards are funded, and withdrawals wait.       *)
(*                                                                         *)
(* What the accumulator grants is a product that is divided twice, each    *)
(* time rounding down.  The proofs use it only through a few bounds: it    *)
(* grows with the accumulator, grants to two stakes no more apart than     *)
(* together, and loses little when two stakes are put together.            *)
(***************************************************************************)
EXTENDS Staking, SumTheorems

-----------------------------------------------------------------------------
(* Powers of ten are positive, so no conversion divides by zero. *)
LEMMA TenToThePositive == \A n \in Nat : TenToThe[n] \in Nat \ {0}
<1>1. 10 \in Nat \ {0}
  OBVIOUS
<1>2. TenToThe = CHOOSE g : g = [n \in Nat |-> IF n = 0 THEN 1 ELSE 10 * g[n - 1]]
  BY DEF TenToThe
<1>3. QED
  BY <1>1, <1>2, PowersPositive

(* The local unit is not zero. *)
LEMMA UnitPositive == Unit \in Nat \ {0}
  BY TenToThePositive, DecimalsAssumption DEF Unit

(* Putting two quotients together loses nothing and gains at most one. *)
LEMMA QuotientOfSum ==
    ASSUME NEW k \in Nat \ {0}, NEW m \in Nat, NEW n \in Nat
    PROVE  /\ m \div k \in Nat /\ n \div k \in Nat /\ (m + n) \div k \in Nat
           /\ (m \div k) + (n \div k) <= (m + n) \div k
           /\ (m + n) \div k <= (m \div k) + (n \div k) + 1
  OBVIOUS

(* A product of natural numbers grows with either factor. *)
LEMMA ProductGrows ==
    ASSUME NEW m \in Nat, NEW n \in Nat, NEW k \in Nat, m <= n
    PROVE  /\ m * k \in Nat /\ n * k \in Nat /\ m * k <= n * k
           /\ k * m \in Nat /\ k * n \in Nat /\ k * m <= k * n
  OBVIOUS

(* Division keeps the order. *)
LEMMA QuotientGrows ==
    ASSUME NEW k \in Nat \ {0}, NEW m \in Nat, NEW n \in Nat, m <= n
    PROVE  m \div k \in Nat /\ n \div k \in Nat /\ m \div k <= n \div k
  OBVIOUS

(* The conversion to local decimals of two stakes, apart and together. *)
LEMMA ConvertOfSum ==
    ASSUME NEW m \in Nat, NEW n \in Nat
    PROVE  /\ Convert(m) \in Nat /\ Convert(0) = 0
           /\ Convert(m) + Convert(n) <= Convert(m + n)
           /\ Convert(m + n) <= Convert(m) + Convert(n) + 1
<1>1. CASE DECIMALS > Decimals
  <2>1. DECIMALS - Decimals \in Nat
    BY <1>1, DecimalsAssumption
  <2>2. PICK k \in Nat \ {0} : k = TenToThe[DECIMALS - Decimals]
    BY <2>1, TenToThePositive
  <2>3. \A x : Convert(x) = x \div k
    BY <1>1, <2>2 DEF Convert
  <2>4. 0 \div k = 0
    OBVIOUS
  <2>5. /\ m \div k \in Nat /\ (m \div k) + (n \div k) <= (m + n) \div k
        /\ (m + n) \div k <= (m \div k) + (n \div k) + 1
    BY QuotientOfSum
  <2>6. QED
    BY <2>3, <2>4, <2>5
<1>2. CASE ~(DECIMALS > Decimals)
  <2>1. Decimals - DECIMALS \in Nat
    BY <1>2, DecimalsAssumption
  <2>2. PICK k \in Nat \ {0} : k = TenToThe[Decimals - DECIMALS]
    BY <2>1, TenToThePositive
  <2>3. \A x : Convert(x) = x * k
    BY <1>2, <2>2 DEF Convert
  <2>4. m * k \in Nat /\ n * k \in Nat /\ (m + n) * k = m * k + n * k
    OBVIOUS
  <2>5. QED
    BY <2>3, <2>4
<1>3. QED
  BY <1>1, <1>2

(* A stake of zero is granted nothing, every grant is a natural number. *)
LEMMA GrantedNat ==
    ASSUME NEW acc \in Nat, NEW m \in Nat
    PROVE  Granted(acc, m) \in Nat /\ Granted(acc, 0) = 0
<1>1. PICK c \in Nat : c = Convert(m)
  BY ConvertOfSum
<1>2. PICK u \in Nat \ {0} : u = Unit
  BY UnitPositive
<1>3. Convert(0) = 0
  BY ConvertOfSum
<1>4. (acc * c) \div u \in Nat /\ (acc * 0) \div u = 0
  OBVIOUS
<1>5. QED
  BY <1>1, <1>2, <1>3, <1>4 DEF Granted

(* A larger accumulator grants no less. *)
LEMMA GrantedGrows ==
    ASSUME NEW acc \in Nat, NEW more \in Nat, acc <= more, NEW m \in Nat
    PROVE  Granted(acc, m) <= Granted(more, m)
<1>1. PICK c \in Nat : c = Convert(m)
  BY ConvertOfSum
<1>2. PICK u \in Nat \ {0} : u = Unit
  BY UnitPositive
<1>3. acc * c \in Nat /\ more * c \in Nat /\ acc * c <= more * c
  BY ProductGrows
<1>4. (acc * c) \div u <= (more * c) \div u
  BY <1>3, QuotientGrows
<1>5. QED
  BY <1>1, <1>2, <1>4 DEF Granted

(* Two stakes are granted no more apart than together, and together at     *)
(* most one local unit of stake and one rounding more.                     *)
LEMMA GrantedOfSum ==
    ASSUME NEW acc \in Nat, NEW m \in Nat, NEW n \in Nat
    PROVE  /\ Granted(acc, m) + Granted(acc, n) <= Granted(acc, m + n)
           /\ acc \div Unit \in Nat
           /\ Granted(acc, m + n) <= Granted(acc, m) + Granted(acc, n) + (acc \div Unit) + 2
<1>1. PICK c \in Nat, d \in Nat, e \in Nat : c = Convert(m) /\ d = Convert(n) /\ e = Convert(m + n)
  <2>1. Convert(m) \in Nat /\ Convert(n) \in Nat
    BY ConvertOfSum
  <2>2. m + n \in Nat
    OBVIOUS
  <2>3. Convert(m + n) \in Nat
    BY ONLY <2>2, ConvertOfSum
  <2>4. QED
    BY <2>1, <2>3
<1>2. PICK u \in Nat \ {0} : u = Unit
  BY UnitPositive
<1>3. c + d <= e /\ e <= c + d + 1
  BY <1>1, ConvertOfSum
<1>4. PICK A \in Nat, B \in Nat, C \in Nat : A = acc * c /\ B = acc * d /\ C = acc * e
  BY ProductGrows
<1>5. A + B <= C /\ C <= A + B + acc
  <2>1. acc * (c + d) = A + B /\ acc * (c + d + 1) = A + B + acc
    BY <1>4
  <2>2. acc * (c + d) <= acc * e /\ acc * e <= acc * (c + d + 1)
    BY <1>3, ProductGrows
  <2>3. QED
    BY <1>4, <2>1, <2>2
<1>6. /\ A \div u \in Nat /\ B \div u \in Nat /\ C \div u \in Nat /\ acc \div u \in Nat
      /\ (A \div u) + (B \div u) <= (A + B) \div u
      /\ (A + B) \div u <= (A \div u) + (B \div u) + 1
      /\ (A + B) \div u \in Nat
  BY QuotientOfSum
<1>7. (A + B) \div u <= C \div u
  BY <1>5, QuotientGrows
<1>8. C \div u <= (A + B + acc) \div u /\ (A + B + acc) \div u \in Nat
  BY <1>5, QuotientGrows
<1>9. (A + B + acc) \div u <= ((A + B) \div u) + (acc \div u) + 1
  BY QuotientOfSum
<1>10. Granted(acc, m) = A \div u /\ Granted(acc, n) = B \div u /\ Granted(acc, m + n) = C \div u
  BY <1>1, <1>2, <1>4 DEF Granted
<1>11. QED
  BY <1>2, <1>6, <1>7, <1>8, <1>9, <1>10

(* Sharing `left` over a total stake grants it at most `left` more. *)
LEMMA GrantedOfLeft ==
    ASSUME NEW acc \in Nat, NEW left \in Nat, NEW total \in Nat, Convert(total) # 0
    PROVE  /\ (left * Unit) \div Convert(total) \in Nat
           /\ Granted(acc + (left * Unit) \div Convert(total), total) <= Granted(acc, total) + left
<1>1. PICK s \in Nat \ {0} : s = Convert(total)
  BY ConvertOfSum
<1>2. PICK u \in Nat \ {0} : u = Unit
  BY UnitPositive
<1>3. PICK q \in Nat : q = (left * u) \div s
  OBVIOUS
<1>4. q * s <= left * u
  BY <1>3
<1>5. PICK A \in Nat, L \in Nat, Q \in Nat : A = acc * s /\ L = left * u /\ Q = q * s
  BY ProductGrows
<1>6. (acc + q) * s = A + Q
  BY <1>5
<1>7. (A + Q) \div u <= (A + L) \div u
  <2>1. A + Q <= A + L
    BY <1>4, <1>5
  <2>2. QED
    BY <2>1, QuotientGrows
<1>8. (A + L) \div u = (A \div u) + left
  BY <1>5
<1>9. QED
  BY <1>1, <1>2, <1>3, <1>5, <1>6, <1>7, <1>8 DEF Granted

-----------------------------------------------------------------------------
(* The votes counted when a stake was begun are not more than there are.   *)
VotesBegun ==
    \A a \in Stakers : /\ staker[a].start_vote_count <= voteCount
                       /\ staker[a].start_vote_tally <= voteTally[a]

(* A withdrawal request dates the stake it is made for. *)
RequestsDated ==
    \A a \in Account : /\ requested[a] <= now
                       /\ a \in Stakers => requested[a] <= staker[a].start_date

(* The totals that rewards are computed from are the sums over the stakers.*)
StakeTotals ==
    /\ pool.total_stake_amount = SumFunction(StakedBalances)
    /\ pool.total_reward_debt = SumFunction(RewardDebts)
    /\ pool.total_stakers = Cardinality({a \in Stakers : staker[a].staked})

(* By how much ToWithdraw falls short of what the stakers have locked. *)
Shortfall == SumFunction(LockedBalances) - pool.to_withdraw

(* What every report keeps, a withdrawal of a part of what is locked too. *)
StakesInv ==
    /\ StakingTypeOK /\ IsFiniteSet(Stakers)
    /\ StakeTotals /\ RewardsCovered
    /\ VotesBegun /\ RequestsDated

(* The inductive invariant of staking, where withdrawals are complete. *)
StakingInv == StakesInv /\ Shortfall = 0

(* An account is left with a stake and a locked balance, the others as     *)
(* they were.                                                              *)
Restored(a, staked, locked) ==
    /\ a \in Stakers' /\ staker'[a].staked_balance = staked /\ staker'[a].locked_balance = locked
    /\ \A x \in Account \ {a} : staker'[x] = staker[x]

(* A pool that differs from the stored one in what the sums over stakes    *)
(* and debts do not see.                                                   *)
StakesOf(p) ==
    /\ p \in Pool /\ p.time_of_last_allocation <= now
    /\ p.total_stake_amount = SumFunction(StakedBalances)
    /\ p.total_reward_debt = SumFunction(RewardDebts)

(* What the stakers would have pending in such a pool, and that it has it. *)
PendingIn(p) == [a \in Stakers |-> Pending(p, staker[a])]

Covers(p) ==
    /\ \A a \in Stakers : PendingIn(p)[a] >= 0
    /\ p.balance >= SumFunction(PendingIn(p))

(* The types of the parts of a pool and of a staker. *)
LEMMA PoolFields ==
    ASSUME NEW p \in Pool
    PROVE  /\ p.total_stake_amount \in Nat /\ p.total_stakers \in Nat /\ p.to_withdraw \in Nat
           /\ p.accumulated_reward_per_share \in Nat /\ p.reward_rate \in Nat
           /\ p.total_reward_debt \in Nat /\ p.time_of_last_allocation \in Nat
           /\ p.balance \in Nat
  BY DEF Pool

(* The fields of a stake. *)
LEMMA StakerFields ==
    ASSUME NEW s \in StakeInfo
    PROVE  /\ s.address \in Address /\ s.start_date \in Nat /\ s.staked_balance \in Nat
           /\ s.locked_balance \in Nat /\ s.reward_debt \in Nat
           /\ s.start_vote_count \in Nat /\ s.start_vote_tally \in Nat /\ s.staked \in BOOLEAN
  BY DEF StakeInfo

(* A stored stake is one. *)
LEMMA StoredStaker ==
    ASSUME StakingTypeOK, NEW a \in Stakers
    PROVE  a \in Account /\ staker[a] \in StakeInfo
  BY DEF StakingTypeOK, Stakers

(* An amount of rewards shared over a stake is a natural number. *)
LEMMA GrownNat ==
    ASSUME NEW t \in Nat, NEW r \in Nat, NEW s \in Nat \ {0}
    PROVE  (t * r * Unit) \div s \in Nat
<1>1. PICK u \in Nat : u = Unit
  BY UnitPositive
<1>2. t * r \in Nat
  BY ProductGrows
<1>3. PICK m \in Nat : m = t * r * u
  BY <1>2, ProductGrows
<1>4. m \div s \in Nat
  OBVIOUS
<1>5. QED
  BY <1>1, <1>3, <1>4

(* update_rewards changes the accumulator, which grows, the rate and the   *)
(* time only.  If the accumulator grows, the balance covers what is then   *)
(* accrued to the total stake.                                             *)
LEMMA UpdateRewardsResult ==
    ASSUME now \in Nat, NEW p \in Pool, p.time_of_last_allocation <= now, UpdateRewards(p) # Failed
    PROVE  LET q == UpdateRewards(p)
           IN  /\ q \in Pool /\ q.time_of_last_allocation = now
               /\ q.total_stake_amount = p.total_stake_amount
               /\ q.total_stakers = p.total_stakers
               /\ q.to_withdraw = p.to_withdraw
               /\ q.total_reward_debt = p.total_reward_debt
               /\ q.balance = p.balance
               /\ q.accumulated_reward_per_share >= p.accumulated_reward_per_share
               /\ \/ q.accumulated_reward_per_share = p.accumulated_reward_per_share
                  \/ Accrued(q) <= q.balance
<1> DEFINE q == UpdateRewards(p)
           stake == Convert(p.total_stake_amount)
           more == ((now - p.time_of_last_allocation) * p.reward_rate * Unit) \div stake
           grown == [p EXCEPT !.accumulated_reward_per_share = @ + more]
           left == p.balance - Accrued(p)
           share == (left * Unit) \div stake
           exhausted == [p EXCEPT !.accumulated_reward_per_share = @ + share, !.reward_rate = 0]
<1>1. /\ p.total_stake_amount \in Nat /\ p.accumulated_reward_per_share \in Nat
      /\ p.reward_rate \in Nat /\ p.total_reward_debt \in Nat /\ p.time_of_last_allocation \in Nat
      /\ p.balance \in Nat /\ now - p.time_of_last_allocation \in Nat
  BY PoolFields
<1>2. stake \in Nat
  BY <1>1, ConvertOfSum
<1>3. q = IF p.time_of_last_allocation = now THEN p
          ELSE IF stake = 0 \/ p.reward_rate = 0 THEN [p EXCEPT !.time_of_last_allocation = now]
          ELSE IF Accrued(grown) < 0 THEN Failed
          ELSE IF Accrued(grown) < p.balance THEN [grown EXCEPT !.time_of_last_allocation = now]
          ELSE IF Accrued(p) >= 0 /\ left >= 0
               THEN [exhausted EXCEPT !.time_of_last_allocation = now]
          ELSE Failed
  BY DEF UpdateRewards
<1> HIDE DEF q
<1>4. CASE p.time_of_last_allocation = now
  BY <1>1, <1>3, <1>4 DEF q
<1>5. CASE p.time_of_last_allocation # now /\ (stake = 0 \/ p.reward_rate = 0)
  <2>1. q = [p EXCEPT !.time_of_last_allocation = now]
    BY <1>3, <1>5
  <2>2. QED
    BY <1>1, <2>1 DEF q, Pool
<1>6. CASE stake # 0 /\ q = [grown EXCEPT !.time_of_last_allocation = now] /\ Accrued(grown) < p.balance
  <2>1. more \in Nat
    BY <1>1, <1>2, <1>6, GrownNat
  <2> HIDE DEF more, stake
  <2>2. /\ q \in Pool /\ q.time_of_last_allocation = now
        /\ q.total_stake_amount = p.total_stake_amount /\ q.total_stakers = p.total_stakers
        /\ q.to_withdraw = p.to_withdraw /\ q.total_reward_debt = p.total_reward_debt
        /\ q.balance = p.balance
        /\ q.accumulated_reward_per_share = p.accumulated_reward_per_share + more
    <3>1. PICK m \in Nat : m = p.accumulated_reward_per_share + more
      BY <1>1, <2>1
    <3>2. q = [p EXCEPT !.accumulated_reward_per_share = m,
                        !.time_of_last_allocation = now]
      BY <1>6, <3>1 DEF Pool
    <3>3. QED
      BY ONLY <3>1, <3>2, p \in Pool, now \in Nat DEF Pool
  <2>3. Accrued(q) = Accrued(grown)
    BY <1>6 DEF Accrued, Pool
  <2>4. Accrued(grown) \in Int
    <3>1. /\ grown.accumulated_reward_per_share \in Nat /\ grown.total_stake_amount \in Nat
          /\ grown.total_reward_debt \in Nat
      BY <1>1, <2>1 DEF Pool
    <3> HIDE DEF grown
    <3>2. Granted(grown.accumulated_reward_per_share, grown.total_stake_amount) \in Nat
      BY <3>1, GrantedNat
    <3>3. QED
      BY <3>1, <3>2 DEF Accrued
  <2>5. QED
    BY <1>1, <1>6, <2>1, <2>2, <2>3, <2>4 DEF q
<1>7. CASE /\ stake # 0 /\ q = [exhausted EXCEPT !.time_of_last_allocation = now]
           /\ Accrued(p) >= 0 /\ left >= 0
  <2>1. Granted(p.accumulated_reward_per_share, p.total_stake_amount) \in Nat
    BY <1>1, GrantedNat
  <2>2. left \in Nat /\ Accrued(p) \in Nat
    BY <1>1, <1>7, <2>1 DEF Accrued
  <2>3. /\ share \in Nat
        /\ Granted(p.accumulated_reward_per_share + share, p.total_stake_amount)
             <= Granted(p.accumulated_reward_per_share, p.total_stake_amount) + left
    <3> HIDE DEF left
    <3>1. QED
      BY <1>1, <1>7, <2>2, GrantedOfLeft
  <2> HIDE DEF share, stake
  <2>4. /\ q \in Pool /\ q.time_of_last_allocation = now
        /\ q.total_stake_amount = p.total_stake_amount /\ q.total_stakers = p.total_stakers
        /\ q.to_withdraw = p.to_withdraw /\ q.total_reward_debt = p.total_reward_debt
        /\ q.balance = p.balance
        /\ q.accumulated_reward_per_share = p.accumulated_reward_per_share + share
    <3>1. PICK m \in Nat : m = p.accumulated_reward_per_share + share
      BY <1>1, <2>3
    <3>2. q = [p EXCEPT !.accumulated_reward_per_share = m, !.reward_rate = 0,
                        !.time_of_last_allocation = now]
      BY <1>7, <3>1 DEF Pool
    <3>3. QED
      BY ONLY <3>1, <3>2, p \in Pool, now \in Nat DEF Pool
  <2>5. Granted(q.accumulated_reward_per_share, q.total_stake_amount) \in Nat
    BY <2>4, GrantedNat, PoolFields
  <2>6. Accrued(q) <= q.balance
    BY <1>1, <2>1, <2>2, <2>3, <2>4, <2>5 DEF Accrued
  <2>7. QED
    BY <1>1, <2>3, <2>4, <2>6 DEF q
<1>8. QED
  BY <1>3, <1>4, <1>5, <1>6, <1>7 DEF q

(* The sums over the stakers are numbers, and no less than any part. *)
LEMMA SumsTyped ==
    ASSUME StakingTypeOK, IsFiniteSet(Stakers)
    PROVE  /\ SumFunction(StakedBalances) \in Nat /\ SumFunction(LockedBalances) \in Nat
           /\ SumFunction(RewardDebts) \in Nat
           /\ \A a \in Stakers :
                 /\ staker[a].staked_balance <= SumFunction(StakedBalances)
                 /\ staker[a].locked_balance <= SumFunction(LockedBalances)
                 /\ staker[a].reward_debt <= SumFunction(RewardDebts)
<1>1. \A a \in Stakers : /\ staker[a].staked_balance \in Nat /\ staker[a].locked_balance \in Nat
                         /\ staker[a].reward_debt \in Nat
  BY StoredStaker, StakerFields
<1>2. SumFunction(StakedBalances) \in Nat
      /\ \A a \in Stakers : staker[a].staked_balance <= SumFunction(StakedBalances)
  BY <1>1, SumFunctionType, SumFunctionCovers DEF StakedBalances
<1>3. SumFunction(LockedBalances) \in Nat
      /\ \A a \in Stakers : staker[a].locked_balance <= SumFunction(LockedBalances)
  BY <1>1, SumFunctionType, SumFunctionCovers DEF LockedBalances
<1>4. SumFunction(RewardDebts) \in Nat
      /\ \A a \in Stakers : staker[a].reward_debt <= SumFunction(RewardDebts)
  BY <1>1, SumFunctionType, SumFunctionCovers DEF RewardDebts
<1>5. QED
  BY <1>2, <1>3, <1>4

(* Together the stakers have no more pending than the pool has accrued:    *)
(* the roundings go the way of the pool.                                   *)
LEMMA PendingWithinAccrued ==
    ASSUME StakingTypeOK, IsFiniteSet(Stakers), NEW p, StakesOf(p)
    PROVE  /\ \A a \in Stakers : PendingIn(p)[a] \in Int
           /\ SumFunction(PendingIn(p)) \in Int /\ Accrued(p) \in Int
           /\ SumFunction(PendingIn(p)) <= Accrued(p)
<1> DEFINE acc == p.accumulated_reward_per_share
           G == [n \in Nat |-> Granted(acc, n)]
           f == StakedBalances
           d == RewardDebts
           h == PendingIn(p)
           g == [a \in Stakers |-> G[f[a]]]
<1>1. acc \in Nat
  BY PoolFields DEF StakesOf
<1>2. G \in [Nat -> Nat] /\ \A m, n \in Nat : G[m] + G[n] <= G[m + n]
  <2>1. \A n \in Nat : Granted(acc, n) \in Nat
    BY <1>1, GrantedNat
  <2>2. ASSUME NEW m \in Nat, NEW n \in Nat PROVE G[m] + G[n] <= G[m + n]
    <3>1. m + n \in Nat
      OBVIOUS
    <3>2. Granted(acc, m) + Granted(acc, n) <= Granted(acc, m + n)
      BY <1>1, GrantedOfSum
    <3>3. QED
      BY <3>1, <3>2
  <2>3. QED
    BY <2>1, <2>2
<1>3. /\ DOMAIN f = Stakers /\ DOMAIN d = Stakers /\ DOMAIN h = Stakers /\ DOMAIN g = Stakers
      /\ \A a \in Stakers : f[a] \in Nat /\ d[a] \in Nat /\ h[a] = Granted(acc, f[a]) - d[a]
  BY StoredStaker, StakerFields DEF StakedBalances, RewardDebts, PendingIn, Pending
<1>4. \A a \in Stakers : g[a] = G[f[a]] /\ g[a] \in Nat /\ h[a] \in Int /\ g[a] = h[a] + d[a]
  <2>1. TAKE a \in Stakers
  <2>2. PICK k \in Nat : k = Granted(acc, f[a])
    BY <1>1, <1>3, GrantedNat
  <2>3. g[a] = k /\ G[f[a]] = k
    BY <1>3, <2>2
  <2>4. QED
    BY <1>3, <2>2, <2>3
<1>5. SumFunction(f) \in Nat /\ SumFunction(d) \in Nat
  BY SumsTyped
<1>6. G[SumFunction(f)] = Granted(acc, p.total_stake_amount)
  BY <1>5 DEF StakesOf
<1>7. SumFunction(g) <= G[SumFunction(f)] /\ G[SumFunction(f)] \in Nat
  <2> HIDE DEF G, f, g
  <2>1. QED
    BY <1>2, <1>3, <1>4, <1>5, SumFunctionOfParts
<1>8. SumFunction(h) \in Int /\ SumFunction(g) \in Int /\ SumFunction(g) = SumFunction(h) + SumFunction(d)
  <2> HIDE DEF G, f, g, h, d
  <2>1. \A a \in Stakers : h[a] \in Int /\ d[a] \in Int /\ g[a] \in Int
    BY <1>3, <1>4
  <2>2. SumFunction(g) = SumFunction(h) + SumFunction(d)
    BY <1>3, <1>4, <2>1, SumFunctionAdd
  <2>3. QED
    BY <1>3, <2>1, <2>2, SumFunctionType
<1>9. Accrued(p) = G[SumFunction(f)] - SumFunction(d)
  BY <1>6 DEF Accrued, StakesOf
<1> HIDE DEF G, f, g, h, d
<1>10. QED
  <2>1. PICK x \in Int, y \in Nat, z \in Nat : x = SumFunction(h) /\ y = SumFunction(d) /\ z = G[SumFunction(f)]
    BY <1>5, <1>7, <1>8
  <2>2. x + y <= z /\ Accrued(p) = z - y
    BY <1>7, <1>8, <1>9, <2>1
  <2>3. SumFunction(h) <= Accrued(p) /\ Accrued(p) \in Int
    BY <2>1, <2>2
  <2>4. QED
    BY <1>4, <1>8, <2>3 DEF h

(* After update_rewards the pool still covers what the stakers have        *)
(* pending.                                                                *)
LEMMA AccrualCovered ==
    ASSUME StakingTypeOK, IsFiniteSet(Stakers), NEW p, StakesOf(p), Covers(p),
           UpdateRewards(p) # Failed
    PROVE  StakesOf(UpdateRewards(p)) /\ Covers(UpdateRewards(p))
<1> DEFINE q == UpdateRewards(p)
<1>1. /\ q \in Pool /\ q.time_of_last_allocation = now
      /\ q.total_stake_amount = p.total_stake_amount
      /\ q.total_reward_debt = p.total_reward_debt
      /\ q.balance = p.balance
      /\ q.accumulated_reward_per_share >= p.accumulated_reward_per_share
      /\ \/ q.accumulated_reward_per_share = p.accumulated_reward_per_share
         \/ Accrued(q) <= q.balance
  BY UpdateRewardsResult DEF StakesOf, StakingTypeOK
<1> HIDE DEF q
<1>2. StakesOf(q)
  BY <1>1 DEF StakesOf, StakingTypeOK
<1>3. /\ p \in Pool /\ p.accumulated_reward_per_share \in Nat /\ q.accumulated_reward_per_share \in Nat
      /\ q.balance \in Nat
  BY <1>1, PoolFields DEF StakesOf
<1>4. ASSUME NEW a \in Stakers PROVE PendingIn(q)[a] >= 0
  <2>1. staker[a].staked_balance \in Nat /\ staker[a].reward_debt \in Nat
    BY StoredStaker, StakerFields
  <2>2. PICK k, m \in Nat : /\ k = Granted(p.accumulated_reward_per_share, staker[a].staked_balance)
                            /\ m = Granted(q.accumulated_reward_per_share, staker[a].staked_balance)
    BY <1>3, <2>1, GrantedNat
  <2>3. k <= m
    BY <1>1, <1>3, <2>1, <2>2, GrantedGrows
  <2>4. k - staker[a].reward_debt >= 0
    BY <2>2 DEF Covers, PendingIn, Pending
  <2>5. PendingIn(q)[a] = m - staker[a].reward_debt
    BY <2>2 DEF PendingIn, Pending
  <2>6. QED
    BY <2>1, <2>3, <2>4, <2>5
<1>5. CASE q.accumulated_reward_per_share = p.accumulated_reward_per_share
  <2>1. PendingIn(q) = PendingIn(p)
    BY <1>5 DEF PendingIn, Pending
  <2>2. QED
    BY <1>1, <1>2, <1>4, <2>1 DEF Covers, q
<1>6. CASE Accrued(q) <= q.balance
  <2>1. SumFunction(PendingIn(q)) \in Int /\ Accrued(q) \in Int /\ SumFunction(PendingIn(q)) <= Accrued(q)
    BY <1>2, PendingWithinAccrued
  <2>2. q.balance >= SumFunction(PendingIn(q))
    BY <1>3, <1>6, <2>1
  <2>3. QED
    BY <1>2, <1>4, <2>2 DEF Covers, q
<1>7. QED
  BY <1>1, <1>5, <1>6

-----------------------------------------------------------------------------
(* A staker that has the stake stored for an account, or none if none is.  *)
SameStake(a, s) ==
    /\ s \in StakeInfo
    /\ a \in Stakers => /\ s.staked_balance = staker[a].staked_balance
                        /\ s.reward_debt = staker[a].reward_debt
                        /\ s.staked = staker[a].staked
    /\ a \notin Stakers => s.staked_balance = 0 /\ s.reward_debt = 0 /\ s.staked = FALSE

(* What a staker has pending is a natural number, zero without a stake,    *)
(* and a stake without balance has no debt.                                *)
LEMMA PendingNat ==
    ASSUME StakingTypeOK, NEW p \in Pool, Covers(p), NEW a, NEW s, SameStake(a, s)
    PROVE  Pending(p, s) \in Nat /\ (s.staked_balance = 0 => s.reward_debt = 0 /\ Pending(p, s) = 0)
<1>1. p.accumulated_reward_per_share \in Nat /\ s.staked_balance \in Nat /\ s.reward_debt \in Nat
  BY PoolFields, StakerFields DEF SameStake
<1>2. PICK k \in Nat : k = Granted(p.accumulated_reward_per_share, s.staked_balance)
  BY <1>1, GrantedNat
<1>3. s.staked_balance = 0 => k = 0
  BY <1>1, <1>2, GrantedNat
<1>4. Pending(p, s) = k - s.reward_debt
  BY <1>2 DEF Pending
<1>5. CASE a \in Stakers
  <2>1. Pending(p, s) = PendingIn(p)[a]
    BY <1>5 DEF Pending, PendingIn, SameStake
  <2>2. Pending(p, s) >= 0
    BY <1>5, <2>1 DEF Covers
  <2>3. QED
    BY <1>1, <1>3, <1>4, <2>2
<1>6. CASE a \notin Stakers
  BY <1>3, <1>4, <1>6 DEF SameStake
<1>7. QED
  BY <1>5, <1>6

(* Voting earns a share of what is pending, at most all of it. *)
LEMMA ParticipationBounded ==
    ASSUME StakingTypeOK, NEW a \in Account, NEW s \in StakeInfo, NEW pending \in Nat,
           voteCount >= s.start_vote_count,
           voteCount > s.start_vote_count => voteTally[a] >= s.start_vote_tally
    PROVE  Participation(a, s, pending) \in Nat /\ Participation(a, s, pending) <= pending
<1>1. PICK v \in Nat : v = voteCount - s.start_vote_count
  BY StakerFields DEF StakingTypeOK
<1>2. CASE v > 0
  <2>1. PICK t \in Nat : t = voteTally[a] - s.start_vote_tally
    BY <1>1, <1>2, StakerFields DEF StakingTypeOK
  <2>2. PICK m \in Nat : m = pending * t
    BY ProductGrows
  <2>3. PICK r \in Nat : r = m \div v
    BY <1>2
  <2>4. Participation(a, s, pending) = IF r < pending THEN r ELSE pending
    BY <1>1, <1>2, <2>1, <2>2, <2>3 DEF Participation
  <2>5. QED
    BY <2>4
<1>3. CASE v = 0
  BY <1>1, <1>3 DEF Participation
<1>4. QED
  BY <1>2, <1>3

(* Paying a staker out takes its stake and debt from the totals, and at    *)
(* most what it has pending from the rewards account.                      *)
LEMMA PaidOutResult ==
    ASSUME StakingTypeOK, NEW q, StakesOf(q), Covers(q), NEW a \in Account, NEW s, SameStake(a, s),
           NEW exists, PaidOut(q, a, s, exists) # Failed
    PROVE  LET w == PaidOut(q, a, s, exists)
           IN  /\ w \in Pool
               /\ w.total_stake_amount = q.total_stake_amount - s.staked_balance
               /\ w.total_reward_debt = q.total_reward_debt - s.reward_debt
               /\ w.balance >= q.balance - Pending(q, s)
               /\ w.accumulated_reward_per_share = q.accumulated_reward_per_share
               /\ w.reward_rate = q.reward_rate
               /\ w.total_stakers = q.total_stakers
               /\ w.to_withdraw = q.to_withdraw
               /\ w.time_of_last_allocation = q.time_of_last_allocation
<1> DEFINE w == PaidOut(q, a, s, exists)
           reward == Participation(a, s, Pending(q, s))
<1>1. q \in Pool /\ s \in StakeInfo
  BY DEF StakesOf, SameStake
<1>2. Pending(q, s) \in Nat /\ (s.staked_balance = 0 => s.reward_debt = 0 /\ Pending(q, s) = 0)
  BY <1>1, PendingNat
<1>3. /\ q.total_stake_amount \in Nat /\ q.total_reward_debt \in Nat /\ q.balance \in Nat
      /\ s.staked_balance \in Nat /\ s.reward_debt \in Nat
  BY <1>1, PoolFields, StakerFields
<1>4. CASE s.staked_balance = 0
  <2>1. w = q
    BY <1>4 DEF PaidOut
  <2>2. QED
    BY <1>1, <1>2, <1>3, <1>4, <2>1
<1>5. CASE s.staked_balance # 0
  <2>1. /\ w = WithoutStake(q, s, reward)
        /\ voteCount >= s.start_vote_count
        /\ voteCount > s.start_vote_count => voteTally[a] >= s.start_vote_tally
        /\ q.balance - reward >= ExistentialDeposit
        /\ q.total_reward_debt >= s.reward_debt
        /\ q.total_stake_amount >= s.staked_balance
    BY <1>5 DEF PaidOut
  <2>2. reward \in Nat /\ reward <= Pending(q, s)
    BY <1>1, <1>2, <2>1, ParticipationBounded
  <2> HIDE DEF reward
  <2>3. PICK b, d, t \in Nat : /\ b = q.balance - reward /\ d = q.total_reward_debt - s.reward_debt
                               /\ t = q.total_stake_amount - s.staked_balance
    BY <1>3, <2>1, <2>2, StakingAssumption
  <2>4. w = [q EXCEPT !.balance = b, !.total_reward_debt = d, !.total_stake_amount = t]
    BY <2>1, <2>3 DEF WithoutStake
  <2>5. /\ w \in Pool /\ w.balance = b /\ w.total_reward_debt = d /\ w.total_stake_amount = t
        /\ w.accumulated_reward_per_share = q.accumulated_reward_per_share
        /\ w.reward_rate = q.reward_rate
        /\ w.total_stakers = q.total_stakers
        /\ w.to_withdraw = q.to_withdraw
        /\ w.time_of_last_allocation = q.time_of_last_allocation
    BY ONLY <1>1, <2>4, b \in Nat, d \in Nat, t \in Nat DEF Pool
  <2>6. b >= q.balance - Pending(q, s)
    BY <1>2, <1>3, <2>2, <2>3
  <2>7. QED
    BY <2>3, <2>5, <2>6
<1>6. QED
  BY <1>4, <1>5

(* The number of stakers after a change. *)
LEMMA StakersAfterNat ==
    ASSUME NEW n \in Nat, NEW was \in BOOLEAN, NEW is \in BOOLEAN
    PROVE  StakersAfter(n, was, is) \in Nat
  BY DEF StakersAfter

(* Setting the reward rate changes nothing else. *)
LEMMA WithRewardRateResult ==
    ASSUME NEW p \in Pool, WithRewardRate(p) # Failed
    PROVE  /\ Accrued(p) \in Nat
           /\ \E r \in Nat : WithRewardRate(p) = [p EXCEPT !.reward_rate = r]
<1>1. Granted(p.accumulated_reward_per_share, p.total_stake_amount) \in Nat
  BY PoolFields, GrantedNat
<1>2. Accrued(p) \in Int
  BY <1>1, PoolFields DEF Accrued
<1>3. Accrued(p) >= 0 /\ p.balance >= Accrued(p)
  BY DEF WithRewardRate
<1>4. PICK n \in Nat : n = p.balance - Accrued(p)
  BY <1>2, <1>3, PoolFields
<1>5. n \div RewardPeriod \in Nat
  BY StakingAssumption
<1>6. WithRewardRate(p) = [p EXCEPT !.reward_rate = n \div RewardPeriod]
  BY <1>3, <1>4 DEF WithRewardRate
<1>7. QED
  BY <1>2, <1>3, <1>5, <1>6

(* What is known of the pool and the staker that update_stake_and_pay_     *)
(* rewards yields, q being the pool after update_rewards.                  *)
StakeUpdated(r, q, s, balance) ==
    /\ r.pool \in Pool /\ r.staker \in StakeInfo
    /\ r.pool.total_stake_amount = q.total_stake_amount - s.staked_balance + balance
    /\ r.pool.total_reward_debt = q.total_reward_debt - s.reward_debt + r.staker.reward_debt
    /\ r.pool.total_stakers = StakersAfter(q.total_stakers, s.staked, r.staker.staked)
    /\ r.pool.to_withdraw = q.to_withdraw
    /\ r.pool.time_of_last_allocation = q.time_of_last_allocation
    /\ r.pool.accumulated_reward_per_share = q.accumulated_reward_per_share
    /\ r.pool.balance >= q.balance - Pending(q, s)
    /\ r.staker.staked_balance = balance
    /\ r.staker.reward_debt = Granted(q.accumulated_reward_per_share, balance)
    /\ r.staker.locked_balance = s.locked_balance
    /\ r.staker.start_date = s.start_date
    /\ r.staker.start_vote_count = s.start_vote_count
    /\ r.staker.start_vote_tally = s.start_vote_tally
    /\ r.staker.address = s.address

(* What update_stake_and_pay_rewards leaves when it does not fail. *)
LEMMA UpdateStakeResult ==
    ASSUME StakingTypeOK, IsFiniteSet(Stakers), NEW p, StakesOf(p), Covers(p),
           NEW a \in Account, NEW s, SameStake(a, s), NEW balance \in Nat, NEW exists,
           UpdateStake(p, a, s, balance, exists) # Failed
    PROVE  /\ UpdateRewards(p) # Failed
           /\ StakesOf(UpdateRewards(p)) /\ Covers(UpdateRewards(p))
           /\ DOMAIN UpdateStake(p, a, s, balance, exists) = {"pool", "staker"}
           /\ StakeUpdated(UpdateStake(p, a, s, balance, exists), UpdateRewards(p), s, balance)
<1> DEFINE q == UpdateRewards(p)
           w == PaidOut(q, a, s, exists)
           n == Restaked(q, s, balance)
           v == [w EXCEPT !.total_stakers = StakersAfter(@, s.staked, n.staked),
                          !.total_reward_debt = @ + n.reward_debt,
                          !.total_stake_amount = @ + balance]
           r == UpdateStake(p, a, s, balance, exists)
           rated == IF v.reward_rate = 0 THEN WithRewardRate(v) ELSE v
<1>1. q # Failed /\ w # Failed /\ rated # Failed /\ r = [pool |-> rated, staker |-> n]
  BY DEF UpdateStake
<1>2. StakesOf(q) /\ Covers(q) /\ q \in Pool
  BY <1>1, AccrualCovered DEF StakesOf
<1> HIDE DEF r, q
<1>3. /\ w \in Pool
      /\ w.total_stake_amount = q.total_stake_amount - s.staked_balance
      /\ w.total_reward_debt = q.total_reward_debt - s.reward_debt
      /\ w.balance >= q.balance - Pending(q, s)
      /\ w.accumulated_reward_per_share = q.accumulated_reward_per_share
      /\ w.reward_rate = q.reward_rate
      /\ w.total_stakers = q.total_stakers
      /\ w.to_withdraw = q.to_withdraw
      /\ w.time_of_last_allocation = q.time_of_last_allocation
  BY <1>1, <1>2, PaidOutResult
<1> HIDE DEF w
<1>4. s \in StakeInfo /\ s.staked \in BOOLEAN
  BY StakerFields DEF SameStake
<1>5. /\ n \in StakeInfo /\ n.staked_balance = balance
      /\ n.reward_debt = Granted(q.accumulated_reward_per_share, balance)
      /\ n.locked_balance = s.locked_balance /\ n.start_date = s.start_date
      /\ n.start_vote_count = s.start_vote_count /\ n.start_vote_tally = s.start_vote_tally
      /\ n.address = s.address
  <2>1. PICK d \in Nat : d = Granted(q.accumulated_reward_per_share, balance)
    BY <1>2, GrantedNat, PoolFields
  <2>2. PICK b \in BOOLEAN : b = (balance >= stakeAmount)
    <3>1. CASE balance >= stakeAmount
      <4>1. (balance >= stakeAmount) = TRUE
        BY <3>1
      <4>2. QED
        BY <4>1, Zenon
    <3>2. CASE ~(balance >= stakeAmount)
      <4>1. (balance >= stakeAmount) = FALSE
        BY <3>2
      <4>2. QED
        BY <4>1, Zenon
    <3>3. QED
      BY <3>1, <3>2
  <2>3. n = [s EXCEPT !.staked_balance = balance, !.staked = b, !.reward_debt = d]
    BY <2>1, <2>2 DEF Restaked
  <2> HIDE DEF n
  <2>4. QED
    BY ONLY <1>4, <2>1, <2>3, balance \in Nat, d \in Nat, b \in BOOLEAN DEF StakeInfo
<1> HIDE DEF n
<1>6. n.staked \in BOOLEAN /\ n.reward_debt \in Nat
  BY <1>5, StakerFields
<1>7. PICK k, d, t \in Nat : /\ k = StakersAfter(w.total_stakers, s.staked, n.staked)
                             /\ d = w.total_reward_debt + n.reward_debt
                             /\ t = w.total_stake_amount + balance
  <2>1. w.total_stakers \in Nat /\ w.total_reward_debt \in Nat /\ w.total_stake_amount \in Nat
    BY <1>3, PoolFields
  <2>2. StakersAfter(w.total_stakers, s.staked, n.staked) \in Nat
    BY <1>4, <1>6, <2>1, StakersAfterNat
  <2>3. w.total_reward_debt + n.reward_debt \in Nat /\ w.total_stake_amount + balance \in Nat
    BY <1>6, <2>1
  <2>4. QED
    BY <2>2, <2>3
<1>8. v = [w EXCEPT !.total_stakers = k, !.total_reward_debt = d, !.total_stake_amount = t]
  BY <1>7
<1>9. v \in Pool
  BY ONLY <1>3, <1>8, k \in Nat, d \in Nat, t \in Nat DEF Pool
<1>10. PICK rate \in Nat : rated = [v EXCEPT !.reward_rate = rate]
  <2> HIDE DEF v
  <2>1. CASE v.reward_rate = 0
    BY <1>1, <1>9, <2>1, WithRewardRateResult
  <2>2. CASE v.reward_rate # 0
    <3>1. v.reward_rate \in Nat /\ v = [v EXCEPT !.reward_rate = v.reward_rate]
      BY <1>9 DEF Pool
    <3>2. QED
      BY <2>2, <3>1
  <2>3. QED
    BY <2>1, <2>2
<1> HIDE DEF rated, v
<1>11. /\ rated \in Pool
       /\ rated.total_stakers = k /\ rated.total_reward_debt = d /\ rated.total_stake_amount = t
       /\ rated.to_withdraw = w.to_withdraw /\ rated.balance = w.balance
       /\ rated.time_of_last_allocation = w.time_of_last_allocation
       /\ rated.accumulated_reward_per_share = w.accumulated_reward_per_share
  BY ONLY <1>3, <1>8, <1>9, <1>10, rate \in Nat DEF Pool
<1>12. r.pool = rated /\ r.staker = n /\ DOMAIN r = {"pool", "staker"}
  BY <1>1
<1>13. StakeUpdated(r, q, s, balance)
  BY <1>3, <1>5, <1>7, <1>11, <1>12 DEF StakeUpdated
<1>14. QED
  BY <1>1, <1>2, <1>12, <1>13 DEF q, r

-----------------------------------------------------------------------------
(* What an account has staked and what it has locked. *)
StakedOf(a) == IF a \in Stakers THEN staker[a].staked_balance ELSE 0
LockedOf(a) == IF a \in Stakers THEN staker[a].locked_balance ELSE 0

(* g is f with a number stored under y. *)
IsStore(f, g, y) ==
    /\ IsFiniteSet(DOMAIN f) /\ DOMAIN g = DOMAIN f \cup {y} /\ g[y] \in Nat
    /\ \A x \in DOMAIN f : f[x] \in Nat
    /\ \A x \in DOMAIN f \ {y} : g[x] = f[x]

(* A number stored under an argument changes a sum by the difference. *)
LEMMA SumAfterStore ==
    ASSUME NEW f, NEW g, NEW y, IsStore(f, g, y)
    PROVE  SumFunction(g) = SumFunction(f) - (IF y \in DOMAIN f THEN f[y] ELSE 0) + g[y]
<1> USE DEF IsStore
<1>1. \A x \in DOMAIN f : f[x] \in Int
  OBVIOUS
<1>2. g[y] \in Int
  OBVIOUS
<1>3. SumFunction(g) = SumFunction(f) + g[y] - (IF y \in DOMAIN f THEN f[y] ELSE 0)
  BY <1>1, <1>2, SumFunctionPut
<1>4. SumFunction(f) \in Nat
  BY SumFunctionType
<1>5. PICK m, n, k \in Nat : /\ m = SumFunction(f) /\ n = g[y]
                             /\ k = (IF y \in DOMAIN f THEN f[y] ELSE 0)
  BY <1>4
<1>6. SumFunction(g) = m + n - k
  BY <1>3, <1>5
<1>7. m + n - k = m - k + n
  OBVIOUS
<1>8. QED
  BY <1>5, <1>6, <1>7

(* Storing a staker changes every sum by the difference to what was stored *)
(* and the number of stakers as the code counts it.                        *)
LEMMA StakerStored ==
    ASSUME StakesInv, NEW a \in Account, NEW o, SameStake(a, o), NEW s \in StakeInfo,
           staker' = [staker EXCEPT ![a] = s]
    PROVE  /\ staker' \in [Account -> StakeInfo \cup {None}]
           /\ Stakers' = Stakers \cup {a} /\ IsFiniteSet(Stakers')
           /\ SumFunction(StakedBalances') = pool.total_stake_amount - o.staked_balance + s.staked_balance
           /\ SumFunction(RewardDebts') = pool.total_reward_debt - o.reward_debt + s.reward_debt
           /\ SumFunction(LockedBalances') = SumFunction(LockedBalances) - LockedOf(a) + s.locked_balance
           /\ Cardinality({x \in Stakers' : staker'[x].staked})
                = StakersAfter(pool.total_stakers, o.staked, s.staked)
           /\ Restored(a, s.staked_balance, s.locked_balance)
<1>1. /\ StakingTypeOK /\ IsFiniteSet(Stakers) /\ StakeTotals
      /\ staker \in [Account -> StakeInfo \cup {None}] /\ s # None
  BY StakingAssumption DEF StakesInv, StakingTypeOK
<1>2. /\ staker' \in [Account -> StakeInfo \cup {None}] /\ Stakers' = Stakers \cup {a}
      /\ staker'[a] = s /\ \A x \in Stakers \ {a} : staker'[x] = staker[x]
  BY <1>1 DEF Stakers
<1>3. IsFiniteSet(Stakers')
  BY <1>1, <1>2, FS_AddElement
<1>4. /\ s.staked_balance \in Nat /\ s.reward_debt \in Nat /\ s.locked_balance \in Nat
      /\ s.staked \in BOOLEAN /\ o.staked \in BOOLEAN
      /\ \A x \in Stakers : /\ staker[x].staked_balance \in Nat /\ staker[x].reward_debt \in Nat
                            /\ staker[x].locked_balance \in Nat
  BY <1>1, StoredStaker, StakerFields DEF SameStake
<1>5. SumFunction(StakedBalances') = pool.total_stake_amount - o.staked_balance + s.staked_balance
  <2>1. PICK f, g : f = StakedBalances /\ g = StakedBalances'
    OBVIOUS
  <2>2. /\ DOMAIN f = Stakers /\ DOMAIN g = DOMAIN f \cup {a} /\ g[a] = s.staked_balance
        /\ \A x \in DOMAIN f \ {a} : g[x] = f[x]
        /\ \A x \in DOMAIN f : f[x] \in Nat
        /\ \A x \in DOMAIN f : f[x] = staker[x].staked_balance
    BY <1>2, <1>4, <2>1 DEF StakedBalances
  <2>3. o.staked_balance = (IF a \in DOMAIN f THEN f[a] ELSE 0)
    BY <2>2 DEF SameStake
  <2>4. SumFunction(f) = pool.total_stake_amount
    BY <1>1, <2>1 DEF StakeTotals
  <2>5. IsStore(f, g, a)
    BY <1>1, <1>4, <2>2 DEF IsStore
  <2>6. SumFunction(g) = SumFunction(f) - (IF a \in DOMAIN f THEN f[a] ELSE 0) + g[a]
    BY <2>5, SumAfterStore
  <2>7. QED
    BY <2>1, <2>2, <2>3, <2>4, <2>6
<1>6. SumFunction(RewardDebts') = pool.total_reward_debt - o.reward_debt + s.reward_debt
  <2>1. PICK f, g : f = RewardDebts /\ g = RewardDebts'
    OBVIOUS
  <2>2. /\ DOMAIN f = Stakers /\ DOMAIN g = DOMAIN f \cup {a} /\ g[a] = s.reward_debt
        /\ \A x \in DOMAIN f \ {a} : g[x] = f[x]
        /\ \A x \in DOMAIN f : f[x] \in Nat
        /\ \A x \in DOMAIN f : f[x] = staker[x].reward_debt
    BY <1>2, <1>4, <2>1 DEF RewardDebts
  <2>3. o.reward_debt = (IF a \in DOMAIN f THEN f[a] ELSE 0)
    BY <2>2 DEF SameStake
  <2>4. SumFunction(f) = pool.total_reward_debt
    BY <1>1, <2>1 DEF StakeTotals
  <2>5. IsStore(f, g, a)
    BY <1>1, <1>4, <2>2 DEF IsStore
  <2>6. SumFunction(g) = SumFunction(f) - (IF a \in DOMAIN f THEN f[a] ELSE 0) + g[a]
    BY <2>5, SumAfterStore
  <2>7. QED
    BY <2>1, <2>2, <2>3, <2>4, <2>6
<1>7. SumFunction(LockedBalances') = SumFunction(LockedBalances) - LockedOf(a) + s.locked_balance
  <2>1. PICK f, g : f = LockedBalances /\ g = LockedBalances'
    OBVIOUS
  <2>2. /\ DOMAIN f = Stakers /\ DOMAIN g = DOMAIN f \cup {a} /\ g[a] = s.locked_balance
        /\ \A x \in DOMAIN f \ {a} : g[x] = f[x]
        /\ \A x \in DOMAIN f : f[x] \in Nat
        /\ \A x \in DOMAIN f : f[x] = staker[x].locked_balance
    BY <1>2, <1>4, <2>1 DEF LockedBalances
  <2>3. LockedOf(a) = (IF a \in DOMAIN f THEN f[a] ELSE 0)
    BY <2>2 DEF LockedOf
  <2>4. IsStore(f, g, a)
    BY <1>1, <1>4, <2>2 DEF IsStore
  <2>5. SumFunction(g) = SumFunction(f) - (IF a \in DOMAIN f THEN f[a] ELSE 0) + g[a]
    BY <2>4, SumAfterStore
  <2>6. QED
    BY <2>1, <2>2, <2>3, <2>5
<1>8. Cardinality({x \in Stakers' : staker'[x].staked}) = StakersAfter(pool.total_stakers, o.staked, s.staked)
  <2> DEFINE was == {x \in Stakers : staker[x].staked}
             is == {x \in Stakers' : staker'[x].staked}
  <2>1. IsFiniteSet(was) /\ pool.total_stakers = Cardinality(was)
    BY <1>1, FS_Subset DEF StakeTotals
  <2>2. o.staked = (a \in was)
    <3>1. CASE a \in Stakers
      BY <1>4, <3>1 DEF SameStake
    <3>2. CASE a \notin Stakers
      <4>1. o.staked = FALSE /\ (a \in was) = FALSE
        BY <3>2 DEF SameStake
      <4>2. QED
        BY <4>1, Zenon
    <3>3. QED
      BY <3>1, <3>2
  <2>3. CASE s.staked
    <3>1. is = was \cup {a}
      BY <1>2, <2>3
    <3> HIDE DEF was, is
    <3>2. Cardinality(is) = IF a \in was THEN Cardinality(was) ELSE Cardinality(was) + 1
      BY <2>1, <3>1, FS_AddElement
    <3>3. QED
      BY <2>1, <2>2, <2>3, <3>2 DEF StakersAfter, is
  <2>4. CASE ~s.staked
    <3>1. is = was \ {a}
      BY <1>2, <2>4
    <3> HIDE DEF was, is
    <3>2. Cardinality(is) = IF a \in was THEN Cardinality(was) - 1 ELSE Cardinality(was)
      BY <2>1, <3>1, FS_RemoveElement
    <3>3. a \in was => Cardinality(was) > 0
      BY <2>1, FS_EmptySet, FS_CardinalityType
    <3>4. QED
      BY <2>1, <2>2, <2>4, <3>2, <3>3 DEF StakersAfter, is
  <2>5. QED
    BY <2>3, <2>4
<1>9. Restored(a, s.staked_balance, s.locked_balance)
  BY <1>1, <1>2 DEF Restored
<1>10. QED
  BY <1>2, <1>3, <1>5, <1>6, <1>7, <1>8, <1>9

(* The stored pool is one to which the lemmas about pools apply, and so is *)
(* one with another amount to withdraw.                                    *)
LEMMA StoredPool ==
    ASSUME StakesInv, NEW n \in Nat
    PROVE  /\ StakesOf([pool EXCEPT !.to_withdraw = n]) /\ Covers([pool EXCEPT !.to_withdraw = n])
           /\ StakesOf(pool) /\ Covers(pool)
<1>1. pool \in Pool /\ pool.time_of_last_allocation <= now
  BY DEF StakesInv, StakingTypeOK
<1>2. PICK p : p = [pool EXCEPT !.to_withdraw = n]
  OBVIOUS
<1>3. /\ p \in Pool /\ p.time_of_last_allocation = pool.time_of_last_allocation
      /\ p.total_stake_amount = pool.total_stake_amount /\ p.total_reward_debt = pool.total_reward_debt
      /\ p.accumulated_reward_per_share = pool.accumulated_reward_per_share /\ p.balance = pool.balance
  BY <1>1, <1>2 DEF Pool
<1>4. PendingIn(p) = PendingIn(pool)
  BY <1>3 DEF PendingIn, Pending
<1>5. PendingIn(pool) = PendingRewards
  BY DEF PendingIn, PendingRewards
<1>6. StakesOf(pool) /\ Covers(pool)
  BY <1>1, <1>5 DEF StakesOf, Covers, StakesInv, StakeTotals, RewardsCovered
<1>7. StakesOf(p) /\ Covers(p)
  BY <1>3, <1>4, <1>6 DEF StakesOf, Covers
<1>8. QED
  BY <1>2, <1>6, <1>7

(* Storing s for an account and n as the amount to withdraw, where r is    *)
(* what update_stake_and_pay_rewards yields for the account's stake o and  *)
(* a new balance, from a pool p.                                           *)
IsStakeChange(a, p, o, balance, r, s, n) ==
    /\ StakesOf(p) /\ Covers(p) /\ p.total_stakers = pool.total_stakers
    /\ a \in Account /\ SameStake(a, o) /\ balance \in Nat
    /\ r # Failed /\ \E exists : r = UpdateStake(p, a, o, balance, exists)
    /\ s \in StakeInfo /\ s.staked_balance = r.staker.staked_balance
    /\ s.reward_debt = r.staker.reward_debt /\ s.staked = r.staker.staked
    /\ n \in Nat /\ n = pool.to_withdraw - LockedOf(a) + s.locked_balance

(* The totals and the cover after a report that updates a stake: the       *)
(* staker is paid at most what it had pending and has nothing pending then.*)
LEMMA StakeUpdateStep ==
    ASSUME StakesInv, NEW a, NEW p, NEW o, NEW balance, NEW r, NEW s, NEW n,
           IsStakeChange(a, p, o, balance, r, s, n),
           staker' = [staker EXCEPT ![a] = s], pool' = [r.pool EXCEPT !.to_withdraw = n]
    PROVE  /\ staker' \in [Account -> StakeInfo \cup {None}]
           /\ pool' \in Pool /\ pool'.time_of_last_allocation = now
           /\ IsFiniteSet(Stakers') /\ StakeTotals' /\ RewardsCovered'
           /\ Shortfall' = Shortfall /\ Restored(a, balance, s.locked_balance)
<1> USE DEF IsStakeChange
<1>1. PICK q : q = UpdateRewards(p)
  OBVIOUS
<1>2. StakesOf(q) /\ Covers(q) /\ StakeUpdated(r, q, o, balance) /\ q # Failed
  BY <1>1, UpdateStakeResult DEF StakesInv
<1>3. q.time_of_last_allocation = now /\ q.total_stakers = pool.total_stakers /\ q \in Pool
  BY <1>1, <1>2, UpdateRewardsResult DEF StakesOf, StakesInv, StakingTypeOK
<1>4. q.total_stake_amount = pool.total_stake_amount /\ q.total_reward_debt = pool.total_reward_debt
  BY <1>2 DEF StakesOf, StakesInv, StakeTotals
<1>5. r.pool \in Pool
  BY <1>2 DEF StakeUpdated
<1>6. /\ pool' \in Pool /\ pool'.to_withdraw = n
      /\ pool'.time_of_last_allocation = r.pool.time_of_last_allocation
      /\ pool'.total_stake_amount = r.pool.total_stake_amount
      /\ pool'.total_reward_debt = r.pool.total_reward_debt
      /\ pool'.total_stakers = r.pool.total_stakers
      /\ pool'.accumulated_reward_per_share = r.pool.accumulated_reward_per_share
      /\ pool'.balance = r.pool.balance
  BY <1>5 DEF Pool
<1>7. /\ staker' \in [Account -> StakeInfo \cup {None}]
      /\ Stakers' = Stakers \cup {a} /\ IsFiniteSet(Stakers')
      /\ SumFunction(StakedBalances') = pool.total_stake_amount - o.staked_balance + s.staked_balance
      /\ SumFunction(RewardDebts') = pool.total_reward_debt - o.reward_debt + s.reward_debt
      /\ SumFunction(LockedBalances') = SumFunction(LockedBalances) - LockedOf(a) + s.locked_balance
      /\ Cardinality({x \in Stakers' : staker'[x].staked})
           = StakersAfter(pool.total_stakers, o.staked, s.staked)
      /\ Restored(a, s.staked_balance, s.locked_balance)
  BY StakerStored
<1>8. StakeTotals'
  BY <1>2, <1>3, <1>4, <1>6, <1>7 DEF StakeTotals, StakeUpdated
<1>9. RewardsCovered'
  <2>1. PICK f, g : f = PendingIn(q) /\ g = PendingRewards'
    OBVIOUS
  <2>2. DOMAIN f = Stakers /\ DOMAIN g = Stakers \cup {a}
    BY <1>7, <2>1 DEF PendingIn, PendingRewards
  <2>3. \A x \in Stakers : f[x] \in Nat
    BY <1>2, <2>1, PendingWithinAccrued DEF Covers, StakesInv
  <2>4. pool'.accumulated_reward_per_share = q.accumulated_reward_per_share
    BY <1>2, <1>6 DEF StakeUpdated
  <2>5. \A x \in Stakers \ {a} : g[x] = f[x]
    BY <1>7, <2>1, <2>4 DEF PendingIn, PendingRewards, Pending, StakesInv, StakingTypeOK, Stakers
  <2>6. g[a] = 0
    <3>1. staker'[a] = s /\ a \in Stakers'
      BY <1>7 DEF StakesInv, StakingTypeOK
    <3>2. g[a] = Granted(q.accumulated_reward_per_share, s.staked_balance) - s.reward_debt
      BY <2>1, <2>4, <3>1 DEF PendingRewards, Pending
    <3>3. s.reward_debt = Granted(q.accumulated_reward_per_share, s.staked_balance) /\ s.reward_debt \in Nat
      BY <1>2, StakerFields DEF StakeUpdated
    <3>4. QED
      BY <3>2, <3>3
  <2>7. IsStore(f, g, a)
    BY <2>2, <2>3, <2>5, <2>6 DEF IsStore, StakesInv
  <2>8. PICK k \in Nat : k = Pending(q, o)
    BY <1>2, <1>3, PendingNat DEF StakesInv
  <2>9. (IF a \in DOMAIN f THEN f[a] ELSE 0) = k
    <3>1. CASE a \in Stakers
      BY <2>1, <2>2, <2>8, <3>1 DEF PendingIn, Pending, SameStake
    <3>2. CASE a \notin Stakers
      <4>1. o.staked_balance = 0
        BY <3>2 DEF SameStake
      <4>2. k = 0
        BY <1>2, <1>3, <2>8, <4>1, PendingNat DEF StakesInv
      <4>3. QED
        BY <2>2, <3>2, <4>2
    <3>3. QED
      BY <3>1, <3>2
  <2>10. PICK m \in Nat : m = SumFunction(f)
    BY <2>7, SumFunctionType DEF IsStore
  <2>11. SumFunction(g) = m - k
    <3>1. SumFunction(g) = SumFunction(f) - (IF a \in DOMAIN f THEN f[a] ELSE 0) + g[a]
      BY <2>7, SumAfterStore
    <3>2. SumFunction(g) = m - k + 0
      BY <2>6, <2>9, <2>10, <3>1
    <3>3. QED
      BY <3>2
  <2>12. q.balance >= m
    BY <1>2, <2>1, <2>10 DEF Covers
  <2>13. pool'.balance >= q.balance - k /\ q.balance \in Nat /\ pool'.balance \in Nat
    BY <1>2, <1>3, <1>6, <2>8, PoolFields DEF StakeUpdated
  <2>14. pool'.balance >= SumFunction(g)
    BY <2>11, <2>12, <2>13
  <2>15. \A x \in Stakers' : g[x] >= 0
    BY <1>7, <2>3, <2>5, <2>6
  <2>16. QED
    BY <2>1, <2>14, <2>15 DEF RewardsCovered
<1>10. Shortfall' = Shortfall
  <2>1. pool.to_withdraw \in Nat /\ SumFunction(LockedBalances) \in Nat
    BY PoolFields, SumsTyped DEF StakesInv, StakingTypeOK
  <2>2. LockedOf(a) \in Nat /\ s.locked_balance \in Nat
    BY StoredStaker, StakerFields DEF LockedOf, StakesInv
  <2>3. PICK W, L, m, k \in Nat : /\ W = pool.to_withdraw /\ L = SumFunction(LockedBalances)
                                  /\ m = LockedOf(a) /\ k = s.locked_balance
    BY <2>1, <2>2
  <2>4. Shortfall' = (L - m + k) - n /\ n = W - m + k /\ Shortfall = L - W
    BY <1>6, <1>7, <2>3 DEF Shortfall
  <2>5. (L - m + k) - (W - m + k) = L - W
    OBVIOUS
  <2>6. QED
    BY <2>4, <2>5
<1>11. s.staked_balance = balance
  BY <1>2 DEF StakeUpdated
<1>12. QED
  BY <1>2, <1>3, <1>6, <1>7, <1>8, <1>9, <1>10, <1>11 DEF StakeUpdated

(* The same after a report that changes only what is locked. *)
LEMMA LockStep ==
    ASSUME StakesInv, NEW a \in Stakers, NEW s \in StakeInfo, SameStake(a, s),
           staker' = [staker EXCEPT ![a] = s],
           NEW n \in Nat, pool' = [pool EXCEPT !.to_withdraw = n]
    PROVE  /\ staker' \in [Account -> StakeInfo \cup {None}]
           /\ pool' \in Pool /\ pool'.time_of_last_allocation = pool.time_of_last_allocation
           /\ IsFiniteSet(Stakers') /\ StakeTotals' /\ RewardsCovered'
           /\ Shortfall' = (SumFunction(LockedBalances) - LockedOf(a) + s.locked_balance) - n
           /\ Restored(a, s.staked_balance, s.locked_balance)
<1>1. pool \in Pool /\ a \in Account
  BY DEF StakesInv, StakingTypeOK, Stakers
<1>2. /\ pool' \in Pool /\ pool'.to_withdraw = n
      /\ pool'.time_of_last_allocation = pool.time_of_last_allocation
      /\ pool'.total_stake_amount = pool.total_stake_amount
      /\ pool'.total_reward_debt = pool.total_reward_debt
      /\ pool'.total_stakers = pool.total_stakers
      /\ pool'.accumulated_reward_per_share = pool.accumulated_reward_per_share
      /\ pool'.balance = pool.balance
  BY <1>1 DEF Pool
<1>3. /\ staker' \in [Account -> StakeInfo \cup {None}]
      /\ Stakers' = Stakers \cup {a} /\ IsFiniteSet(Stakers')
      /\ SumFunction(StakedBalances') = pool.total_stake_amount - s.staked_balance + s.staked_balance
      /\ SumFunction(RewardDebts') = pool.total_reward_debt - s.reward_debt + s.reward_debt
      /\ SumFunction(LockedBalances') = SumFunction(LockedBalances) - LockedOf(a) + s.locked_balance
      /\ Cardinality({x \in Stakers' : staker'[x].staked})
           = StakersAfter(pool.total_stakers, s.staked, s.staked)
      /\ Restored(a, s.staked_balance, s.locked_balance)
  BY <1>1, StakerStored
<1>4. StakeTotals'
  <2>1. pool.total_stake_amount \in Nat /\ pool.total_reward_debt \in Nat
        /\ s.staked_balance \in Nat /\ s.reward_debt \in Nat
    BY <1>1, PoolFields, StakerFields
  <2>2. StakersAfter(pool.total_stakers, s.staked, s.staked) = pool.total_stakers
    BY DEF StakersAfter
  <2>3. QED
    BY <1>2, <1>3, <2>1, <2>2 DEF StakeTotals
<1>5. PendingRewards' = PendingRewards
  <2>1. Stakers' = Stakers
    BY <1>3
  <2>2. \A x \in Stakers : Pending(pool', staker'[x]) = Pending(pool, staker[x])
    BY <1>2 DEF Pending, SameStake, StakesInv, StakingTypeOK, Stakers
  <2>3. QED
    BY <2>1, <2>2 DEF PendingRewards
<1>6. RewardsCovered'
  <2>1. Stakers' = Stakers
    BY <1>3
  <2>2. QED
    BY <1>2, <1>5, <2>1 DEF RewardsCovered, StakesInv
<1>7. Shortfall' = (SumFunction(LockedBalances) - LockedOf(a) + s.locked_balance) - n
  BY <1>2, <1>3 DEF Shortfall
<1>8. QED
  BY <1>2, <1>3, <1>4, <1>6, <1>7

-----------------------------------------------------------------------------
(* The rest of the invariant after a report about one staker. *)
LEMMA ReportStep ==
    ASSUME StakesInv, NEW a \in Account, NEW s \in StakeInfo, staker' = [staker EXCEPT ![a] = s],
           s.start_vote_count <= voteCount, s.start_vote_tally <= voteTally[a],
           NEW t \in Nat, t <= now, t <= s.start_date, requested' = [requested EXCEPT ![a] = t],
           UNCHANGED <<now, stakeAmount, voteCount, voteTally>>,
           staker' \in [Account -> StakeInfo \cup {None}],
           pool' \in Pool, pool'.time_of_last_allocation <= now,
           IsFiniteSet(Stakers'), StakeTotals', RewardsCovered'
    PROVE  StakesInv'
<1>1. StakingTypeOK'
  BY DEF StakesInv, StakingTypeOK
<1>2. staker \in [Account -> StakeInfo \cup {None}] /\ requested \in [Account -> Nat]
  BY DEF StakesInv, StakingTypeOK
<1>3. VotesBegun'
  BY <1>2 DEF StakesInv, VotesBegun, Stakers
<1>4. RequestsDated'
  BY <1>2 DEF StakesInv, RequestsDated, Stakers
<1>5. QED
  BY <1>1, <1>3, <1>4 DEF StakesInv

(* What a request leaves as it is. *)
LEMMA SameRequests ==
    ASSUME StakesInv, UNCHANGED requested, NEW a \in Account
    PROVE  requested' = [requested EXCEPT ![a] = requested[a]] /\ requested[a] \in Nat /\ requested[a] <= now
  BY DEF StakesInv, StakingTypeOK, RequestsDated

(* Reducing the amount to withdraw. *)
LEMMA ReleasedResult ==
    ASSUME StakesInv, NEW n \in Nat
    PROVE  /\ pool.to_withdraw \in Nat
           /\ Released(pool, n) # Failed =>
                 /\ n <= pool.to_withdraw
                 /\ Released(pool, n) = [pool EXCEPT !.to_withdraw = pool.to_withdraw - n]
<1>1. pool.to_withdraw \in Nat
  BY PoolFields DEF StakesInv, StakingTypeOK
<1>2. QED
  BY <1>1 DEF Released

(* The shortfall is a number. *)
LEMMA ShortfallInt == ASSUME StakesInv PROVE Shortfall \in Int
<1>1. pool.to_withdraw \in Nat /\ SumFunction(LockedBalances) \in Nat
  BY PoolFields, SumsTyped DEF StakesInv, StakingTypeOK
<1>2. QED
  BY <1>1 DEF Shortfall

(* report_stake_deposited *)
LEMMA DepositInv ==
    ASSUME StakesInv, NEW a \in Account, NEW amount \in Nat, NEW address \in Address,
           ReportStakeDeposited(a, amount, address)
    PROVE  /\ StakesInv' /\ Shortfall' = Shortfall
           /\ Restored(a, StakedOf(a) + amount,
                       IF LockedOf(a) > amount THEN LockedOf(a) - amount ELSE 0)
<1>0. PICK exists \in BOOLEAN : Apply(a, DepositResult(a, amount, address, exists))
  BY DEF ReportStakeDeposited
<1> DEFINE old == IF staker[a] = None THEN NewStaker(address) ELSE staker[a]
           used == IF old.locked_balance >= amount THEN amount ELSE old.locked_balance
           begun == IF old.locked_balance = 0 /\ old.staked_balance = 0
                    THEN [old EXCEPT !.start_vote_count = voteCount, !.start_vote_tally = voteTally[a]]
                    ELSE [old EXCEPT !.locked_balance = @ - used]
           released == Released(pool, used)
           r == UpdateStake(released, a, begun, old.staked_balance + amount, exists)
           result == DepositResult(a, amount, address, exists)
<1>1. /\ result # Failed /\ pool' = result.pool /\ staker' = [staker EXCEPT ![a] = result.staker]
      /\ UNCHANGED <<now, stakeAmount, voteCount, voteTally, requested>>
  BY <1>0 DEF ReportStakeDeposited, Apply
<1>2. released # Failed /\ r # Failed /\ result = [r EXCEPT !.staker.start_date = now]
  BY <1>1 DEF DepositResult
<1> HIDE DEF result, r
<1>3. /\ StakingTypeOK /\ IsFiniteSet(Stakers) /\ now \in Nat /\ voteCount \in Nat /\ voteTally[a] \in Nat
      /\ a \in Stakers <=> staker[a] # None
  BY DEF StakesInv, StakingTypeOK, Stakers
<1>4. /\ old \in StakeInfo /\ SameStake(a, old)
      /\ old.locked_balance = LockedOf(a) /\ old.staked_balance = StakedOf(a)
  <2>1. CASE staker[a] = None
    BY <1>3, <2>1 DEF NewStaker, StakeInfo, SameStake, LockedOf, StakedOf
  <2>2. CASE staker[a] # None
    BY <1>3, <2>2, StoredStaker DEF SameStake, LockedOf, StakedOf
  <2>3. QED
    BY <2>1, <2>2
<1>5. old.locked_balance \in Nat /\ old.staked_balance \in Nat
  BY <1>4, StakerFields
<1>6. used \in Nat /\ used <= old.locked_balance /\ (old.locked_balance = 0 => used = 0)
  BY <1>5
<1>7. /\ begun \in StakeInfo /\ SameStake(a, begun)
      /\ begun.locked_balance = old.locked_balance - used
      /\ begun.start_vote_count <= voteCount /\ begun.start_vote_tally <= voteTally[a]
  <2>1. CASE old.locked_balance = 0 /\ old.staked_balance = 0
    <3>1. begun = [old EXCEPT !.start_vote_count = voteCount, !.start_vote_tally = voteTally[a]]
      BY <2>1
    <3> HIDE DEF begun, old, used
    <3>2. /\ begun \in StakeInfo /\ begun.start_vote_count = voteCount
          /\ begun.start_vote_tally = voteTally[a]
          /\ begun.locked_balance = old.locked_balance
          /\ begun.staked_balance = old.staked_balance /\ begun.reward_debt = old.reward_debt
          /\ begun.staked = old.staked
      BY <1>3, <1>4, <3>1 DEF StakeInfo
    <3>3. SameStake(a, begun)
      BY <1>4, <3>2 DEF SameStake
    <3>4. begun.locked_balance = old.locked_balance - used
      <4>1. used = 0 /\ begun.locked_balance = 0 /\ old.locked_balance = 0
        BY <1>6, <2>1, <3>2
      <4>2. 0 = 0 - 0
        OBVIOUS
      <4>3. QED
        BY <4>1, <4>2, Zenon
    <3>5. begun.start_vote_count <= voteCount /\ begun.start_vote_tally <= voteTally[a]
      BY <1>3, <3>2
    <3>6. QED
      BY <3>2, <3>3, <3>4, <3>5
  <2>2. CASE ~(old.locked_balance = 0 /\ old.staked_balance = 0)
    <3>1. PICK m \in Nat : m = old.locked_balance - used
      BY <1>5, <1>6
    <3>2. begun = [old EXCEPT !.locked_balance = m]
      BY <2>2, <3>1
    <3>3. a \in Stakers /\ old = staker[a]
      BY <1>3, <2>2 DEF NewStaker
    <3>4. old.start_vote_count <= voteCount /\ old.start_vote_tally <= voteTally[a]
      BY <3>3 DEF StakesInv, VotesBegun
    <3> HIDE DEF begun, old, used
    <3>5. /\ begun \in StakeInfo /\ begun.start_vote_count = old.start_vote_count
          /\ begun.start_vote_tally = old.start_vote_tally /\ begun.locked_balance = m
          /\ begun.staked_balance = old.staked_balance /\ begun.reward_debt = old.reward_debt
          /\ begun.staked = old.staked
      BY <1>4, <3>2 DEF StakeInfo
    <3>6. SameStake(a, begun)
      BY <1>4, <3>5 DEF SameStake
    <3>7. QED
      BY <3>1, <3>4, <3>5, <3>6
  <2>3. QED
    BY <2>1, <2>2
<1> HIDE DEF old, used, begun
<1>8. /\ pool.to_withdraw \in Nat /\ used <= pool.to_withdraw
      /\ released = [pool EXCEPT !.to_withdraw = pool.to_withdraw - used]
  BY <1>2, <1>6, ReleasedResult
<1>9. PICK k, b \in Nat : k = pool.to_withdraw - used /\ b = old.staked_balance + amount
  BY <1>5, <1>6, <1>8
<1> HIDE DEF released
<1>10. StakesOf(released) /\ Covers(released)
  BY <1>8, <1>9, StoredPool
<1>11. released.total_stakers = pool.total_stakers /\ released.to_withdraw = k /\ released \in Pool
  BY <1>8, <1>9 DEF StakesInv, StakingTypeOK, Pool
<1>12. r = UpdateStake(released, a, begun, b, exists)
  BY <1>9 DEF r
<1>13. /\ DOMAIN r = {"pool", "staker"} /\ UpdateRewards(released) # Failed
       /\ StakeUpdated(r, UpdateRewards(released), begun, b)
  BY <1>2, <1>3, <1>7, <1>10, <1>12, UpdateStakeResult
<1>14. r.pool \in Pool /\ r.staker \in StakeInfo /\ r.pool.to_withdraw = k
       /\ r.staker.locked_balance = begun.locked_balance
       /\ r.staker.start_vote_count = begun.start_vote_count
       /\ r.staker.start_vote_tally = begun.start_vote_tally
  <2>1. UpdateRewards(released).to_withdraw = released.to_withdraw
    BY <1>3, <1>10, <1>11, <1>13, UpdateRewardsResult DEF StakesOf
  <2>2. QED
    BY <1>11, <1>13, <2>1 DEF StakeUpdated
<1>15. PICK s : s = [r.staker EXCEPT !.start_date = now]
  OBVIOUS
<1>16. pool' = r.pool /\ staker' = [staker EXCEPT ![a] = s]
  BY <1>1, <1>2, <1>13, <1>15
<1>17. /\ s \in StakeInfo /\ s.start_date = now
       /\ s.staked_balance = r.staker.staked_balance /\ s.reward_debt = r.staker.reward_debt
       /\ s.staked = r.staker.staked /\ s.locked_balance = r.staker.locked_balance
       /\ s.start_vote_count = r.staker.start_vote_count
       /\ s.start_vote_tally = r.staker.start_vote_tally
  BY <1>3, <1>14, <1>15 DEF StakeInfo
<1>18. k = pool.to_withdraw - LockedOf(a) + s.locked_balance
  BY <1>4, <1>5, <1>6, <1>7, <1>8, <1>9, <1>14, <1>17
<1>19. pool' = [r.pool EXCEPT !.to_withdraw = k]
  BY <1>14, <1>16 DEF Pool
<1>20. /\ staker' \in [Account -> StakeInfo \cup {None}]
       /\ pool' \in Pool /\ pool'.time_of_last_allocation = now
       /\ IsFiniteSet(Stakers') /\ StakeTotals' /\ RewardsCovered'
       /\ Shortfall' = Shortfall /\ Restored(a, b, s.locked_balance)
  <2>1. IsStakeChange(a, released, begun, b, r, s, k)
    BY <1>2, <1>7, <1>10, <1>11, <1>12, <1>17, <1>18 DEF IsStakeChange
  <2>2. QED
    BY <1>16, <1>19, <2>1, StakeUpdateStep
<1>21. PICK t \in Nat : t = requested[a] /\ t <= now /\ requested' = [requested EXCEPT ![a] = t]
  BY <1>1, SameRequests
<1>22. QED
  <2>1. s.start_vote_count <= voteCount /\ s.start_vote_tally <= voteTally[a] /\ t <= s.start_date
    BY <1>7, <1>14, <1>17, <1>21
  <2>2. pool'.time_of_last_allocation <= now
    BY <1>3, <1>20
  <2>3. UNCHANGED <<now, stakeAmount, voteCount, voteTally>>
    BY <1>1
  <2>4. StakesInv'
    BY <1>16, <1>17, <1>20, <1>21, <2>1, <2>2, <2>3, ReportStep
  <2>5. s.locked_balance = IF LockedOf(a) > amount THEN LockedOf(a) - amount ELSE 0
    <3>1. s.locked_balance = LockedOf(a) - used
      BY <1>4, <1>7, <1>14, <1>17
    <3>2. used = (IF LockedOf(a) >= amount THEN amount ELSE LockedOf(a)) /\ LockedOf(a) \in Nat
      BY <1>4, <1>5 DEF used
    <3>3. QED
      BY ONLY <3>1, <3>2, amount \in Nat
  <2>6. b = StakedOf(a) + amount
    BY <1>4, <1>9
  <2>7. QED
    BY ONLY <1>20, <2>4, <2>5, <2>6

(* What is stored for an account with a staker, as the lemmas need it. *)
LEMMA StoredStake ==
    ASSUME StakesInv, NEW a \in Account, staker[a] # None
    PROVE  /\ a \in Stakers /\ staker[a] \in StakeInfo /\ SameStake(a, staker[a])
           /\ LockedOf(a) = staker[a].locked_balance /\ StakedOf(a) = staker[a].staked_balance
           /\ staker[a].locked_balance \in Nat /\ staker[a].staked_balance \in Nat
           /\ staker[a].start_date \in Nat
           /\ staker[a].start_vote_count <= voteCount /\ staker[a].start_vote_tally <= voteTally[a]
           /\ requested[a] \in Nat /\ requested[a] <= staker[a].start_date
           /\ pool.to_withdraw \in Nat
<1>1. a \in Stakers /\ staker[a] \in StakeInfo /\ requested[a] \in Nat /\ pool \in Pool
  BY DEF StakesInv, StakingTypeOK, Stakers
<1>2. /\ SameStake(a, staker[a]) /\ LockedOf(a) = staker[a].locked_balance
      /\ StakedOf(a) = staker[a].staked_balance
  BY <1>1 DEF SameStake, LockedOf, StakedOf
<1>3. QED
  BY <1>1, <1>2, StakerFields, PoolFields DEF StakesInv, VotesBegun, RequestsDated

(* report_staking_withdraw_request *)
LEMMA WithdrawRequestInv ==
    ASSUME StakesInv, NEW a \in Account, NEW amount \in Nat, NEW address \in Address,
           ReportStakingWithdrawRequest(a, amount, address)
    PROVE  /\ StakesInv' /\ Shortfall' = Shortfall
           /\ Restored(a, StakedOf(a) - amount, LockedOf(a) + amount)
<1>0. PICK exists \in BOOLEAN : Apply(a, WithdrawRequestResult(a, amount, address, exists))
  BY DEF ReportStakingWithdrawRequest
<1> DEFINE o == staker[a]
           r == UpdateStake(pool, a, o, o.staked_balance - amount, exists)
           result == WithdrawRequestResult(a, amount, address, exists)
<1>1. /\ result # Failed /\ pool' = result.pool /\ staker' = [staker EXCEPT ![a] = result.staker]
      /\ UNCHANGED <<now, stakeAmount, voteCount, voteTally>>
      /\ requested' = [requested EXCEPT ![a] = now]
  BY <1>0 DEF ReportStakingWithdrawRequest, Apply
<1>2. /\ o # None /\ r # Failed /\ ~(o.staked_balance < amount)
      /\ result = [pool |-> [r.pool EXCEPT !.to_withdraw = r.pool.to_withdraw + amount],
                   staker |-> Requested(r.staker, amount)]
  BY <1>1 DEF WithdrawRequestResult
<1> HIDE DEF result
<1>3. /\ SameStake(a, o) /\ LockedOf(a) = o.locked_balance /\ StakedOf(a) = o.staked_balance
      /\ o.locked_balance \in Nat /\ o.staked_balance \in Nat
      /\ o.start_vote_count <= voteCount /\ o.start_vote_tally <= voteTally[a]
      /\ pool.to_withdraw \in Nat
  BY <1>2, StoredStake
<1>4. StakingTypeOK /\ IsFiniteSet(Stakers) /\ now \in Nat
  BY DEF StakesInv, StakingTypeOK
<1>5. PICK b \in Nat : b = o.staked_balance - amount
  BY <1>2, <1>3
<1>6. r = UpdateStake(pool, a, o, b, exists)
  BY <1>5
<1> HIDE DEF r, o
<1>7. StakesOf(pool) /\ Covers(pool)
  BY <1>3, StoredPool
<1>8. UpdateRewards(pool) # Failed /\ StakeUpdated(r, UpdateRewards(pool), o, b)
  BY <1>2, <1>3, <1>4, <1>6, <1>7, UpdateStakeResult
<1>9. r.pool \in Pool /\ r.staker \in StakeInfo /\ r.pool.to_withdraw = pool.to_withdraw
      /\ r.staker.locked_balance = o.locked_balance
      /\ r.staker.start_vote_count = o.start_vote_count
      /\ r.staker.start_vote_tally = o.start_vote_tally
  <2>1. UpdateRewards(pool).to_withdraw = pool.to_withdraw
    BY <1>4, <1>7, <1>8, UpdateRewardsResult DEF StakesOf
  <2>2. QED
    BY <1>8, <2>1 DEF StakeUpdated
<1>10. PICK k, m \in Nat : k = pool.to_withdraw + amount /\ m = o.locked_balance + amount
  BY <1>3
<1>11. PICK s : s = [r.staker EXCEPT !.start_date = now, !.locked_balance = m]
  OBVIOUS
<1>12. pool' = [r.pool EXCEPT !.to_withdraw = k] /\ staker' = [staker EXCEPT ![a] = s]
  BY <1>1, <1>2, <1>9, <1>10, <1>11 DEF Requested
<1>13. /\ s \in StakeInfo /\ s.start_date = now
       /\ s.staked_balance = r.staker.staked_balance /\ s.reward_debt = r.staker.reward_debt
       /\ s.staked = r.staker.staked /\ s.locked_balance = m
       /\ s.start_vote_count = r.staker.start_vote_count
       /\ s.start_vote_tally = r.staker.start_vote_tally
  BY <1>4, <1>9, <1>11 DEF StakeInfo
<1>14. k = pool.to_withdraw - LockedOf(a) + s.locked_balance
  BY <1>3, <1>10, <1>13
<1>15. /\ staker' \in [Account -> StakeInfo \cup {None}]
       /\ pool' \in Pool /\ pool'.time_of_last_allocation = now
       /\ IsFiniteSet(Stakers') /\ StakeTotals' /\ RewardsCovered'
       /\ Shortfall' = Shortfall /\ Restored(a, b, s.locked_balance)
  <2>1. IsStakeChange(a, pool, o, b, r, s, k)
    BY <1>2, <1>3, <1>6, <1>7, <1>13, <1>14 DEF IsStakeChange
  <2>2. QED
    BY <1>12, <2>1, StakeUpdateStep
<1>16. QED
  <2>1. s.start_vote_count <= voteCount /\ s.start_vote_tally <= voteTally[a] /\ now <= s.start_date
    BY <1>3, <1>4, <1>9, <1>13
  <2>2. pool'.time_of_last_allocation <= now /\ now <= now
    BY <1>4, <1>15
  <2>3. PICK t \in Nat : t = now
    BY <1>4
  <2>4. StakesInv'
    BY <1>1, <1>12, <1>13, <1>15, <2>1, <2>2, <2>3, ReportStep
  <2>5. b = StakedOf(a) - amount /\ s.locked_balance = LockedOf(a) + amount
    BY <1>3, <1>5, <1>10, <1>13 DEF o
  <2>6. QED
    BY ONLY <1>15, <2>4, <2>5

(* A report that changes only what is locked keeps the invariant.  What it *)
(* takes out of ToWithdraw and not out of the locked balance falls short.  *)
LEMMA UnlockInv ==
    ASSUME StakesInv, NEW a \in Account, staker[a] # None,
           NEW amount \in Nat, amount <= staker[a].locked_balance,
           NEW m \in Nat, pool' = Released(pool, m), Released(pool, m) # Failed,
           staker' = [staker EXCEPT ![a] = [staker[a] EXCEPT !.locked_balance = @ - amount]],
           UNCHANGED <<now, stakeAmount, voteCount, voteTally, requested>>
    PROVE  /\ StakesInv' /\ Shortfall' = Shortfall + (m - amount)
           /\ Restored(a, StakedOf(a), LockedOf(a) - amount)
<1> DEFINE o == staker[a]
<1>1. /\ a \in Stakers /\ o \in StakeInfo /\ SameStake(a, o) /\ LockedOf(a) = o.locked_balance
      /\ StakedOf(a) = o.staked_balance
      /\ o.locked_balance \in Nat
      /\ o.start_vote_count <= voteCount /\ o.start_vote_tally <= voteTally[a]
      /\ requested[a] \in Nat /\ requested[a] <= o.start_date
      /\ pool.to_withdraw \in Nat
  BY StoredStake
<1>2. PICK k, n \in Nat : k = o.locked_balance - amount /\ n = pool.to_withdraw - m
  BY <1>1, ReleasedResult
<1>3. pool' = [pool EXCEPT !.to_withdraw = n]
  BY <1>2, ReleasedResult
<1>4. PICK s : s = [o EXCEPT !.locked_balance = k]
  OBVIOUS
<1>5. staker' = [staker EXCEPT ![a] = s]
  BY <1>2, <1>4
<1> HIDE DEF o
<1>6. /\ s \in StakeInfo /\ s.locked_balance = k /\ s.start_date = o.start_date
      /\ s.start_vote_count = o.start_vote_count /\ s.start_vote_tally = o.start_vote_tally
      /\ s.staked_balance = o.staked_balance /\ s.reward_debt = o.reward_debt /\ s.staked = o.staked
  BY <1>1, <1>4 DEF StakeInfo
<1>7. SameStake(a, s)
  BY <1>1, <1>6 DEF SameStake
<1>8. /\ staker' \in [Account -> StakeInfo \cup {None}]
      /\ pool' \in Pool /\ pool'.time_of_last_allocation = pool.time_of_last_allocation
      /\ IsFiniteSet(Stakers') /\ StakeTotals' /\ RewardsCovered'
      /\ Shortfall' = (SumFunction(LockedBalances) - LockedOf(a) + s.locked_balance) - n
      /\ Restored(a, s.staked_balance, s.locked_balance)
  BY <1>1, <1>3, <1>5, <1>6, <1>7, LockStep
<1>9. pool'.time_of_last_allocation <= now
  BY <1>8 DEF StakesInv, StakingTypeOK
<1>10. PICK t \in Nat : t = requested[a] /\ t <= now /\ requested' = [requested EXCEPT ![a] = t]
  BY SameRequests
<1>11. t <= s.start_date
  BY <1>1, <1>6, <1>10
<1>12. StakesInv'
  BY <1>1, <1>5, <1>6, <1>8, <1>9, <1>10, <1>11, ReportStep
<1>13. Shortfall' = Shortfall + (m - amount)
  <2>1. SumFunction(LockedBalances) \in Nat
    BY SumsTyped DEF StakesInv
  <2>2. PICK L, W, x \in Nat : L = SumFunction(LockedBalances) /\ W = pool.to_withdraw /\ x = LockedOf(a)
    BY <1>1, <2>1
  <2>3. Shortfall' = (L - x + (x - amount)) - (W - m) /\ Shortfall = L - W
    BY <1>1, <1>2, <1>6, <1>8, <2>2 DEF Shortfall
  <2>4. (L - x + (x - amount)) - (W - m) = (L - W) + (m - amount)
    OBVIOUS
  <2>5. QED
    BY <2>3, <2>4
<1>14. QED
  BY <1>1, <1>2, <1>6, <1>8, <1>12, <1>13

(* report_stake_withdrawn, of any part of the locked balance *)
LEMMA WithdrawnInv ==
    ASSUME StakesInv, NEW a \in Account, NEW amount \in Nat, ReportStakeWithdrawn(a, amount)
    PROVE  /\ StakesInv' /\ LockedOf(a) \in Nat /\ amount <= LockedOf(a)
           /\ Shortfall' = Shortfall + (LockedOf(a) - amount)
           /\ Restored(a, StakedOf(a), LockedOf(a) - amount)
<1> DEFINE m == staker[a].locked_balance
           result == WithdrawnResult(a, amount)
<1>1. /\ result # Failed /\ pool' = result.pool /\ staker' = [staker EXCEPT ![a] = result.staker]
      /\ UNCHANGED <<now, stakeAmount, voteCount, voteTally, requested>>
  BY DEF ReportStakeWithdrawn, Apply
<1>2. /\ staker[a] # None /\ Released(pool, m) # Failed /\ ~(m < amount)
      /\ result = [pool |-> Released(pool, m),
                   staker |-> [staker[a] EXCEPT !.locked_balance = @ - amount]]
  BY <1>1 DEF WithdrawnResult
<1>3. m \in Nat /\ amount <= m /\ m = LockedOf(a)
  BY <1>2, StoredStake
<1> HIDE DEF result
<1>4. pool' = Released(pool, m)
      /\ staker' = [staker EXCEPT ![a] = [staker[a] EXCEPT !.locked_balance = @ - amount]]
  BY <1>1, <1>2
<1>5. amount <= staker[a].locked_balance
  BY <1>3
<1> HIDE DEF m
<1>6. StakesInv' /\ Shortfall' = Shortfall + (m - amount) /\ Restored(a, StakedOf(a), LockedOf(a) - amount)
  <2>1. UNCHANGED <<now, stakeAmount, voteCount, voteTally, requested>>
    BY <1>1
  <2>2. staker[a] # None /\ Released(pool, m) # Failed /\ m \in Nat
    BY <1>2, <1>3
  <2>3. QED
    BY <1>4, <1>5, <2>1, <2>2, UnlockInv
<1>7. QED
  BY <1>3, <1>6

(* The stake that a slash beyond the locked balance leaves. *)
LEMMA SlashedStakeNat ==
    ASSUME NEW s \in StakeInfo, NEW amount \in Nat, s.locked_balance < amount
    PROVE  SlashedStake(s, amount) \in Nat /\ SlashedLock(s, amount) = s.locked_balance
  BY StakerFields DEF SlashedStake, SlashedLock

(* report_slash *)
LEMMA SlashInv ==
    ASSUME StakesInv, NEW a \in Account, NEW amount \in Nat, ReportSlash(a, amount)
    PROVE  /\ StakesInv' /\ Shortfall' = Shortfall /\ staker[a] # None
           /\ LockedOf(a) >= amount => Restored(a, StakedOf(a), LockedOf(a) - amount)
           /\ ~(LockedOf(a) >= amount) => Restored(a, SlashedStake(staker[a], amount), 0)
<1>0. PICK exists \in BOOLEAN : Apply(a, SlashResult(a, amount, exists))
  BY DEF ReportSlash
<1> DEFINE o == staker[a]
           released == Released(pool, SlashedLock(o, amount))
           b == SlashedStake(o, amount)
           r == UpdateStake(released, a, o, b, exists)
           result == SlashResult(a, amount, exists)
<1>1. /\ result # Failed /\ pool' = result.pool /\ staker' = [staker EXCEPT ![a] = result.staker]
      /\ UNCHANGED <<now, stakeAmount, voteCount, voteTally, requested>>
  BY <1>0 DEF ReportSlash, Apply
<1>2. /\ o # None /\ released # Failed
      /\ o.locked_balance >= amount =>
            result = [pool |-> released, staker |-> [o EXCEPT !.locked_balance = @ - amount]]
      /\ ~(o.locked_balance >= amount) => r # Failed /\ result = [r EXCEPT !.staker.locked_balance = 0]
  BY <1>1 DEF SlashResult
<1> HIDE DEF result
<1>3. /\ o \in StakeInfo /\ SameStake(a, o) /\ LockedOf(a) = o.locked_balance
      /\ o.locked_balance \in Nat /\ o.start_date \in Nat
      /\ o.start_vote_count <= voteCount /\ o.start_vote_tally <= voteTally[a]
      /\ requested[a] \in Nat /\ requested[a] <= o.start_date
      /\ pool.to_withdraw \in Nat
  BY <1>2, StoredStake
<1>4. CASE o.locked_balance >= amount
  <2>1. SlashedLock(o, amount) = amount
    BY <1>4 DEF SlashedLock
  <2>2. pool' = Released(pool, amount) /\ Released(pool, amount) # Failed
    BY <1>1, <1>2, <1>4, <2>1
  <2>3. staker' = [staker EXCEPT ![a] = [staker[a] EXCEPT !.locked_balance = @ - amount]]
    <3>1. result.staker = [o EXCEPT !.locked_balance = @ - amount]
      BY <1>2, <1>4
    <3>2. QED
      BY <1>1, <3>1
  <2>4. amount <= staker[a].locked_balance
    BY <1>3, <1>4
  <2>5. StakesInv' /\ Shortfall' = Shortfall + (amount - amount)
        /\ Restored(a, StakedOf(a), LockedOf(a) - amount)
    BY <1>1, <1>2, <2>2, <2>3, <2>4, UnlockInv
  <2>6. Shortfall + (amount - amount) = Shortfall
    <3>1. Shortfall \in Int
      BY ShortfallInt
    <3>2. QED
      BY <3>1
  <2>7. QED
    BY <1>2, <1>3, <1>4, <2>5, <2>6
<1>5. CASE ~(o.locked_balance >= amount)
  <2>1. b \in Nat /\ SlashedLock(o, amount) = o.locked_balance
    BY <1>3, <1>5, SlashedStakeNat
  <2>2. PICK k \in Nat : k = pool.to_withdraw - o.locked_balance
    BY <1>2, <1>3, <2>1, ReleasedResult
  <2>3. released = [pool EXCEPT !.to_withdraw = k]
    BY <1>2, <1>3, <2>1, <2>2, ReleasedResult
  <2>4. StakingTypeOK /\ IsFiniteSet(Stakers) /\ now \in Nat
    BY DEF StakesInv, StakingTypeOK
  <2>5. r # Failed /\ result = [r EXCEPT !.staker.locked_balance = 0]
    BY <1>2, <1>5
  <2>6. r = UpdateStake(released, a, o, b, exists)
    OBVIOUS
  <2> HIDE DEF released, b, r, o
  <2>7. StakesOf(released) /\ Covers(released)
    BY <2>3, StoredPool
  <2>8. released.total_stakers = pool.total_stakers /\ released.to_withdraw = k /\ released \in Pool
    BY <2>3 DEF StakesInv, StakingTypeOK, Pool
  <2>9. /\ DOMAIN r = {"pool", "staker"} /\ UpdateRewards(released) # Failed
        /\ StakeUpdated(r, UpdateRewards(released), o, b)
    BY <1>3, <2>1, <2>4, <2>5, <2>6, <2>7, UpdateStakeResult
  <2>10. r.pool \in Pool /\ r.staker \in StakeInfo /\ r.pool.to_withdraw = k
         /\ r.staker.start_date = o.start_date
         /\ r.staker.start_vote_count = o.start_vote_count
         /\ r.staker.start_vote_tally = o.start_vote_tally
    <3>1. UpdateRewards(released).to_withdraw = released.to_withdraw
      BY <2>4, <2>7, <2>8, <2>9, UpdateRewardsResult DEF StakesOf
    <3>2. QED
      BY <2>8, <2>9, <3>1 DEF StakeUpdated
  <2>11. PICK s : s = [r.staker EXCEPT !.locked_balance = 0]
    OBVIOUS
  <2>12. pool' = r.pool /\ staker' = [staker EXCEPT ![a] = s]
    BY <1>1, <2>5, <2>9, <2>11
  <2>13. /\ s \in StakeInfo /\ s.start_date = r.staker.start_date
         /\ s.staked_balance = r.staker.staked_balance /\ s.reward_debt = r.staker.reward_debt
         /\ s.staked = r.staker.staked /\ s.locked_balance = 0
         /\ s.start_vote_count = r.staker.start_vote_count
         /\ s.start_vote_tally = r.staker.start_vote_tally
    BY <2>10, <2>11 DEF StakeInfo
  <2>14. k = pool.to_withdraw - LockedOf(a) + s.locked_balance
    BY <1>3, <2>2, <2>13
  <2>15. pool' = [r.pool EXCEPT !.to_withdraw = k]
    BY <2>10, <2>12 DEF Pool
  <2>16. /\ staker' \in [Account -> StakeInfo \cup {None}]
         /\ pool' \in Pool /\ pool'.time_of_last_allocation = now
         /\ IsFiniteSet(Stakers') /\ StakeTotals' /\ RewardsCovered'
         /\ Shortfall' = Shortfall /\ Restored(a, b, s.locked_balance)
    <3>1. IsStakeChange(a, released, o, b, r, s, k)
      BY <1>3, <2>1, <2>5, <2>6, <2>7, <2>8, <2>13, <2>14 DEF IsStakeChange
    <3>2. QED
      BY <2>12, <2>15, <3>1, StakeUpdateStep
  <2>17. PICK t \in Nat : t = requested[a] /\ t <= now /\ requested' = [requested EXCEPT ![a] = t]
    BY <1>1, SameRequests
  <2>18. s.start_vote_count <= voteCount /\ s.start_vote_tally <= voteTally[a] /\ t <= s.start_date
    BY <1>3, <2>10, <2>13, <2>17
  <2>19. pool'.time_of_last_allocation <= now
    BY <2>4, <2>16
  <2>20. StakesInv'
    BY <1>1, <2>12, <2>13, <2>16, <2>17, <2>18, <2>19, ReportStep
  <2>21. b = SlashedStake(staker[a], amount) /\ ~(LockedOf(a) >= amount) /\ staker[a] # None
    BY <1>2, <1>3, <1>5 DEF b, o
  <2>22. QED
    BY ONLY <2>13, <2>16, <2>20, <2>21
<1>6. QED
  BY <1>4, <1>5

(* add_staking_rewards: what is added can only be shared with the stakers. *)
LEMMA RewardsInv ==
    ASSUME StakesInv, NEW amount \in Nat, AddStakingRewards(amount)
    PROVE  StakesInv' /\ Shortfall' = Shortfall /\ staker' = staker
<1> DEFINE p == [pool EXCEPT !.balance = @ + amount]
           q == UpdateRewards(p)
<1>1. /\ q # Failed /\ WithRewardRate(q) # Failed /\ pool' = WithRewardRate(q)
      /\ UNCHANGED <<now, staker, stakeAmount, voteCount, voteTally, requested>>
  BY DEF AddStakingRewards
<1>2. StakingTypeOK /\ IsFiniteSet(Stakers) /\ now \in Nat /\ pool \in Pool
  BY DEF StakesInv, StakingTypeOK
<1>3. StakesOf(pool) /\ Covers(pool)
  BY StoredPool
<1>4. PICK n \in Nat : n = pool.balance + amount
  BY <1>2, PoolFields
<1>5. p = [pool EXCEPT !.balance = n]
  BY <1>4
<1> HIDE DEF p
<1>6. /\ p \in Pool /\ p.balance = n /\ p.time_of_last_allocation = pool.time_of_last_allocation
      /\ p.total_stake_amount = pool.total_stake_amount /\ p.total_reward_debt = pool.total_reward_debt
      /\ p.accumulated_reward_per_share = pool.accumulated_reward_per_share
      /\ p.to_withdraw = pool.to_withdraw /\ p.total_stakers = pool.total_stakers
  BY <1>2, <1>5 DEF Pool
<1>7. StakesOf(p)
  BY <1>3, <1>6 DEF StakesOf
<1>8. Covers(p)
  <2>1. PendingIn(p) = PendingIn(pool)
    BY <1>6 DEF PendingIn, Pending
  <2>2. SumFunction(PendingIn(pool)) \in Int
    BY <1>2, <1>3, PendingWithinAccrued
  <2>3. pool.balance \in Nat
    BY <1>2, PoolFields
  <2>4. p.balance >= SumFunction(PendingIn(pool))
    BY <1>3, <1>4, <1>6, <2>2, <2>3 DEF Covers
  <2>5. QED
    BY <1>3, <2>1, <2>4 DEF Covers
<1>9. StakesOf(q) /\ Covers(q) /\ q \in Pool
  BY <1>1, <1>2, <1>7, <1>8, AccrualCovered DEF StakesOf
<1>10. q.to_withdraw = pool.to_withdraw /\ q.total_stakers = pool.total_stakers
       /\ q.time_of_last_allocation = now
  BY <1>1, <1>2, <1>6, <1>7, UpdateRewardsResult DEF StakesOf
<1> HIDE DEF q
<1>11. PICK rate \in Nat : pool' = [q EXCEPT !.reward_rate = rate]
  BY <1>1, <1>9, WithRewardRateResult
<1>12. /\ pool' \in Pool /\ pool'.balance = q.balance /\ pool'.time_of_last_allocation = now
       /\ pool'.total_stake_amount = q.total_stake_amount
       /\ pool'.total_reward_debt = q.total_reward_debt
       /\ pool'.accumulated_reward_per_share = q.accumulated_reward_per_share
       /\ pool'.to_withdraw = q.to_withdraw /\ pool'.total_stakers = q.total_stakers
  BY <1>9, <1>10, <1>11 DEF Pool
<1>13. Stakers' = Stakers /\ StakedBalances' = StakedBalances /\ LockedBalances' = LockedBalances
       /\ RewardDebts' = RewardDebts
  BY <1>1 DEF Stakers, StakedBalances, LockedBalances, RewardDebts
<1>14. StakeTotals' /\ Shortfall' = Shortfall
  BY <1>1, <1>9, <1>10, <1>12, <1>13 DEF StakeTotals, Shortfall, StakesOf, StakesInv
<1>15. PendingRewards' = PendingIn(q)
  BY <1>1, <1>12, <1>13 DEF PendingRewards, PendingIn, Pending
<1>16. RewardsCovered'
  BY <1>9, <1>12, <1>13, <1>15 DEF RewardsCovered, Covers
<1>17. StakingTypeOK'
  BY <1>1, <1>2, <1>12 DEF StakingTypeOK
<1>18. VotesBegun' /\ RequestsDated'
  BY <1>1, <1>13 DEF StakesInv, VotesBegun, RequestsDated
<1>19. QED
  BY <1>1, <1>2, <1>13, <1>14, <1>16, <1>17, <1>18 DEF StakesInv

(* What leaves the stakers and the pool alone. *)
LEMMA OtherInv ==
    ASSUME StakesInv, UNCHANGED <<staker, pool, requested>>, StakingTypeOK',
           now <= now', voteCount <= voteCount', \A a \in Account : voteTally[a] <= voteTally'[a]
    PROVE  StakesInv' /\ Shortfall' = Shortfall
<1>1. Stakers' = Stakers /\ StakedBalances' = StakedBalances /\ LockedBalances' = LockedBalances
      /\ RewardDebts' = RewardDebts /\ PendingRewards' = PendingRewards
  BY DEF Stakers, StakedBalances, LockedBalances, RewardDebts, PendingRewards
<1>2. StakeTotals' /\ RewardsCovered' /\ IsFiniteSet(Stakers') /\ Shortfall' = Shortfall
  BY <1>1 DEF StakesInv, StakeTotals, RewardsCovered, Shortfall
<1>3. VotesBegun'
  <2>1. SUFFICES ASSUME NEW a \in Stakers
                 PROVE  /\ staker[a].start_vote_count <= voteCount'
                        /\ staker[a].start_vote_tally <= voteTally'[a]
    BY <1>1 DEF VotesBegun
  <2>2. staker[a].start_vote_count \in Nat /\ staker[a].start_vote_tally \in Nat /\ a \in Account
    BY StoredStaker, StakerFields DEF StakesInv
  <2>3. PICK m, n \in Nat : m = voteCount /\ n = voteTally[a]
    BY <2>2 DEF StakesInv, StakingTypeOK
  <2>4. PICK v, w \in Nat : v = voteCount' /\ w = voteTally'[a]
    BY <2>2 DEF StakingTypeOK
  <2>5. staker[a].start_vote_count <= m /\ staker[a].start_vote_tally <= n /\ m <= v /\ n <= w
    BY <2>2, <2>3, <2>4 DEF StakesInv, VotesBegun
  <2>6. staker[a].start_vote_count <= v /\ staker[a].start_vote_tally <= w
    BY <2>2, <2>5
  <2>7. QED
    BY <2>4, <2>6
<1>4. RequestsDated'
  <2>1. ASSUME NEW a \in Account PROVE requested[a] <= now'
    <3>1. PICK m, n, t \in Nat : m = now /\ n = now' /\ t = requested[a]
      BY DEF StakesInv, StakingTypeOK
    <3>2. t <= m /\ m <= n
      BY <3>1 DEF StakesInv, RequestsDated
    <3>3. t <= n
      BY <3>2
    <3>4. QED
      BY <3>1, <3>3
  <2>2. QED
    BY <1>1, <2>1 DEF StakesInv, RequestsDated
<1>5. QED
  BY <1>2, <1>3, <1>4 DEF StakesInv

(* Rounds opened, votes cast, the stake amount and time. *)
LEMMA AroundInv ==
    ASSUME StakesInv, VoteStep \/ UpdateStakeAmount \/ AdvanceTime
    PROVE  StakesInv' /\ Shortfall' = Shortfall /\ staker' = staker
<1>1. StakingTypeOK /\ now \in Nat /\ voteCount \in Nat /\ voteTally \in [Account -> Nat]
  BY DEF StakesInv, StakingTypeOK
<1>2. CASE OpenVote
  <2>1. StakingTypeOK' /\ voteCount <= voteCount'
    BY <1>1, <1>2 DEF StakingTypeOK, OpenVote
  <2>2. UNCHANGED <<staker, pool, requested>> /\ now <= now' /\ \A a \in Account : voteTally[a] <= voteTally'[a]
    BY <1>1, <1>2 DEF OpenVote
  <2>3. QED
    BY <2>1, <2>2, OtherInv
<1>3. ASSUME NEW a \in Account, CastVote(a)
      PROVE  StakesInv' /\ Shortfall' = Shortfall /\ staker' = staker
  <2>1. StakingTypeOK' /\ \A x \in Account : voteTally[x] <= voteTally'[x]
    BY <1>1, <1>3 DEF StakingTypeOK, CastVote
  <2>2. UNCHANGED <<staker, pool, requested>> /\ now <= now' /\ voteCount <= voteCount'
    BY <1>1, <1>3 DEF CastVote
  <2>3. QED
    BY <2>1, <2>2, OtherInv
<1>4. CASE UpdateStakeAmount
  <2>1. StakingTypeOK'
    BY <1>1, <1>4, StakingAssumption DEF StakingTypeOK, UpdateStakeAmount
  <2>2. /\ UNCHANGED <<staker, pool, requested>> /\ now <= now' /\ voteCount <= voteCount'
        /\ \A x \in Account : voteTally[x] <= voteTally'[x]
    BY <1>1, <1>4 DEF UpdateStakeAmount
  <2>3. QED
    BY <2>1, <2>2, OtherInv
<1>5. CASE AdvanceTime
  <2>1. /\ UNCHANGED <<staker, pool, requested>> /\ now <= now' /\ voteCount <= voteCount'
        /\ \A x \in Account : voteTally[x] <= voteTally'[x]
    BY <1>1, <1>5 DEF AdvanceTime
  <2>2. pool.time_of_last_allocation \in Nat /\ pool.time_of_last_allocation <= now
    BY <1>1, PoolFields DEF StakingTypeOK
  <2>3. now' = now + 1
    BY <1>5 DEF AdvanceTime
  <2>4. now' \in Nat /\ pool.time_of_last_allocation <= now'
    BY <1>1, <2>2, <2>3
  <2>5. StakingTypeOK'
    BY <1>1, <1>5, <2>4 DEF StakingTypeOK, AdvanceTime
  <2>6. QED
    BY <2>1, <2>5, OtherInv
<1>6. QED
  BY <1>2, <1>3, <1>4, <1>5 DEF VoteStep

(* Every step keeps the invariant. *)
LEMMA StakingStep == StakingInv /\ [StakingNext]_stakingVars => StakingInv'
<1> SUFFICES ASSUME StakesInv, Shortfall = 0, [StakingNext]_stakingVars
             PROVE  StakesInv' /\ Shortfall' = 0
  BY DEF StakingInv
<1>1. CASE DepositStep
  <2>1. PICK a \in Account, amount \in Deposits, address \in Address :
            ReportStakeDeposited(a, amount, address)
    BY <1>1 DEF DepositStep
  <2>2. amount \in Nat
    BY StakingAssumption
  <2>3. QED
    BY <2>1, <2>2, DepositInv
<1>2. CASE RequestStep
  <2>1. PICK a \in Account, amount \in Requests, address \in Address :
            ReportStakingWithdrawRequest(a, amount, address)
    BY <1>2 DEF RequestStep
  <2>2. amount \in Nat
    BY StakingAssumption
  <2>3. QED
    BY <2>1, <2>2, WithdrawRequestInv
<1>3. CASE WithdrawStep
  <2>1. PICK a \in Account : staker[a] # None /\ ReportStakeWithdrawn(a, staker[a].locked_balance)
    BY <1>3 DEF WithdrawStep
  <2>2. PICK amount \in Nat : amount = staker[a].locked_balance /\ amount = LockedOf(a)
    BY <2>1, StoredStake
  <2>3. StakesInv' /\ Shortfall' = Shortfall + (LockedOf(a) - amount)
    BY <2>1, <2>2, WithdrawnInv
  <2>4. QED
    BY <2>2, <2>3
<1>4. CASE SlashStep
  <2>1. PICK a \in Account, amount \in Slashes : ReportSlash(a, amount)
    BY <1>4 DEF SlashStep
  <2>2. amount \in Nat
    BY StakingAssumption
  <2>3. QED
    BY <2>1, <2>2, SlashInv
<1>5. CASE RewardStep
  <2>1. PICK amount \in RewardAmounts : AddStakingRewards(amount)
    BY <1>5 DEF RewardStep
  <2>2. amount \in Nat
    BY StakingAssumption
  <2>3. QED
    BY <2>1, <2>2, RewardsInv
<1>6. CASE VoteStep \/ UpdateStakeAmount \/ AdvanceTime
  BY <1>6, AroundInv
<1>7. CASE UNCHANGED stakingVars
  <2>1. StakingTypeOK' /\ now <= now' /\ voteCount <= voteCount'
        /\ \A a \in Account : voteTally[a] <= voteTally'[a]
    BY <1>7 DEF StakesInv, StakingTypeOK, stakingVars
  <2>2. QED
    BY <1>7, <2>1, OtherInv DEF stakingVars
<1>8. QED
  BY <1>1, <1>2, <1>3, <1>4, <1>5, <1>6, <1>7 DEF StakingNext

(* Storage before the first report satisfies it. *)
LEMMA StakingStart == ASSUME NEW balance \in Nat, StakesInit(balance) PROVE StakingInv
<1> USE DEF StakesInit
<1>1. Stakers = {} /\ IsFiniteSet(Stakers)
  BY FS_EmptySet DEF Stakers
<1>2. StakingTypeOK
  BY StakingAssumption DEF StakingTypeOK, EmptyPool, Pool
<1>3. SumFunction(StakedBalances) = 0 /\ SumFunction(LockedBalances) = 0
      /\ SumFunction(RewardDebts) = 0 /\ SumFunction(PendingRewards) = 0
  BY <1>1, SumFunctionEmpty DEF StakedBalances, LockedBalances, RewardDebts, PendingRewards
<1>4. StakeTotals /\ Shortfall = 0
  <2>1. {a \in Stakers : staker[a].staked} = {} /\ Cardinality({}) = 0
    BY <1>1, FS_EmptySet
  <2>2. pool.total_stake_amount = 0 /\ pool.total_reward_debt = 0 /\ pool.total_stakers = 0
        /\ pool.to_withdraw = 0
    BY DEF EmptyPool
  <2>3. StakeTotals
    BY <1>3, <2>1, <2>2 DEF StakeTotals
  <2>4. Shortfall = 0
    BY <1>3, <2>2 DEF Shortfall
  <2>5. QED
    BY <2>3, <2>4
<1>5. RewardsCovered
  BY <1>1, <1>3, StakingAssumption DEF RewardsCovered, EmptyPool
<1>6. VotesBegun /\ RequestsDated
  BY <1>1 DEF VotesBegun, RequestsDated
<1>7. QED
  BY <1>1, <1>2, <1>4, <1>5, <1>6 DEF StakingInv, StakesInv

(* The inductive invariant of staking. *)
THEOREM StakingInvariant == StakingSpec => []StakingInv
<1>1. StakingInit => StakingInv
  BY StakingStart, StakingAssumption DEF StakingInit
<1>2. QED
  BY <1>1, StakingStep, PTL DEF StakingSpec

(* The totals that the contract's reports adjust one by one are always the *)
(* sums over the stakers, and TotalStakers the number of those with the    *)
(* stake amount as it was at their last report.                            *)
THEOREM TotalsCorrect == StakingSpec => []TotalsMatchStakers
<1>1. StakingInv => TotalsMatchStakers
  <2> SUFFICES ASSUME StakingInv PROVE TotalsMatchStakers
    OBVIOUS
  <2>1. pool.to_withdraw \in Nat /\ SumFunction(LockedBalances) \in Nat
    BY PoolFields, SumsTyped DEF StakingInv, StakesInv, StakingTypeOK
  <2>2. pool.to_withdraw = SumFunction(LockedBalances)
    BY <2>1 DEF StakingInv, Shortfall
  <2>3. QED
    BY <2>2 DEF StakingInv, StakesInv, StakeTotals, TotalsMatchStakers
<1>2. QED
  BY <1>1, StakingInvariant, PTL

(* The rewards account always covers what all stakers have accrued, with   *)
(* any decimals, rates, orders of reports and roundings.                   *)
THEOREM RewardsCorrect == StakingSpec => []RewardsCovered
<1>1. StakingInv => RewardsCovered
  BY DEF StakingInv, StakesInv
<1>2. QED
  BY <1>1, StakingInvariant, PTL

(* report_stake_withdrawn is accepted only when the withdrawal period has  *)
(* passed since the account's last request.                                *)
THEOREM WithdrawalsCorrect == StakingSpec => WithdrawalsWait
<1>1. StakingInv => \A a \in Stakers : ReportStakeWithdrawn(a, staker[a].locked_balance)
                                           => now - requested[a] >= WithdrawalPeriod
  <2> SUFFICES ASSUME StakesInv, NEW a \in Stakers,
                      ReportStakeWithdrawn(a, staker[a].locked_balance)
               PROVE  now - requested[a] >= WithdrawalPeriod
    BY DEF StakingInv
  <2>1. a \in Account /\ staker[a] # None
    BY DEF Stakers
  <2>2. WithdrawnResult(a, staker[a].locked_balance) # Failed
    BY DEF ReportStakeWithdrawn, Apply
  <2>3. ~(now - staker[a].start_date < WithdrawalPeriod)
    BY <2>2 DEF WithdrawnResult
  <2>4. /\ staker[a].start_date \in Nat /\ requested[a] \in Nat
        /\ requested[a] <= staker[a].start_date /\ now \in Nat
    BY <2>1, StoredStake DEF StakesInv, StakingTypeOK
  <2>5. QED
    BY <2>3, <2>4, StakingAssumption
<1>2. QED
  BY <1>1, StakingInvariant, PTL DEF WithdrawalsWait

-----------------------------------------------------------------------------
(* update_rewards does not look at what is to be withdrawn. *)
LEMMA UpdateRewardsSame ==
    ASSUME StakesInv, UpdateRewards(pool) # Failed, NEW n \in Nat
    PROVE  LET q == UpdateRewards([pool EXCEPT !.to_withdraw = n])
           IN  /\ q # Failed
               /\ q.accumulated_reward_per_share = UpdateRewards(pool).accumulated_reward_per_share
               /\ q.balance = UpdateRewards(pool).balance
               /\ Accrued(q) = Accrued(UpdateRewards(pool))
<1>1. PICK p : p = [pool EXCEPT !.to_withdraw = n]
  OBVIOUS
<1>2. pool \in Pool /\ pool.time_of_last_allocation <= now /\ now \in Nat
  BY DEF StakesInv, StakingTypeOK
<1>3. /\ p \in Pool /\ p.time_of_last_allocation = pool.time_of_last_allocation
      /\ p.total_stake_amount = pool.total_stake_amount /\ p.total_reward_debt = pool.total_reward_debt
      /\ p.accumulated_reward_per_share = pool.accumulated_reward_per_share /\ p.balance = pool.balance
      /\ p.reward_rate = pool.reward_rate
  BY <1>1, <1>2 DEF Pool
<1> DEFINE More(x) == ((now - x.time_of_last_allocation) * x.reward_rate * Unit)
                         \div Convert(x.total_stake_amount)
           Share(x) == ((x.balance - Accrued(x)) * Unit) \div Convert(x.total_stake_amount)
           Grown(x) == [x EXCEPT !.accumulated_reward_per_share = @ + More(x)]
           Exhausted(x) == [x EXCEPT !.accumulated_reward_per_share = @ + Share(x), !.reward_rate = 0]
<1>4. ASSUME NEW x \in Pool
      PROVE  UpdateRewards(x) =
               IF x.time_of_last_allocation = now THEN x
               ELSE IF Convert(x.total_stake_amount) = 0 \/ x.reward_rate = 0
                    THEN [x EXCEPT !.time_of_last_allocation = now]
               ELSE IF Accrued(Grown(x)) < 0 THEN Failed
               ELSE IF Accrued(Grown(x)) < x.balance THEN [Grown(x) EXCEPT !.time_of_last_allocation = now]
               ELSE IF Accrued(x) >= 0 /\ x.balance - Accrued(x) >= 0
                    THEN [Exhausted(x) EXCEPT !.time_of_last_allocation = now]
               ELSE Failed
  BY DEF UpdateRewards
<1>5. Accrued(p) = Accrued(pool)
  BY <1>3 DEF Accrued
<1>6. More(p) = More(pool) /\ Share(p) = Share(pool)
  BY <1>3, <1>5
<1> HIDE DEF More, Share
<1>7. /\ Grown(p).accumulated_reward_per_share = Grown(pool).accumulated_reward_per_share
      /\ Grown(p).total_stake_amount = Grown(pool).total_stake_amount
      /\ Grown(p).total_reward_debt = Grown(pool).total_reward_debt
  BY <1>2, <1>3, <1>6 DEF Pool
<1> HIDE DEF Grown, Exhausted
<1>8. Accrued(Grown(p)) = Accrued(Grown(pool))
  BY <1>7 DEF Accrued
<1>9. UpdateRewards(p) = [UpdateRewards(pool) EXCEPT !.to_withdraw = n]
  <2>1. CASE pool.time_of_last_allocation = now
    BY <1>1, <1>2, <1>3, <1>4, <2>1
  <2>2. CASE pool.time_of_last_allocation # now
             /\ (Convert(pool.total_stake_amount) = 0 \/ pool.reward_rate = 0)
    <3>1. UpdateRewards(p) = [p EXCEPT !.time_of_last_allocation = now]
      BY <1>3, <1>4, <2>2
    <3>2. UpdateRewards(pool) = [pool EXCEPT !.time_of_last_allocation = now]
      BY <1>2, <1>4, <2>2
    <3>3. QED
      BY <1>1, <1>2, <3>1, <3>2 DEF Pool
  <2>3. CASE pool.time_of_last_allocation # now
             /\ ~(Convert(pool.total_stake_amount) = 0 \/ pool.reward_rate = 0)
    <3>1. ~(Accrued(Grown(pool)) < 0)
      BY <1>2, <1>4, <2>3
    <3>2. CASE Accrued(Grown(pool)) < pool.balance
      <4>1. UpdateRewards(p) = [Grown(p) EXCEPT !.time_of_last_allocation = now]
        BY <1>3, <1>4, <1>8, <2>3, <3>1, <3>2
      <4>2. UpdateRewards(pool) = [Grown(pool) EXCEPT !.time_of_last_allocation = now]
        BY <1>2, <1>4, <2>3, <3>1, <3>2
      <4>3. PICK m : m = pool.accumulated_reward_per_share + More(pool)
        OBVIOUS
      <4>4. /\ UpdateRewards(p) = [p EXCEPT !.accumulated_reward_per_share = m,
                                            !.time_of_last_allocation = now]
            /\ UpdateRewards(pool) = [pool EXCEPT !.accumulated_reward_per_share = m,
                                                  !.time_of_last_allocation = now]
        BY <1>2, <1>3, <1>6, <4>1, <4>2, <4>3 DEF Grown, Pool
      <4>5. QED
        BY ONLY <1>1, <1>2, <4>4 DEF Pool
    <3>3. CASE ~(Accrued(Grown(pool)) < pool.balance)
      <4>1. Accrued(pool) >= 0 /\ pool.balance - Accrued(pool) >= 0
        BY <1>2, <1>4, <2>3, <3>1, <3>3
      <4>2. UpdateRewards(p) = [Exhausted(p) EXCEPT !.time_of_last_allocation = now]
        BY <1>3, <1>4, <1>5, <1>8, <2>3, <3>1, <3>3, <4>1
      <4>3. UpdateRewards(pool) = [Exhausted(pool) EXCEPT !.time_of_last_allocation = now]
        BY <1>2, <1>4, <2>3, <3>1, <3>3, <4>1
      <4>4. PICK m : m = pool.accumulated_reward_per_share + Share(pool)
        OBVIOUS
      <4>5. /\ UpdateRewards(p) = [p EXCEPT !.accumulated_reward_per_share = m, !.reward_rate = 0,
                                            !.time_of_last_allocation = now]
            /\ UpdateRewards(pool) = [pool EXCEPT !.accumulated_reward_per_share = m, !.reward_rate = 0,
                                                  !.time_of_last_allocation = now]
        BY <1>2, <1>3, <1>6, <4>2, <4>3, <4>4 DEF Exhausted, Pool
      <4>6. QED
        BY ONLY <1>1, <1>2, <4>5 DEF Pool
    <3>4. QED
      BY <3>2, <3>3
  <2>4. QED
    BY <2>1, <2>2, <2>3
<1>10. PICK r, q : r = UpdateRewards(pool) /\ q = UpdateRewards(p)
  OBVIOUS
<1>11. r \in Pool /\ q = [r EXCEPT !.to_withdraw = n]
  BY <1>2, <1>9, <1>10, UpdateRewardsResult
<1>12. /\ q \in Pool /\ q.accumulated_reward_per_share = r.accumulated_reward_per_share
       /\ q.balance = r.balance /\ q.total_stake_amount = r.total_stake_amount
       /\ q.total_reward_debt = r.total_reward_debt
  BY <1>11 DEF Pool
<1>13. Accrued(q) = Accrued(r) /\ q # Failed
  BY <1>12, StakingAssumption DEF Accrued
<1>14. QED
  BY <1>1, <1>10, <1>12, <1>13

(* The debts of the other stakers are within what their stakes together    *)
(* are granted.                                                            *)
LEMMA OtherDebts ==
    ASSUME StakingTypeOK, IsFiniteSet(Stakers), NEW q, StakesOf(q), Covers(q), NEW a \in Stakers
    PROVE  LET rest == q.total_stake_amount - staker[a].staked_balance
           IN  /\ rest \in Nat
               /\ q.total_reward_debt - staker[a].reward_debt
                     <= Granted(q.accumulated_reward_per_share, rest)
               /\ Stakers = {a} => rest = 0
<1> DEFINE acc == q.accumulated_reward_per_share
           G == [n \in Nat |-> Granted(acc, n)]
           O == Stakers \ {a}
           f == [x \in O |-> staker[x].staked_balance]
           d == [x \in O |-> staker[x].reward_debt]
           h == [x \in O |-> PendingIn(q)[x]]
           g == [x \in O |-> G[f[x]]]
           rest == q.total_stake_amount - staker[a].staked_balance
<1>1. acc \in Nat /\ IsFiniteSet(O)
  BY PoolFields, FS_RemoveElement DEF StakesOf
<1>2. G \in [Nat -> Nat] /\ \A m, n \in Nat : G[m] + G[n] <= G[m + n]
  <2>1. \A n \in Nat : Granted(acc, n) \in Nat
    BY <1>1, GrantedNat
  <2>2. ASSUME NEW m \in Nat, NEW n \in Nat PROVE G[m] + G[n] <= G[m + n]
    <3>1. m + n \in Nat
      OBVIOUS
    <3>2. Granted(acc, m) + Granted(acc, n) <= Granted(acc, m + n)
      BY <1>1, GrantedOfSum
    <3>3. QED
      BY <3>1, <3>2
  <2>3. QED
    BY <2>1, <2>2
<1>3. \A x \in Stakers : staker[x].staked_balance \in Nat /\ staker[x].reward_debt \in Nat
  BY StoredStaker, StakerFields
<1>4. SumFunction(f) = rest
  <2>1. /\ a \in DOMAIN StakedBalances /\ DOMAIN StakedBalances = Stakers
        /\ DOMAIN f = DOMAIN StakedBalances \ {a}
        /\ \A x \in DOMAIN StakedBalances : StakedBalances[x] \in Int
        /\ \A x \in DOMAIN f : f[x] = StakedBalances[x]
        /\ StakedBalances[a] = staker[a].staked_balance
    BY <1>3 DEF StakedBalances
  <2> HIDE DEF f
  <2>2. SumFunction(f) = SumFunction(StakedBalances) - StakedBalances[a]
    BY <2>1, SumFunctionDrop
  <2>3. QED
    BY <2>1, <2>2 DEF StakesOf
<1>5. SumFunction(d) = q.total_reward_debt - staker[a].reward_debt
  <2>1. /\ a \in DOMAIN RewardDebts /\ DOMAIN RewardDebts = Stakers
        /\ DOMAIN d = DOMAIN RewardDebts \ {a}
        /\ \A x \in DOMAIN RewardDebts : RewardDebts[x] \in Int
        /\ \A x \in DOMAIN d : d[x] = RewardDebts[x]
        /\ RewardDebts[a] = staker[a].reward_debt
    BY <1>3 DEF RewardDebts
  <2> HIDE DEF d
  <2>2. SumFunction(d) = SumFunction(RewardDebts) - RewardDebts[a]
    BY <2>1, SumFunctionDrop
  <2>3. QED
    BY <2>1, <2>2 DEF StakesOf
<1>6. /\ DOMAIN f = O /\ DOMAIN d = O /\ DOMAIN h = O /\ DOMAIN g = O
      /\ \A x \in O : f[x] \in Nat /\ d[x] \in Nat /\ g[x] = G[f[x]]
  BY <1>3
<1>7. \A x \in O : h[x] \in Nat /\ g[x] \in Nat /\ g[x] = h[x] + d[x]
  <2>1. TAKE x \in O
  <2>2. PICK k \in Nat : k = Granted(acc, staker[x].staked_balance)
    BY <1>1, <1>3, GrantedNat
  <2>3. g[x] = k
    BY <1>3, <2>2
  <2>4. h[x] = k - d[x]
    BY <2>2 DEF PendingIn, Pending
  <2>5. h[x] >= 0
    BY DEF Covers
  <2>6. QED
    BY <1>6, <2>3, <2>4, <2>5
<1>8. SumFunction(f) \in Nat /\ SumFunction(d) \in Nat /\ SumFunction(h) \in Nat
  <2> HIDE DEF f, d, h, O
  <2>1. QED
    BY <1>1, <1>6, <1>7, SumFunctionType
<1>9. SumFunction(g) <= G[SumFunction(f)] /\ G[SumFunction(f)] \in Nat
  <2> HIDE DEF G, f, g, O
  <2>1. QED
    BY <1>1, <1>2, <1>6, <1>8, SumFunctionOfParts
<1>10. SumFunction(g) = SumFunction(h) + SumFunction(d)
  <2> HIDE DEF G, f, g, h, d, O
  <2>1. \A x \in O : h[x] \in Int /\ d[x] \in Int
    BY <1>6, <1>7
  <2>2. QED
    BY <1>1, <1>6, <1>7, <2>1, SumFunctionAdd
<1>11. Stakers = {a} => rest = 0
  <2>1. Stakers = {a} => O = {}
    OBVIOUS
  <2>2. O = {} => SumFunction(f) = 0
    BY SumFunctionEmpty
  <2>3. QED
    BY <1>4, <2>1, <2>2
<1>12. G[SumFunction(f)] = Granted(acc, rest)
  BY <1>4, <1>8
<1>13. SumFunction(d) <= Granted(acc, rest)
  <2> HIDE DEF G, f, g, h, d, rest
  <2>1. PICK x, y, z \in Nat : x = SumFunction(h) /\ y = SumFunction(d) /\ z = G[SumFunction(f)]
    BY <1>8, <1>9
  <2>2. x + y <= z
    BY <1>9, <1>10, <2>1
  <2>3. y <= z
    BY <2>2
  <2>4. QED
    BY <1>12, <2>1, <2>3
<1>14. QED
  BY <1>4, <1>5, <1>8, <1>11, <1>13

(* The same for any account, which may have no stake yet. *)
LEMMA RestOfStakes ==
    ASSUME StakingTypeOK, IsFiniteSet(Stakers), NEW q, StakesOf(q), Covers(q), NEW a, NEW s, SameStake(a, s)
    PROVE  LET rest == q.total_stake_amount - s.staked_balance
           IN  /\ rest \in Nat
               /\ q.total_reward_debt - s.reward_debt
                     <= Granted(q.accumulated_reward_per_share, rest)
               /\ Stakers \cup {a} = {a} => rest = 0
<1>1. CASE a \in Stakers
  <2>1. s.staked_balance = staker[a].staked_balance /\ s.reward_debt = staker[a].reward_debt
    BY <1>1 DEF SameStake
  <2>2. Stakers \cup {a} = {a} => Stakers = {a}
    BY <1>1
  <2>3. QED
    BY <1>1, <2>1, <2>2, OtherDebts
<1>2. CASE a \notin Stakers
  <2>1. s.staked_balance = 0 /\ s.reward_debt = 0
    BY <1>2 DEF SameStake
  <2>2. PICK T, D, G \in Nat : /\ T = q.total_stake_amount /\ D = q.total_reward_debt
                               /\ G = Granted(q.accumulated_reward_per_share, q.total_stake_amount)
    BY PoolFields, GrantedNat DEF StakesOf
  <2>3. Accrued(q) >= 0
    <3>1. /\ \A x \in Stakers : PendingIn(q)[x] \in Nat
          /\ SumFunction(PendingIn(q)) <= Accrued(q) /\ Accrued(q) \in Int
      BY PendingWithinAccrued DEF Covers
    <3>2. DOMAIN PendingIn(q) = Stakers
      BY DEF PendingIn
    <3>3. SumFunction(PendingIn(q)) \in Nat
      BY <3>1, <3>2, SumFunctionType
    <3>4. QED
      BY <3>1, <3>3
  <2>4. D <= G
    BY <2>2, <2>3 DEF Accrued
  <2>5. T - 0 = T /\ D - 0 = D
    BY <2>2
  <2>6. Stakers \cup {a} = {a} => T = 0
    <3>1. SUFFICES ASSUME Stakers \cup {a} = {a} PROVE T = 0
      OBVIOUS
    <3>2. Stakers = {}
      BY <1>2, <3>1
    <3>3. QED
      BY <2>2, <3>2, SumFunctionEmpty DEF StakesOf, StakedBalances
  <2>7. QED
    BY <2>1, <2>2, <2>4, <2>5, <2>6
<1>3. QED
  BY <1>1, <1>2

(* The reserve of RewardsFundedFor covers what is lost when a stake is put *)
(* together with the others.                                               *)
LEMMA MergeWithinReserve ==
    ASSUME NEW S, IsFiniteSet(S), NEW a \in S, S # {a}, NEW k \in Nat
    PROVE  k + 2 <= Cardinality(S) * (k + 1)
<1>1. PICK n \in Nat : n = Cardinality(S)
  BY FS_CardinalityType
<1>2. n >= 2
  <2>1. IsFiniteSet(S \ {a}) /\ Cardinality(S \ {a}) = n - 1
    BY <1>1, FS_RemoveElement
  <2>2. S \ {a} # {}
    OBVIOUS
  <2>3. Cardinality(S \ {a}) # 0
    BY <2>1, <2>2, FS_EmptySet
  <2>4. Cardinality(S \ {a}) \in Nat
    BY <2>1, FS_CardinalityType
  <2>5. QED
    BY <2>1, <2>3, <2>4
<1>3. 2 * (k + 1) <= n * (k + 1)
  BY <1>2, ProductGrows
<1>4. n * (k + 1) \in Nat /\ 2 * (k + 1) \in Nat /\ k + 2 <= 2 * (k + 1)
  OBVIOUS
<1>5. QED
  BY <1>1, <1>3, <1>4

(* The rewards are funded with the rounding of an account counted in. *)
FundedWith(a) == RewardsFundedFor(Cardinality(Stakers \cup {a}))

(* A staker is counted already. *)
LEMMA FundedWithStaker == ASSUME NEW a \in Stakers PROVE FundedWith(a) <=> RewardsFunded
<1>1. Stakers \cup {a} = Stakers
  OBVIOUS
<1>2. QED
  BY <1>1 DEF FundedWith, RewardsFunded

(* When the rewards are funded, what is accrued leaves the balance the     *)
(* existential deposit, and the loss of a merge unless there is no other   *)
(* stake.                                                                  *)
LEMMA FundedReserve ==
    ASSUME StakesInv, NEW a, FundedWith(a), NEW n \in Nat
    PROVE  LET q == UpdateRewards([pool EXCEPT !.to_withdraw = n])
           IN  /\ q # Failed /\ StakesOf(q) /\ Covers(q) /\ q.time_of_last_allocation = now
               /\ Accrued(q) \in Int
               /\ Accrued(q) + ExistentialDeposit <= q.balance
               /\ q.accumulated_reward_per_share \div Unit \in Nat
               /\ Stakers \cup {a} # {a} =>
                     Accrued(q) + (q.accumulated_reward_per_share \div Unit) + 2 <= q.balance
<1>1. PICK p, q : p = [pool EXCEPT !.to_withdraw = n] /\ q = UpdateRewards(p)
  OBVIOUS
<1>2. UpdateRewards(pool) # Failed
  BY DEF FundedWith, RewardsFundedFor
<1>3. /\ q # Failed /\ q.balance = UpdateRewards(pool).balance
      /\ q.accumulated_reward_per_share = UpdateRewards(pool).accumulated_reward_per_share
      /\ Accrued(q) = Accrued(UpdateRewards(pool))
  BY <1>1, <1>2, UpdateRewardsSame
<1>4. StakesOf(p) /\ Covers(p) /\ StakingTypeOK /\ IsFiniteSet(Stakers)
  BY <1>1, StoredPool DEF StakesInv
<1>5. StakesOf(q) /\ Covers(q)
  BY <1>1, <1>3, <1>4, AccrualCovered
<1>6. q.time_of_last_allocation = now
  BY <1>1, <1>3, <1>4, UpdateRewardsResult DEF StakesOf, StakingTypeOK
<1>7. Accrued(q) \in Int
  BY <1>4, <1>5, PendingWithinAccrued
<1>8. q.accumulated_reward_per_share \in Nat /\ q.balance \in Nat
  BY <1>5, PoolFields DEF StakesOf
<1>9. PICK k \in Nat : k = q.accumulated_reward_per_share \div Unit
  BY <1>8, GrantedOfSum
<1>10. PICK m \in Nat : m = Cardinality(Stakers \cup {a}) * (k + 1)
  <2>1. IsFiniteSet(Stakers \cup {a})
    BY <1>4, FS_AddElement
  <2>2. PICK c \in Nat : c = Cardinality(Stakers \cup {a})
    BY <2>1, FS_CardinalityType
  <2>3. c * (k + 1) \in Nat
    OBVIOUS
  <2>4. QED
    BY <2>2, <2>3
<1>11. Accrued(q) + (IF m > ExistentialDeposit THEN m ELSE ExistentialDeposit) <= q.balance
  BY <1>3, <1>9, <1>10 DEF FundedWith, RewardsFundedFor
<1>12. PICK e \in Nat : e = ExistentialDeposit
  BY StakingAssumption
<1>13. PICK x \in Int, b \in Nat : x = Accrued(q) /\ b = q.balance
  BY <1>7, <1>8
<1>14. x + e <= b /\ x + m <= b
  BY <1>11, <1>12, <1>13
<1>15. Stakers \cup {a} # {a} => x + k + 2 <= b
  <2>1. Stakers \cup {a} # {a} => k + 2 <= m
    <3>1. IsFiniteSet(Stakers \cup {a}) /\ a \in Stakers \cup {a}
      BY <1>4, FS_AddElement
    <3>2. QED
      BY <1>10, <3>1, MergeWithinReserve
  <2>2. QED
    BY <1>14, <2>1
<1>16. QED
  BY <1>1, <1>3, <1>5, <1>6, <1>7, <1>9, <1>12, <1>13, <1>14, <1>15

(* A record of a pool and a staker is not an error. *)
LEMMA NotFailed ==
    ASSUME NEW p \in Pool, NEW s \in StakeInfo
    PROVE  p # Failed /\ [pool |-> p, staker |-> s] # Failed
  BY StakingAssumption

(* What a's stake s is due, if it has any, can be paid to a. *)
Payable(a, s, exists) ==
    s.staked_balance > 0 => CanReceive(exists, Participation(a, s, Pending(UpdateRewards(pool), s)))

(* Only the stake, its debt and the votes at its start matter for that. *)
LEMMA PayableSame ==
    ASSUME NEW a, NEW s, NEW t, NEW exists, Payable(a, s, exists),
           t.staked_balance = s.staked_balance, t.reward_debt = s.reward_debt,
           t.start_vote_count = s.start_vote_count, t.start_vote_tally = s.start_vote_tally
    PROVE  Payable(a, t, exists)
<1>1. Pending(UpdateRewards(pool), t) = Pending(UpdateRewards(pool), s)
  BY DEF Pending
<1>2. \A n : Participation(a, t, n) = Participation(a, s, n)
  BY DEF Participation
<1>3. QED
  BY <1>1, <1>2 DEF Payable

(* When the rewards are funded and a can be paid, update_stake_and_pay_    *)
(* rewards does not fail for a stored stake or a new one, whatever its new *)
(* balance.                                                                *)
LEMMA UpdateStakeApplies ==
    ASSUME StakesInv, NEW a \in Account, FundedWith(a), NEW n \in Nat, NEW s, SameStake(a, s),
           s.start_vote_count <= voteCount, s.start_vote_tally <= voteTally[a], NEW balance \in Nat,
           NEW exists, Payable(a, s, exists)
    PROVE  UpdateStake([pool EXCEPT !.to_withdraw = n], a, s, balance, exists) # Failed
<1> DEFINE p == [pool EXCEPT !.to_withdraw = n]
           q == UpdateRewards(p)
           acc == q.accumulated_reward_per_share
           w == PaidOut(q, a, s, exists)
           t == Restaked(q, s, balance)
           v == [w EXCEPT !.total_stakers = StakersAfter(@, s.staked, t.staked),
                          !.total_reward_debt = @ + t.reward_debt,
                          !.total_stake_amount = @ + balance]
           rated == IF v.reward_rate = 0 THEN WithRewardRate(v) ELSE v
<1>1. UpdateStake(p, a, s, balance, exists) = IF q = Failed \/ w = Failed \/ rated = Failed THEN Failed
                                      ELSE [pool |-> rated, staker |-> t]
  BY DEF UpdateStake
<1>2. /\ q # Failed /\ StakesOf(q) /\ Covers(q) /\ Accrued(q) \in Int
      /\ Accrued(q) + ExistentialDeposit <= q.balance
      /\ acc \div Unit \in Nat
      /\ Stakers \cup {a} # {a} => Accrued(q) + (acc \div Unit) + 2 <= q.balance
  BY FundedReserve
<1>payable. s.staked_balance > 0 => CanReceive(exists, Participation(a, s, Pending(q, s)))
  <2>1. UpdateRewards(pool) # Failed
    BY DEF FundedWith, RewardsFundedFor
  <2>2. q.accumulated_reward_per_share = UpdateRewards(pool).accumulated_reward_per_share
    BY <2>1, UpdateRewardsSame
  <2>3. Pending(q, s) = Pending(UpdateRewards(pool), s)
    BY <2>2 DEF Pending
  <2>4. QED
    BY <2>3 DEF Payable
<1> HIDE DEF q, p
<1>3. StakingTypeOK /\ IsFiniteSet(Stakers) /\ s \in StakeInfo /\ q \in Pool
  BY <1>2 DEF StakesInv, StakesOf, SameStake
<1>4. /\ s.staked_balance \in Nat /\ s.reward_debt \in Nat /\ s.staked \in BOOLEAN
      /\ s.start_vote_count \in Nat /\ s.start_vote_tally \in Nat
      /\ acc \in Nat /\ q.balance \in Nat
      /\ q.total_stake_amount \in Nat /\ q.total_reward_debt \in Nat
      /\ voteCount \in Nat /\ voteTally[a] \in Nat
  BY <1>3, StakerFields, PoolFields DEF StakingTypeOK
<1>5. s.staked_balance <= q.total_stake_amount /\ s.reward_debt <= q.total_reward_debt
  <2>1. CASE a \in Stakers
    BY <1>2, <1>3, <1>4, <2>1, SumsTyped DEF StakesOf, SameStake
  <2>2. CASE a \notin Stakers
    BY <1>4, <2>2 DEF SameStake
  <2>3. QED
    BY <2>1, <2>2
<1>6. PICK pending \in Nat : pending = Pending(q, s)
  BY <1>2, <1>3, PendingNat
<1>7. pending <= Accrued(q)
  <2>1. /\ SumFunction(PendingIn(q)) <= Accrued(q)
        /\ \A x \in Stakers : PendingIn(q)[x] \in Int
    BY <1>2, <1>3, PendingWithinAccrued
  <2>2. \A x \in Stakers : PendingIn(q)[x] \in Nat
    BY <1>2, <2>1 DEF Covers
  <2>3. DOMAIN PendingIn(q) = Stakers /\ (a \in Stakers => PendingIn(q)[a] = pending)
    BY <1>4, <1>6 DEF PendingIn, Pending, SameStake
  <2>4. PICK f : f = PendingIn(q)
    OBVIOUS
  <2>5. SumFunction(f) \in Nat /\ (a \in Stakers => f[a] <= SumFunction(f))
    BY <1>3, <2>2, <2>3, <2>4, SumFunctionCovers, SumFunctionType
  <2>6. a \notin Stakers => pending = 0
    BY <1>2, <1>3, <1>6, PendingNat DEF SameStake
  <2>7. QED
    BY <1>2, <2>1, <2>3, <2>4, <2>5, <2>6
<1>8. PICK e \in Nat : e = ExistentialDeposit
  BY StakingAssumption
<1>9. w # Failed
  <2>1. CASE s.staked_balance = 0
    BY <1>2, <2>1 DEF PaidOut
  <2>2. CASE s.staked_balance # 0
    <3>1. PICK reward \in Nat : reward = Participation(a, s, pending) /\ reward <= pending
      BY <1>3, <1>4, ParticipationBounded
    <3>2. q.balance - reward >= e
      BY <1>2, <1>4, <1>7, <1>8, <3>1
    <3>3. w = WithoutStake(q, s, reward)
      <4>1. CanReceive(exists, reward)
        BY <1>payable, <1>4, <1>6, <2>2, <3>1
      <4>2. QED
        BY <1>4, <1>5, <1>6, <1>8, <2>2, <3>1, <3>2, <4>1 DEF PaidOut
    <3>4. PICK x, y, z \in Nat : /\ x = q.balance - reward /\ y = q.total_reward_debt - s.reward_debt
                                 /\ z = q.total_stake_amount - s.staked_balance
      BY <1>4, <1>5, <1>8, <3>2
    <3>5. w = [q EXCEPT !.balance = x, !.total_reward_debt = y, !.total_stake_amount = z]
      BY <3>3, <3>4 DEF WithoutStake
    <3>6. w \in Pool
      BY <1>3, <3>5 DEF Pool
    <3>7. QED
      BY <3>6, StakingAssumption
  <2>3. QED
    BY <2>1, <2>2
<1>10. /\ w \in Pool
       /\ w.total_stake_amount = q.total_stake_amount - s.staked_balance
       /\ w.total_reward_debt = q.total_reward_debt - s.reward_debt
       /\ w.balance >= q.balance - pending
       /\ w.accumulated_reward_per_share = acc
  BY <1>2, <1>3, <1>6, <1>9, PaidOutResult
<1> HIDE DEF w
<1>11. t \in StakeInfo /\ t.reward_debt = Granted(acc, balance)
  <2>1. PICK d \in Nat : d = Granted(acc, balance)
    BY <1>4, GrantedNat
  <2>2. PICK b \in BOOLEAN : b = (balance >= stakeAmount)
    <3>1. CASE balance >= stakeAmount
      <4>1. (balance >= stakeAmount) = TRUE
        BY <3>1
      <4>2. QED
        BY <4>1, Zenon
    <3>2. CASE ~(balance >= stakeAmount)
      <4>1. (balance >= stakeAmount) = FALSE
        BY <3>2
      <4>2. QED
        BY <4>1, Zenon
    <3>3. QED
      BY <3>1, <3>2
  <2>3. t = [s EXCEPT !.staked_balance = balance, !.staked = b, !.reward_debt = d]
    BY <2>1, <2>2 DEF Restaked
  <2> HIDE DEF t
  <2>4. QED
    BY ONLY <1>3, <2>1, <2>3, balance \in Nat, d \in Nat, b \in BOOLEAN DEF StakeInfo
<1> HIDE DEF t
<1>12. t.staked \in BOOLEAN /\ t.reward_debt \in Nat
  BY <1>11, StakerFields
<1>13. PICK k, d, T \in Nat : /\ k = StakersAfter(w.total_stakers, s.staked, t.staked)
                              /\ d = w.total_reward_debt + t.reward_debt
                              /\ T = w.total_stake_amount + balance
  <2>1. w.total_stakers \in Nat /\ w.total_reward_debt \in Nat /\ w.total_stake_amount \in Nat
    BY <1>10, PoolFields
  <2>2. StakersAfter(w.total_stakers, s.staked, t.staked) \in Nat
    BY <1>4, <1>12, <2>1, StakersAfterNat
  <2>3. w.total_reward_debt + t.reward_debt \in Nat /\ w.total_stake_amount + balance \in Nat
    BY <1>12, <2>1
  <2>4. QED
    BY <2>2, <2>3
<1>14. v = [w EXCEPT !.total_stakers = k, !.total_reward_debt = d, !.total_stake_amount = T]
  BY <1>13
<1>15. /\ v \in Pool /\ v.total_reward_debt = d /\ v.total_stake_amount = T /\ v.balance = w.balance
       /\ v.accumulated_reward_per_share = w.accumulated_reward_per_share
  BY ONLY <1>10, <1>14, k \in Nat, d \in Nat, T \in Nat DEF Pool
<1>16. Accrued(v) \in Nat /\ Accrued(v) <= v.balance
  <2>1. PICK R \in Nat : R = q.total_stake_amount - s.staked_balance
    BY <1>4, <1>5
  <2>2. /\ q.total_reward_debt - s.reward_debt <= Granted(acc, R)
        /\ Stakers \cup {a} = {a} => R = 0
    BY <1>2, <1>3, <1>4, <2>1, RestOfStakes
  <2>3. PICK gR, gm, gb, gT, gN \in Nat :
            /\ gR = Granted(acc, R) /\ gm = Granted(acc, s.staked_balance)
            /\ gb = Granted(acc, balance) /\ gT = Granted(acc, q.total_stake_amount)
            /\ gN = Granted(acc, T)
    BY <1>4, GrantedNat
  <2>4. gR + gm <= gT
    <3>1. Granted(acc, R) + Granted(acc, s.staked_balance) <= Granted(acc, R + s.staked_balance)
      BY <1>4, GrantedOfSum
    <3>2. R + s.staked_balance = q.total_stake_amount
      BY <1>4, <2>1
    <3>3. QED
      BY <2>3, <3>1, <3>2
  <2>5. T = R + balance
    BY <1>10, <1>13, <2>1
  <2>6. gR + gb <= gN /\ gN <= gR + gb + (acc \div Unit) + 2
    BY <1>4, <2>3, <2>5, GrantedOfSum
  <2>7. Stakers \cup {a} = {a} => gN = gR + gb
    <3>1. SUFFICES ASSUME Stakers \cup {a} = {a} PROVE gN = gR + gb
      OBVIOUS
    <3>2. R = 0 /\ T = balance
      BY <2>2, <2>5, <3>1
    <3>3. gR = 0 /\ gN = gb
      BY <1>4, <2>3, <3>2, GrantedNat
    <3>4. QED
      BY <3>3
  <2>8. PICK D, m, B, V, c \in Nat : /\ D = q.total_reward_debt /\ m = s.reward_debt /\ B = q.balance
                                     /\ V = v.balance /\ c = acc \div Unit
    BY <1>2, <1>4, <1>15, PoolFields
  <2>9. /\ pending = gm - m /\ Accrued(q) = gT - D /\ Accrued(v) = gN - d
        /\ d = D - m + gb /\ D - m <= gR
    BY <1>6, <1>10, <1>11, <1>13, <1>15, <2>2, <2>3, <2>8 DEF Pending, Accrued
  <2>10. /\ gT - D + e <= B /\ V >= B - (gm - m)
         /\ Stakers \cup {a} # {a} => gT - D + c + 2 <= B
    BY <1>2, <1>8, <1>10, <1>15, <2>8, <2>9
  <2>11. gN - d >= 0
    BY <2>6, <2>9
  <2>12. gN - d <= V
    <3>1. CASE Stakers \cup {a} = {a}
      <4>1. gN = gR + gb
        BY <2>7, <3>1
      <4>2. QED
        BY <2>4, <2>9, <2>10, <4>1
    <3>2. CASE Stakers \cup {a} # {a}
      <4>1. gN <= gR + gb + c + 2 /\ gT - D + c + 2 <= B
        BY <2>6, <2>8, <2>10, <3>2
      <4>2. QED
        BY <2>4, <2>9, <2>10, <4>1
    <3>3. QED
      BY <3>1, <3>2
  <2>13. QED
    BY <2>8, <2>9, <2>11, <2>12
<1> HIDE DEF v
<1>17. rated \in Pool
  <2>1. CASE v.reward_rate # 0
    BY <1>15, <2>1
  <2>2. CASE v.reward_rate = 0
    <3>1. v.balance \in Nat
      BY <1>15, PoolFields
    <3>2. PICK x \in Nat : x = v.balance - Accrued(v)
      BY <1>16, <3>1
    <3>3. x \div RewardPeriod \in Nat
      BY StakingAssumption
    <3>4. WithRewardRate(v) = [v EXCEPT !.reward_rate = x \div RewardPeriod]
      BY <1>16, <3>1, <3>2 DEF WithRewardRate
    <3>5. WithRewardRate(v) \in Pool
      BY <1>15, <3>3, <3>4 DEF Pool
    <3>6. QED
      BY <2>2, <3>5
  <2>3. QED
    BY <2>1, <2>2
<1> HIDE DEF rated
<1>18. UpdateStake(p, a, s, balance, exists) # Failed
  BY <1>1, <1>2, <1>9, <1>11, <1>17, NotFailed
<1>19. QED
  BY <1>18 DEF p

(* It then yields a pool and a staker. *)
LEMMA UpdateStakeYields ==
    ASSUME StakesInv, NEW a \in Account, FundedWith(a), NEW n \in Nat, NEW s, SameStake(a, s),
           s.start_vote_count <= voteCount, s.start_vote_tally <= voteTally[a], NEW balance \in Nat,
           NEW exists, Payable(a, s, exists)
    PROVE  \E x \in Pool, y \in StakeInfo :
               UpdateStake([pool EXCEPT !.to_withdraw = n], a, s, balance, exists) = [pool |-> x, staker |-> y]
<1>1. PICK p, r : p = [pool EXCEPT !.to_withdraw = n] /\ r = UpdateStake(p, a, s, balance, exists)
  OBVIOUS
<1>2. r # Failed
  BY <1>1, UpdateStakeApplies
<1>3. StakesOf(p) /\ Covers(p)
  BY <1>1, StoredPool
<1>4. r.pool \in Pool /\ r.staker \in StakeInfo
  <2>1. StakeUpdated(r, UpdateRewards(p), s, balance)
    BY <1>1, <1>2, <1>3, UpdateStakeResult DEF StakesInv
  <2>2. QED
    BY <2>1 DEF StakeUpdated
<1>5. \E x, y : r = [pool |-> x, staker |-> y]
  BY <1>1, <1>2 DEF UpdateStake
<1>6. r = [pool |-> r.pool, staker |-> r.staker]
  BY <1>5
<1>7. QED
  BY <1>1, <1>4, <1>6

(* The amount to withdraw can be reduced by what an account has locked. *)
LEMMA ReleasedApplies ==
    ASSUME StakesInv, Shortfall = 0, NEW a \in Account, NEW m \in Nat, m <= LockedOf(a)
    PROVE  /\ pool.to_withdraw - m \in Nat
           /\ Released(pool, m) = [pool EXCEPT !.to_withdraw = pool.to_withdraw - m]
           /\ Released(pool, m) \in Pool
<1>1. /\ pool.to_withdraw \in Nat /\ LockedOf(a) \in Nat
      /\ LockedOf(a) <= pool.to_withdraw /\ pool \in Pool
  <2>1. pool.to_withdraw \in Nat /\ pool \in Pool
    BY PoolFields DEF StakesInv, StakingTypeOK
  <2>2. SumFunction(LockedBalances) \in Nat /\ LockedOf(a) <= SumFunction(LockedBalances)
    BY SumsTyped DEF StakesInv, LockedOf
  <2>3. LockedOf(a) \in Nat
    BY StoredStaker, StakerFields DEF StakesInv, LockedOf
  <2>4. QED
    BY <2>1, <2>2, <2>3 DEF Shortfall
<1>2. pool.to_withdraw - m \in Nat /\ pool.to_withdraw >= m
  BY <1>1
<1>3. Released(pool, m) = [pool EXCEPT !.to_withdraw = pool.to_withdraw - m]
  BY <1>2 DEF Released
<1>4. QED
  BY <1>1, <1>2, <1>3 DEF Pool

(* A slash takes effect if the locked balance covers it, and otherwise     *)
(* while the rewards are funded and the staker can be paid.                *)
LEMMA SlashAppliesWhenFunded ==
    ASSUME StakesInv, Shortfall = 0, NEW a \in Stakers, NEW amount \in Nat, NEW exists,
           staker[a].staked_balance + staker[a].locked_balance > 0,
           staker[a].locked_balance < amount => FundedWith(a) /\ CanBePaid(a, exists)
    PROVE  SlashResult(a, amount, exists) # Failed
<1>1. a \in Account /\ staker[a] # None
  BY DEF Stakers
<1>2. PICK s : s = staker[a]
  OBVIOUS
<1>3. /\ s \in StakeInfo /\ SameStake(a, s) /\ LockedOf(a) = s.locked_balance /\ s.locked_balance \in Nat /\ s.staked_balance \in Nat
      /\ s.start_vote_count <= voteCount /\ s.start_vote_tally <= voteTally[a]
  BY <1>1, <1>2, StoredStake
<1>4. PICK m \in Nat : m = SlashedLock(s, amount) /\ m <= LockedOf(a)
  BY <1>1, <1>3 DEF SlashedLock
<1>5. PICK n \in Nat : n = pool.to_withdraw - m
  BY <1>1, <1>4, ReleasedApplies
<1>6. Released(pool, m) = [pool EXCEPT !.to_withdraw = n] /\ Released(pool, m) \in Pool
  BY <1>1, <1>4, <1>5, ReleasedApplies
<1>7. Released(pool, m) # Failed
  BY <1>6, StakingAssumption
<1>8. s.staked_balance + s.locked_balance # 0
  BY <1>2, <1>3
<1>9. CASE s.locked_balance >= amount
  <2>1. PICK k \in Nat : k = s.locked_balance - amount
    BY <1>1, <1>3, <1>9
  <2>2. [s EXCEPT !.locked_balance = k] \in StakeInfo
    BY <1>3 DEF StakeInfo
  <2>3. [s EXCEPT !.locked_balance = @ - amount] \in StakeInfo
    BY <2>1, <2>2
  <2>4. [pool |-> Released(pool, m), staker |-> [s EXCEPT !.locked_balance = @ - amount]] # Failed
    BY <1>6, <2>3, NotFailed
  <2>5. SlashResult(a, amount, exists)
          = [pool |-> Released(pool, m), staker |-> [s EXCEPT !.locked_balance = @ - amount]]
    BY <1>1, <1>2, <1>4, <1>7, <1>8, <1>9 DEF SlashResult
  <2>6. QED
    BY <2>4, <2>5
<1>10. CASE ~(s.locked_balance >= amount)
  <2>1. PICK b \in Nat : b = SlashedStake(s, amount)
    BY <1>1, <1>3, <1>10, SlashedStakeNat
  <2>2. PICK x \in Pool, y \in StakeInfo :
            UpdateStake(Released(pool, m), a, s, b, exists) = [pool |-> x, staker |-> y]
    <3>1. FundedWith(a) /\ CanBePaid(a, exists)
      BY <1>2, <1>3, <1>10
    <3>2. Payable(a, s, exists)
      BY <1>2, <3>1 DEF CanBePaid, RewardDue, Payable
    <3>3. QED
      BY <1>1, <1>3, <1>6, <3>1, <3>2, UpdateStakeYields
  <2>3. [pool |-> x, staker |-> y] # Failed
    BY NotFailed
  <2>4. SlashResult(a, amount, exists) = [[pool |-> x, staker |-> y] EXCEPT !.staker.locked_balance = 0]
    BY <1>1, <1>2, <1>4, <1>7, <1>8, <1>10, <2>1, <2>2, <2>3 DEF SlashResult
  <2>5. PICK z \in StakeInfo : z = [y EXCEPT !.locked_balance = 0]
    BY DEF StakeInfo
  <2>6. [[pool |-> x, staker |-> y] EXCEPT !.staker.locked_balance = 0] = [pool |-> x, staker |-> z]
    BY <2>5
  <2>7. QED
    BY <2>4, <2>6, NotFailed
<1>11. QED
  BY <1>9, <1>10

(* A deposit is applied while the rewards are funded, one of an account    *)
(* without a stake as well.                                                *)
LEMMA DepositAppliesWhenFunded ==
    ASSUME StakesInv, Shortfall = 0, NEW a \in Account, FundedWith(a), NEW amount \in Nat,
           NEW address \in Address, NEW exists,
           staker[a] # None => address = staker[a].address /\ CanBePaid(a, exists)
    PROVE  DepositResult(a, amount, address, exists) # Failed
<1>1. now \in Nat /\ voteCount \in Nat /\ voteTally[a] \in Nat
  BY DEF StakesInv, StakingTypeOK
<1>2. PICK old : old = IF staker[a] = None THEN NewStaker(address) ELSE staker[a]
  OBVIOUS
<1>3. /\ old \in StakeInfo /\ SameStake(a, old) /\ old.locked_balance \in Nat
      /\ old.staked_balance \in Nat /\ old.address = address
      /\ old.start_vote_count <= voteCount /\ old.start_vote_tally <= voteTally[a]
      /\ old.locked_balance = LockedOf(a)
  <2>1. CASE staker[a] = None
    <3>1. old = NewStaker(address) /\ a \notin Stakers
      BY <1>2, <2>1 DEF Stakers
    <3>2. old \in StakeInfo
      BY <3>1 DEF NewStaker, StakeInfo
    <3>3. SameStake(a, old) /\ old.locked_balance = LockedOf(a) /\ old.address = address
      BY <3>1, <3>2 DEF NewStaker, SameStake, LockedOf
    <3>4. old.start_vote_count = 0 /\ old.start_vote_tally = 0
      BY <3>1 DEF NewStaker
    <3>5. QED
      BY <1>1, <3>2, <3>3, <3>4, StakerFields
  <2>2. CASE staker[a] # None
    BY <1>2, <2>2, StoredStake
  <2>3. QED
    BY <2>1, <2>2
<1>4. PICK used \in Nat : /\ used = (IF old.locked_balance >= amount THEN amount ELSE old.locked_balance)
                          /\ used <= old.locked_balance
  BY <1>3
<1>5. PICK n, k \in Nat : n = pool.to_withdraw - used /\ k = old.locked_balance - used
  BY <1>3, <1>4, ReleasedApplies
<1>6. Released(pool, used) = [pool EXCEPT !.to_withdraw = n] /\ Released(pool, used) \in Pool
  BY <1>3, <1>4, <1>5, ReleasedApplies
<1>7. Released(pool, used) # Failed
  BY <1>6, StakingAssumption
<1>8. PICK begun : begun = IF old.locked_balance = 0 /\ old.staked_balance = 0
                           THEN [old EXCEPT !.start_vote_count = voteCount, !.start_vote_tally = voteTally[a]]
                           ELSE [old EXCEPT !.locked_balance = k]
  OBVIOUS
<1>9. /\ begun \in StakeInfo /\ begun.staked_balance = old.staked_balance
      /\ begun.reward_debt = old.reward_debt /\ begun.staked = old.staked
      /\ begun.start_vote_count <= voteCount /\ begun.start_vote_tally <= voteTally[a]
  <2>1. CASE old.locked_balance = 0 /\ old.staked_balance = 0
    <3>1. begun = [old EXCEPT !.start_vote_count = voteCount, !.start_vote_tally = voteTally[a]]
      BY <1>8, <2>1
    <3>2. /\ begun \in StakeInfo /\ begun.staked_balance = old.staked_balance
          /\ begun.reward_debt = old.reward_debt /\ begun.staked = old.staked
          /\ begun.start_vote_count = voteCount /\ begun.start_vote_tally = voteTally[a]
      BY <1>1, <1>3, <3>1 DEF StakeInfo
    <3>3. QED
      BY <1>1, <3>2
  <2>2. CASE ~(old.locked_balance = 0 /\ old.staked_balance = 0)
    <3>1. begun = [old EXCEPT !.locked_balance = k]
      BY <1>8, <2>2
    <3>2. QED
      BY <1>3, <3>1 DEF StakeInfo
  <2>3. QED
    BY <2>1, <2>2
<1>10. SameStake(a, begun)
  BY <1>3, <1>9 DEF SameStake
<1>11. PICK b \in Nat : b = old.staked_balance + amount
  BY <1>3
<1>payable. Payable(a, begun, exists)
  <2>1. CASE old.staked_balance = 0
    BY <1>9, <2>1 DEF Payable
  <2>2. CASE old.staked_balance # 0
    <3>1. old = staker[a] /\ staker[a] # None
      BY <1>2, <2>2 DEF NewStaker
    <3>2. Payable(a, old, exists)
      BY <3>1 DEF CanBePaid, RewardDue, Payable
    <3>3. begun = [old EXCEPT !.locked_balance = k]
      BY <1>8, <2>2
    <3>4. begun.start_vote_count = old.start_vote_count /\ begun.start_vote_tally = old.start_vote_tally
      BY <1>3, <3>3 DEF StakeInfo
    <3>5. QED
      BY <1>9, <3>2, <3>4, PayableSame
  <2>3. QED
    BY <2>1, <2>2
<1>12. PICK x \in Pool, y \in StakeInfo :
           UpdateStake(Released(pool, used), a, begun, b, exists) = [pool |-> x, staker |-> y]
  <2>1. \E x \in Pool, y \in StakeInfo :
            UpdateStake([pool EXCEPT !.to_withdraw = n], a, begun, b, exists) = [pool |-> x, staker |-> y]
    BY ONLY StakesInv, a \in Account, FundedWith(a), n \in Nat, b \in Nat, <1>9, <1>10, <1>payable,
            UpdateStakeYields
  <2>2. QED
    BY <1>6, <2>1
<1>13. [pool |-> x, staker |-> y] # Failed
  BY NotFailed
<1>14. DepositResult(a, amount, address, exists) = [[pool |-> x, staker |-> y] EXCEPT !.staker.start_date = now]
  BY <1>1, <1>2, <1>3, <1>4, <1>5, <1>7, <1>8, <1>11, <1>12, <1>13 DEF DepositResult
<1>15. PICK z \in StakeInfo : z = [y EXCEPT !.start_date = now]
  BY <1>1 DEF StakeInfo
<1>16. [[pool |-> x, staker |-> y] EXCEPT !.staker.start_date = now] = [pool |-> x, staker |-> z]
  BY <1>15
<1>17. QED
  BY <1>2, <1>14, <1>16, NotFailed

(* So is a withdrawal request of at most the stake. *)
LEMMA RequestAppliesWhenFunded ==
    ASSUME StakesInv, NEW a \in Stakers, FundedWith(a), NEW amount \in Nat,
           amount <= staker[a].staked_balance, NEW exists, CanBePaid(a, exists)
    PROVE  WithdrawRequestResult(a, amount, staker[a].address, exists) # Failed
<1>1. a \in Account /\ staker[a] # None /\ now \in Nat /\ pool \in Pool
  BY DEF Stakers, StakesInv, StakingTypeOK
<1>2. PICK s : s = staker[a]
  OBVIOUS
<1>3. /\ s \in StakeInfo /\ SameStake(a, s) /\ s.locked_balance \in Nat /\ s.staked_balance \in Nat
      /\ s.start_vote_count <= voteCount /\ s.start_vote_tally <= voteTally[a]
      /\ pool.to_withdraw \in Nat
  BY <1>1, <1>2, StoredStake
<1>4. PICK b \in Nat : b = s.staked_balance - amount
  BY <1>2, <1>3
<1>5. pool = [pool EXCEPT !.to_withdraw = pool.to_withdraw]
  BY <1>1 DEF Pool
<1>6. PICK x \in Pool, y \in StakeInfo :
          UpdateStake(pool, a, s, b, exists) = [pool |-> x, staker |-> y]
  <2>1. PICK n \in Nat : n = pool.to_withdraw
    BY <1>3
  <2>2. [pool EXCEPT !.to_withdraw = n] = pool
    BY <1>5, <2>1
  <2>3. \E x \in Pool, y \in StakeInfo :
            UpdateStake([pool EXCEPT !.to_withdraw = n], a, s, b, exists) = [pool |-> x, staker |-> y]
    <3>1. Payable(a, s, exists)
      BY <1>2 DEF CanBePaid, RewardDue, Payable
    <3>2. QED
      BY <1>1, <1>3, <3>1, UpdateStakeYields
  <2>4. QED
    BY <2>2, <2>3
<1>7. [pool |-> x, staker |-> y] # Failed
  BY NotFailed
<1>8. ~(s.staked_balance < amount)
  BY <1>2, <1>3
<1>9. WithdrawRequestResult(a, amount, s.address, exists)
        = [pool |-> [x EXCEPT !.to_withdraw = @ + amount], staker |-> Requested(y, amount)]
  BY <1>1, <1>2, <1>4, <1>6, <1>7, <1>8 DEF WithdrawRequestResult
<1>10. [x EXCEPT !.to_withdraw = @ + amount] \in Pool
  <2>1. PICK k \in Nat : k = x.to_withdraw + amount
    BY PoolFields
  <2>2. [x EXCEPT !.to_withdraw = k] \in Pool
    BY DEF Pool
  <2>3. QED
    BY <2>1, <2>2
<1>11. Requested(y, amount) \in StakeInfo
  <2>1. PICK k \in Nat : k = y.locked_balance + amount
    BY StakerFields
  <2>2. [y EXCEPT !.start_date = now, !.locked_balance = k] \in StakeInfo
    BY <1>1 DEF StakeInfo
  <2>3. QED
    BY <2>1, <2>2 DEF Requested
<1>12. QED
  BY <1>2, <1>9, <1>10, <1>11, NotFailed

(* While the rewards due leave the rewards account its existential deposit *)
(* and the roundings, and the staker's own account can receive what it is  *)
(* due, no arithmetic of totals, debts, votes or rates makes the pallet    *)
(* refuse a slash, a deposit or a withdrawal request that the contract     *)
(* reports: the copy of the stakes stays in step.                          *)
THEOREM ReportsApply == StakingSpec => []ReportsApplyWhenFunded
<1>1. StakingInv => ReportsApplyWhenFunded
  <2> SUFFICES ASSUME StakesInv, Shortfall = 0, RewardsFunded, NEW a \in Stakers,
                      NEW exists \in BOOLEAN
               PROVE  /\ \A amount \in Slashes :
                            /\ staker[a].staked_balance + staker[a].locked_balance > 0
                            /\ staker[a].locked_balance < amount => CanBePaid(a, exists)
                            => SlashResult(a, amount, exists) # Failed
                      /\ CanBePaid(a, exists) =>
                            /\ \A amount \in Deposits :
                                  DepositResult(a, amount, staker[a].address, exists) # Failed
                            /\ \A amount \in Requests :
                                  amount <= staker[a].staked_balance =>
                                      WithdrawRequestResult(a, amount, staker[a].address, exists) # Failed
    BY DEF StakingInv, ReportsApplyWhenFunded
  <2>1. Deposits \subseteq Nat /\ Requests \subseteq Nat /\ Slashes \subseteq Nat
    BY StakingAssumption
  <2>2. FundedWith(a) /\ a \in Account /\ staker[a].address \in Address
    BY FundedWithStaker, StoredStaker, StakerFields DEF StakesInv
  <2>3. ASSUME NEW amount \in Slashes,
               staker[a].staked_balance + staker[a].locked_balance > 0,
               staker[a].locked_balance < amount => CanBePaid(a, exists)
        PROVE  SlashResult(a, amount, exists) # Failed
    BY <2>1, <2>2, <2>3, SlashAppliesWhenFunded
  <2>4. ASSUME CanBePaid(a, exists), NEW amount \in Deposits
        PROVE  DepositResult(a, amount, staker[a].address, exists) # Failed
    BY <2>1, <2>2, <2>4, DepositAppliesWhenFunded
  <2>5. ASSUME CanBePaid(a, exists), NEW amount \in Requests, amount <= staker[a].staked_balance
        PROVE  WithdrawRequestResult(a, amount, staker[a].address, exists) # Failed
    BY <2>1, <2>2, <2>5, RequestAppliesWhenFunded
  <2>6. QED
    BY <2>3, <2>4, <2>5
<1>2. QED
  BY <1>1, StakingInvariant, PTL
=============================================================================
