---------------------------- MODULE BridgeProofs ----------------------------
(***************************************************************************)
(* Proofs about StakingBridge, for any accounts, any number of reports on  *)
(* their way and any losses: until a report is lost or refused for a known *)
(* reason, the pallet's copy of a stake is the contract's ledger as soon   *)
(* as the reports on their way are applied, and the totals that rewards    *)
(* are computed from match the copies whatever becomes of the reports.     *)
(*                                                                         *)
(* That the copy follows the ledger is not inductive: a refused report     *)
(* must be shown to have a known reason, which needs that the contract     *)
(* accepted every report on its way for the stake that the reports before  *)
(* it leave.  The invariant therefore runs the reports one by one from the *)
(* copy to the ledger, and says this of each of them.                      *)
(***************************************************************************)
EXTENDS StakingBridge, StakingProofs

(* A stake, without the date the contract keeps with it. *)
Stake(staked, locked) == [staked |-> staked, locked |-> locked]
Stakes == [staked : Nat, locked : Nat]
Ledger == [staked : Nat, locked : Nat, since : Nat]

(* The reports of the contract. *)
Report ==
    {r \in [kind : {"deposit", "request", "withdraw", "slash"}, reporter : Account,
            amount : Nat, address : Address \cup {None}] :
        r.kind \in {"deposit", "request"} => r.address \in Address}

(* What the contract accepts for a stake. *)
Accepted(s, r) ==
    /\ r.kind = "request" => r.amount <= s.staked
    /\ r.kind = "withdraw" => r.amount > 0 /\ r.amount = s.locked
    /\ r.kind = "slash" => s.staked + s.locked > 0

(* The stakes of an account from c on, with the reports q one by one. *)
Follows(st, c, q, a) ==
    /\ st[0] = c
    /\ \A n \in 1..Len(q) :
          st[n] = IF q[n].reporter = a THEN After(st[n - 1], q[n]) ELSE st[n - 1]

(* The reports q lead from the stake c to the stake e, each one accepted. *)
Leads(c, q, a, e) ==
    \E st : /\ Follows(st, c, q, a) /\ st[Len(q)] = e
            /\ \A n \in 1..Len(q) : q[n].reporter = a => Accepted(st[n - 1], q[n])

-----------------------------------------------------------------------------
(* Two sequences of stakes that follow the same reports are the same. *)
LEMMA FollowsUnique ==
    ASSUME NEW S, NEW q \in Seq(S), NEW c, NEW a, NEW f, NEW g,
           Follows(f, c, q, a), Follows(g, c, q, a)
    PROVE  f[Len(q)] = g[Len(q)]
<1> DEFINE P == {n \in Nat : n <= Len(q) => f[n] = g[n]}
<1>1. Len(q) \in Nat
  OBVIOUS
<1>2. 0 \in P
  BY DEF Follows
<1>3. ASSUME NEW n \in Nat, n \in P PROVE n + 1 \in P
  <2>1. SUFFICES ASSUME n + 1 <= Len(q) PROVE f[n + 1] = g[n + 1]
    OBVIOUS
  <2>2. n + 1 \in 1..Len(q) /\ (n + 1) - 1 = n /\ n <= Len(q)
    BY <1>1, <2>1
  <2>3. f[n] = g[n]
    BY <1>3, <2>2
  <2>4. QED
    BY <2>2, <2>3 DEF Follows
<1> HIDE DEF P
<1>4. Nat \subseteq P
  BY <1>2, <1>3, NatSetInduction
<1>5. Len(q) \in P
  BY <1>1, <1>4
<1>6. QED
  BY <1>1, <1>5 DEF P

(* No report on its way. *)
LEMMA LeadsNowhere ==
    ASSUME NEW c, NEW a
    PROVE  Leads(c, <<>>, a, c)
<1> DEFINE f == [n \in 0..0 |-> c]
<1>1. Len(<<>>) = 0 /\ f[0] = c /\ 1..0 = {}
  OBVIOUS
<1>2. Follows(f, c, <<>>, a) /\ f[Len(<<>>)] = c
  BY <1>1 DEF Follows
<1> HIDE DEF f
<1>3. QED
  BY <1>1, <1>2 DEF Leads

(* A report sent comes last. *)
LEMMA LeadsOn ==
    ASSUME NEW S, NEW q \in Seq(S), NEW r \in S, NEW c, NEW a, NEW e, Leads(c, q, a, e),
           r.reporter = a => Accepted(e, r)
    PROVE  Leads(c, Append(q, r), a, IF r.reporter = a THEN After(e, r) ELSE e)
<1>1. PICK st : /\ Follows(st, c, q, a) /\ st[Len(q)] = e
                /\ \A n \in 1..Len(q) : q[n].reporter = a => Accepted(st[n - 1], q[n])
  BY DEF Leads
<1>2. PICK k \in Nat : k = Len(q)
  OBVIOUS
<1>3. PICK z : z = IF r.reporter = a THEN After(e, r) ELSE e
  OBVIOUS
<1>4. PICK f : f = [n \in 0..(k + 1) |-> IF n = k + 1 THEN z ELSE st[n]]
  OBVIOUS
<1>5. PICK p : p = Append(q, r)
  OBVIOUS
<1>6. /\ Len(p) = k + 1 /\ p[k + 1] = r
      /\ \A n \in 1..k : p[n] = q[n]
  BY <1>2, <1>5
<1>7. /\ f[k + 1] = z
      /\ \A n \in 0..k : f[n] = st[n]
  BY <1>4
<1>8. ASSUME NEW n \in 1..(k + 1)
      PROVE  /\ f[n] = IF p[n].reporter = a THEN After(f[n - 1], p[n]) ELSE f[n - 1]
             /\ p[n].reporter = a => Accepted(f[n - 1], p[n])
  <2>1. CASE n = k + 1
    <3>1. p[n] = r /\ f[n] = z /\ f[n - 1] = e
      <4>1. n - 1 = k /\ k \in 0..k
        BY <2>1
      <4>2. f[k] = st[k]
        BY <1>7, <4>1
      <4>3. QED
        BY <1>1, <1>2, <1>6, <1>7, <2>1, <4>1, <4>2
    <3>2. QED
      BY <1>3, <3>1
  <2>2. CASE n # k + 1
    <3>1. n \in 1..k /\ n \in 0..k /\ n - 1 \in 0..k
      BY <2>2
    <3>2. p[n] = q[n] /\ f[n] = st[n] /\ f[n - 1] = st[n - 1]
      BY <1>6, <1>7, <3>1
    <3>3. /\ st[n] = IF q[n].reporter = a THEN After(st[n - 1], q[n]) ELSE st[n - 1]
          /\ q[n].reporter = a => Accepted(st[n - 1], q[n])
      BY <1>1, <1>2, <3>1 DEF Follows
    <3>4. QED
      BY <3>2, <3>3
  <2>3. QED
    BY <2>1, <2>2
<1>9. f[0] = c
  <2>1. 0 \in 0..k
    OBVIOUS
  <2>2. QED
    BY <1>1, <1>7, <2>1 DEF Follows
<1>10. Follows(f, c, p, a)
  BY <1>6, <1>8, <1>9 DEF Follows
<1>11. Leads(c, p, a, z)
  BY <1>6, <1>7, <1>8, <1>10 DEF Leads
<1>12. QED
  BY <1>3, <1>5, <1>11

(* A report delivered comes first. *)
LEMMA LeadsFrom ==
    ASSUME NEW S, NEW q \in Seq(S), q # <<>>, NEW c, NEW a, NEW e, Leads(c, q, a, e)
    PROVE  /\ Head(q).reporter = a => Accepted(c, Head(q))
           /\ Leads(IF Head(q).reporter = a THEN After(c, Head(q)) ELSE c, Tail(q), a, e)
<1>1. PICK st : /\ Follows(st, c, q, a) /\ st[Len(q)] = e
                /\ \A n \in 1..Len(q) : q[n].reporter = a => Accepted(st[n - 1], q[n])
  BY DEF Leads
<1>2. PICK k \in Nat : Len(q) = k + 1
  <2>1. Len(q) \in Nat \ {0}
    OBVIOUS
  <2>2. Len(q) - 1 \in Nat /\ Len(q) = (Len(q) - 1) + 1
    BY <2>1
  <2>3. QED
    BY <2>2
<1>3. PICK p : p = Tail(q)
  OBVIOUS
<1>4. Head(q) = q[1] /\ Len(p) = k /\ \A n \in 1..k : p[n] = q[n + 1]
  BY <1>2, <1>3
<1>5. 1 \in 1..(k + 1) /\ 1 - 1 = 0
  OBVIOUS
<1>6. /\ st[1] = IF q[1].reporter = a THEN After(c, q[1]) ELSE c
      /\ q[1].reporter = a => Accepted(c, q[1])
  BY <1>1, <1>2, <1>5 DEF Follows
<1>7. PICK f : f = [n \in 0..k |-> st[n + 1]]
  OBVIOUS
<1>8. \A n \in 0..k : f[n] = st[n + 1]
  BY <1>7
<1>9. f[0] = st[1] /\ f[k] = e
  <2>1. 0 \in 0..k /\ k \in 0..k /\ 0 + 1 = 1
    OBVIOUS
  <2>2. QED
    BY <1>1, <1>2, <1>8, <2>1
<1>10. ASSUME NEW n \in 1..k
       PROVE  /\ f[n] = IF p[n].reporter = a THEN After(f[n - 1], p[n]) ELSE f[n - 1]
              /\ p[n].reporter = a => Accepted(f[n - 1], p[n])
  <2>1. /\ n \in 0..k /\ n - 1 \in 0..k /\ n + 1 \in 1..(k + 1)
        /\ (n + 1) - 1 = n /\ (n - 1) + 1 = n
    OBVIOUS
  <2>2. p[n] = q[n + 1] /\ f[n] = st[n + 1] /\ f[n - 1] = st[n]
    BY <1>4, <1>8, <2>1
  <2>3. /\ st[n + 1] = IF q[n + 1].reporter = a THEN After(st[n], q[n + 1]) ELSE st[n]
        /\ q[n + 1].reporter = a => Accepted(st[n], q[n + 1])
    BY <1>1, <1>2, <2>1 DEF Follows
  <2>4. QED
    BY <2>2, <2>3
<1>11. Follows(f, st[1], p, a)
  BY <1>4, <1>9, <1>10 DEF Follows
<1>12. Leads(st[1], p, a, e)
  BY <1>4, <1>9, <1>10, <1>11 DEF Leads
<1>13. QED
  BY <1>3, <1>4, <1>6, <1>12

(* What Delivered computes. *)
LEMMA DeliveredLeads ==
    ASSUME NEW S, inFlight \in Seq(S), NEW a, NEW e, Leads(Copy(a), inFlight, a, e)
    PROVE  Delivered(a) = e
<1> DEFINE IsCopy(g) == g = [n \in 0..Len(inFlight) |->
               IF n = 0 THEN Copy(a)
               ELSE IF inFlight[n].reporter = a THEN After(g[n - 1], inFlight[n])
               ELSE g[n - 1]]
           copy == CHOOSE g : IsCopy(g)
<1>1. Delivered(a) = copy[Len(inFlight)]
  BY DEF Delivered
<1>2. PICK st : Follows(st, Copy(a), inFlight, a) /\ st[Len(inFlight)] = e
  BY DEF Leads
<1>3. PICK k \in Nat : k = Len(inFlight)
  OBVIOUS
<1>4. PICK f : f = [n \in 0..k |-> st[n]]
  OBVIOUS
<1>5. \A n \in 0..k : f[n] = st[n]
  BY <1>4
<1>6. ASSUME NEW n \in 0..k
      PROVE  f[n] = IF n = 0 THEN Copy(a)
                    ELSE IF inFlight[n].reporter = a THEN After(f[n - 1], inFlight[n])
                    ELSE f[n - 1]
  <2>1. CASE n = 0
    BY <1>2, <1>5, <2>1 DEF Follows
  <2>2. CASE n # 0
    <3>1. n \in 1..k /\ n - 1 \in 0..k
      BY <2>2
    <3>2. f[n] = st[n] /\ f[n - 1] = st[n - 1]
      BY <1>5, <3>1
    <3>3. st[n] = IF inFlight[n].reporter = a THEN After(st[n - 1], inFlight[n]) ELSE st[n - 1]
      BY <1>2, <1>3, <3>1 DEF Follows
    <3>4. QED
      BY <2>2, <3>2, <3>3
  <2>3. QED
    BY <2>1, <2>2
<1>7. IsCopy(f)
  BY <1>3, <1>4, <1>6
<1>8. IsCopy(copy)
  BY <1>7
<1> HIDE DEF copy
<1>9. Follows(copy, Copy(a), inFlight, a)
  <2>1. 0 \in 0..k
    OBVIOUS
  <2>2. copy[0] = Copy(a)
    BY <1>3, <1>8, <2>1
  <2>3. ASSUME NEW n \in 1..k
        PROVE  copy[n] = IF inFlight[n].reporter = a THEN After(copy[n - 1], inFlight[n])
                         ELSE copy[n - 1]
    <3>1. n \in 0..k /\ n # 0
      OBVIOUS
    <3>2. QED
      BY <1>3, <1>8, <3>1
  <2>4. QED
    BY <1>3, <2>2, <2>3 DEF Follows
<1>10. copy[Len(inFlight)] = st[Len(inFlight)]
  BY <1>2, <1>9, FollowsUnique
<1>11. QED
  BY <1>1, <1>2, <1>10

-----------------------------------------------------------------------------
(* What is left after a subtraction that stops at zero. *)
LEMMA LessNat ==
    ASSUME NEW m \in Nat, NEW n \in Nat
    PROVE  Less(m, n) \in Nat
  BY DEF Less

(* The parts of a report. *)
LEMMA ReportFields ==
    ASSUME NEW r \in Report
    PROVE  /\ r.kind \in {"deposit", "request", "withdraw", "slash"}
           /\ r.reporter \in Account /\ r.amount \in Nat
           /\ r.kind \in {"deposit", "request"} => r.address \in Address
  BY DEF Report

(* The balances m and n that an accepted change leaves of a stake, with or *)
(* without a date.                                                         *)
Leaves(s, r, m, n) ==
    /\ r.kind = "deposit" => m = s.staked + r.amount /\ n = Less(s.locked, r.amount)
    /\ r.kind = "request" => m = s.staked - r.amount /\ n = s.locked + r.amount
    /\ r.kind = "withdraw" => m = s.staked /\ n = s.locked - r.amount
    /\ r.kind = "slash" => /\ m = Less(s.staked, Less(r.amount, s.locked))
                           /\ n = Less(s.locked, r.amount)

(* What a change does to the record of a stake. *)
LEMMA AfterBalances ==
    ASSUME NEW s, s.staked \in Nat, s.locked \in Nat, s = [s EXCEPT !.staked = @],
           {"staked", "locked"} \subseteq DOMAIN s,
           NEW r \in Report, Accepted(s, r)
    PROVE  \E m, n \in Nat :
              /\ After(s, r) = [s EXCEPT !.staked = m, !.locked = n]
              /\ Leaves(s, r, m, n)
<1>1. PICK x, y, v \in Nat : x = s.staked /\ y = s.locked /\ v = r.amount
  BY ReportFields
<1>2. CASE r.kind = "deposit"
  <2>1. After(s, r) = [s EXCEPT !.staked = x + v, !.locked = Less(y, v)]
    BY <1>1, <1>2 DEF After
  <2>2. x + v \in Nat /\ Less(y, v) \in Nat
    BY LessNat
  <2>3. QED
    BY <1>1, <1>2, <2>1, <2>2 DEF Leaves
<1>3. CASE r.kind = "request"
  <2>1. After(s, r) = [s EXCEPT !.staked = x - v, !.locked = y + v]
    BY <1>1, <1>3 DEF After
  <2>2. v <= x
    BY <1>1, <1>3 DEF Accepted
  <2>3. x - v \in Nat /\ y + v \in Nat
    BY <2>2
  <2>4. QED
    BY <1>1, <1>3, <2>1, <2>3 DEF Leaves
<1>4. CASE r.kind = "withdraw"
  <2>1. After(s, r) = [s EXCEPT !.locked = y - v]
    BY <1>1, <1>4 DEF After
  <2>2. [s EXCEPT !.locked = y - v] = [s EXCEPT !.staked = x, !.locked = y - v]
    BY <1>1
  <2>3. v = y
    BY <1>1, <1>4 DEF Accepted
  <2>4. PICK z \in Nat : z = y - v
    BY <2>3
  <2>5. Leaves(s, r, x, z)
    BY <1>1, <1>4, <2>4 DEF Leaves
  <2>6. QED
    BY <2>1, <2>2, <2>4, <2>5
<1>5. CASE r.kind = "slash"
  <2>1. After(s, r) = [s EXCEPT !.staked = Less(x, Less(v, y)), !.locked = Less(y, v)]
    BY <1>1, <1>5 DEF After
  <2>2. Less(v, y) \in Nat /\ Less(y, v) \in Nat
    BY LessNat
  <2>3. Less(x, Less(v, y)) \in Nat
    BY <2>2, LessNat
  <2>4. QED
    BY <1>1, <1>5, <2>1, <2>2, <2>3 DEF Leaves
<1>6. QED
  BY <1>2, <1>3, <1>4, <1>5, ReportFields

(* A change of a stake. *)
LEMMA AfterStake ==
    ASSUME NEW s \in Stakes, NEW r \in Report, Accepted(s, r)
    PROVE  \E m, n \in Nat :
              /\ After(s, r) = Stake(m, n)
              /\ Leaves(s, r, m, n)
<1>1. /\ s.staked \in Nat /\ s.locked \in Nat /\ s = [s EXCEPT !.staked = @]
      /\ {"staked", "locked"} \subseteq DOMAIN s
  BY DEF Stakes
<1>2. PICK m, n \in Nat : After(s, r) = [s EXCEPT !.staked = m, !.locked = n] /\ Leaves(s, r, m, n)
  BY <1>1, AfterBalances
<1>3. [s EXCEPT !.staked = m, !.locked = n] = [staked |-> m, locked |-> n]
  <2>1. PICK e : e = [s EXCEPT !.staked = m, !.locked = n]
    OBVIOUS
  <2>2. e \in Stakes /\ e.staked = m /\ e.locked = n
    BY <2>1 DEF Stakes
  <2>3. e = [staked |-> m, locked |-> n]
    BY <2>2 DEF Stakes
  <2>4. QED
    BY <2>1, <2>3
<1>4. QED
  BY <1>2, <1>3 DEF Stake

(* The contract's ledger changes as the stake does. *)
LEMMA AfterLedger ==
    ASSUME NEW l \in Ledger, NEW r \in Report, Accepted(l, r), now \in Nat
    PROVE  LET d == Dated(After(l, r), r)
           IN  d \in Ledger /\ Stake(d.staked, d.locked) = After(Stake(l.staked, l.locked), r)
<1>1. PICK s : s = Stake(l.staked, l.locked)
  OBVIOUS
<1>2. s \in Stakes /\ s.staked = l.staked /\ s.locked = l.locked
  BY <1>1 DEF Stake, Stakes, Ledger
<1>3. Accepted(s, r)
  BY <1>2 DEF Accepted
<1>4. /\ l.staked \in Nat /\ l.locked \in Nat /\ l = [l EXCEPT !.staked = @]
      /\ {"staked", "locked"} \subseteq DOMAIN l
  BY DEF Ledger
<1>5. PICK m, n \in Nat :
              /\ After(s, r) = Stake(m, n)
              /\ Leaves(s, r, m, n)
  BY <1>2, <1>3, AfterStake
<1>6. PICK x, y \in Nat :
              /\ After(l, r) = [l EXCEPT !.staked = x, !.locked = y]
              /\ Leaves(l, r, x, y)
  BY <1>4, AfterBalances
<1>7. x = m /\ y = n
  BY <1>2, <1>5, <1>6, ReportFields DEF Leaves
<1>8. PICK e : e = After(l, r)
  OBVIOUS
<1>9. e \in Ledger /\ e.staked = x /\ e.locked = y
  BY <1>6, <1>8 DEF Ledger
<1>10. PICK d : d = Dated(e, r)
  OBVIOUS
<1>11. d \in Ledger /\ d.staked = x /\ d.locked = y
  BY <1>9, <1>10 DEF Dated, Ledger
<1>12. QED
  BY <1>1, <1>5, <1>7, <1>8, <1>10, <1>11

-----------------------------------------------------------------------------
(* The inductive invariant.  ToWithdraw never exceeds what is locked, and  *)
(* equals it while no report is missing.                                   *)
BridgeInv ==
    /\ StakesInv /\ Shortfall >= 0
    /\ excused \in BOOLEAN /\ ledger \in [Account -> Ledger] /\ inFlight \in Seq(Report)
    /\ ~excused =>
          /\ Shortfall = 0
          /\ \A a \in Account :
                Leads(Copy(a), inFlight, a, Stake(ledger[a].staked, ledger[a].locked))

(* The copy of a stake. *)
LEMMA CopyIs ==
    ASSUME StakesInv, NEW a \in Account
    PROVE  /\ Copy(a) = Stake(StakedOf(a), LockedOf(a)) /\ Copy(a) \in Stakes
           /\ Copy(a).staked = StakedOf(a) /\ Copy(a).locked = LockedOf(a)
           /\ StakedOf(a) \in Nat /\ LockedOf(a) \in Nat
<1>1. Copy(a) = Stake(StakedOf(a), LockedOf(a)) /\ StakedOf(a) \in Nat /\ LockedOf(a) \in Nat
  <2>1. CASE staker[a] = None
    <3>1. a \notin Stakers
      BY <2>1 DEF Stakers
    <3>2. StakedOf(a) = 0 /\ LockedOf(a) = 0
      BY <3>1 DEF StakedOf, LockedOf
    <3>3. QED
      BY <2>1, <3>2 DEF Copy, Stake
  <2>2. CASE staker[a] # None
    <3>1. LockedOf(a) = staker[a].locked_balance /\ StakedOf(a) = staker[a].staked_balance
          /\ staker[a].locked_balance \in Nat /\ staker[a].staked_balance \in Nat
      BY <2>2, StoredStake
    <3>2. QED
      BY <2>2, <3>1 DEF Copy, Stake
  <2>3. QED
    BY <2>1, <2>2
<1>2. PICK m, n \in Nat : m = StakedOf(a) /\ n = LockedOf(a)
  BY <1>1
<1>3. Stake(m, n) \in Stakes /\ Stake(m, n).staked = m /\ Stake(m, n).locked = n
  BY DEF Stake, Stakes
<1>4. QED
  BY <1>1, <1>2, <1>3

(* The copies after a report is applied. *)
LEMMA RestoredCopies ==
    ASSUME NEW a \in Account, NEW m, NEW n, Restored(a, m, n)
    PROVE  /\ Copy(a)' = Stake(m, n)
           /\ \A x \in Account \ {a} : Copy(x)' = Copy(x)
<1>1. staker'[a] # None
  BY DEF Restored, Stakers
<1>2. Copy(a)' = Stake(m, n)
  BY <1>1 DEF Copy, Restored, Stake
<1>3. ASSUME NEW x \in Account \ {a} PROVE Copy(x)' = Copy(x)
  <2>1. staker'[x] = staker[x]
    BY DEF Restored
  <2>2. QED
    BY <2>1 DEF Copy
<1>4. QED
  BY <1>2, <1>3

(* A slash leaves the copy what the contract leaves. *)
LEMMA SlashLeaves ==
    ASSUME NEW s \in StakeInfo, NEW amount \in Nat
    PROVE  /\ s.locked_balance >= amount =>
                 /\ Less(s.staked_balance, Less(amount, s.locked_balance)) = s.staked_balance
                 /\ Less(s.locked_balance, amount) = s.locked_balance - amount
           /\ ~(s.locked_balance >= amount) =>
                 /\ Less(s.staked_balance, Less(amount, s.locked_balance)) = SlashedStake(s, amount)
                 /\ Less(s.locked_balance, amount) = 0
<1>1. PICK m, n \in Nat : m = s.staked_balance /\ n = s.locked_balance
  BY StakerFields
<1>2. CASE n >= amount
  <2>1. Less(amount, n) = 0 /\ Less(n, amount) = n - amount
    BY <1>2 DEF Less
  <2>2. Less(m, 0) = m
    BY DEF Less
  <2>3. QED
    BY <1>1, <1>2, <2>1, <2>2
<1>3. CASE ~(n >= amount)
  <2>1. Less(amount, n) = amount - n /\ Less(n, amount) = 0
    BY <1>3 DEF Less
  <2>2. Less(m, amount - n) = IF n + m >= amount THEN m - (amount - n) ELSE 0
    BY <1>3 DEF Less
  <2>3. QED
    BY <1>1, <1>3, <2>1, <2>2 DEF SlashedStake
<1>4. QED
  BY <1>2, <1>3

(* A report that is applied: the copy changes as the ledger did, and the   *)
(* amount to withdraw falls behind only if the contract could not have     *)
(* accepted the report for this copy.                                      *)
LEMMA HandleInv ==
    ASSUME StakesInv, NEW r \in Report, Handle(r)
    PROVE  /\ StakesInv' /\ Shortfall' >= Shortfall
           /\ Accepted(Copy(r.reporter), r) =>
                 Shortfall' = Shortfall /\ Copy(r.reporter)' = After(Copy(r.reporter), r)
           /\ \A x \in Account \ {r.reporter} : Copy(x)' = Copy(x)
<1>1. PICK a \in Account, v \in Nat : a = r.reporter /\ v = r.amount
  BY ReportFields
<1>2. Shortfall \in Int
  BY ShortfallInt
<1>3. /\ Copy(a) \in Stakes /\ Copy(a).staked = StakedOf(a) /\ Copy(a).locked = LockedOf(a)
      /\ StakedOf(a) \in Nat /\ LockedOf(a) \in Nat
  BY CopyIs
<1>4. ASSUME Accepted(Copy(a), r)
      PROVE  \E m, n \in Nat : After(Copy(a), r) = Stake(m, n) /\ Leaves(Copy(a), r, m, n)
  BY <1>3, <1>4, AfterStake
<1>5. CASE r.kind = "deposit"
  <2>1. r.address \in Address /\ ReportStakeDeposited(a, v, r.address)
    BY <1>1, <1>5, ReportFields DEF Handle
  <2>2. /\ StakesInv' /\ Shortfall' = Shortfall
        /\ Restored(a, StakedOf(a) + v, Less(LockedOf(a), v))
    BY <2>1, DepositInv DEF Less
  <2>3. /\ Copy(a)' = Stake(StakedOf(a) + v, Less(LockedOf(a), v))
        /\ \A x \in Account \ {a} : Copy(x)' = Copy(x)
    BY <2>2, RestoredCopies
  <2>4. ASSUME Accepted(Copy(a), r) PROVE Copy(a)' = After(Copy(a), r)
    BY <1>1, <1>3, <1>4, <1>5, <2>3, <2>4 DEF Leaves
  <2>5. QED
    BY <1>1, <1>2, <2>2, <2>3, <2>4
<1>6. CASE r.kind = "request"
  <2>1. r.address \in Address /\ ReportStakingWithdrawRequest(a, v, r.address)
    BY <1>1, <1>6, ReportFields DEF Handle
  <2>2. StakesInv' /\ Shortfall' = Shortfall /\ Restored(a, StakedOf(a) - v, LockedOf(a) + v)
    BY <2>1, WithdrawRequestInv
  <2>3. /\ Copy(a)' = Stake(StakedOf(a) - v, LockedOf(a) + v)
        /\ \A x \in Account \ {a} : Copy(x)' = Copy(x)
    BY <2>2, RestoredCopies
  <2>4. ASSUME Accepted(Copy(a), r) PROVE Copy(a)' = After(Copy(a), r)
    BY <1>1, <1>3, <1>4, <1>6, <2>3, <2>4 DEF Leaves
  <2>5. QED
    BY <1>1, <1>2, <2>2, <2>3, <2>4
<1>7. CASE r.kind = "withdraw"
  <2>1. ReportStakeWithdrawn(a, v)
    BY <1>1, <1>7 DEF Handle
  <2>2. /\ StakesInv' /\ v <= LockedOf(a) /\ Shortfall' = Shortfall + (LockedOf(a) - v)
        /\ Restored(a, StakedOf(a), LockedOf(a) - v)
    BY <2>1, WithdrawnInv
  <2>3. /\ Copy(a)' = Stake(StakedOf(a), LockedOf(a) - v)
        /\ \A x \in Account \ {a} : Copy(x)' = Copy(x)
    BY <2>2, RestoredCopies
  <2>4. ASSUME Accepted(Copy(a), r)
        PROVE  Copy(a)' = After(Copy(a), r) /\ v = LockedOf(a)
    <3>1. Copy(a)' = After(Copy(a), r)
      BY <1>1, <1>3, <1>4, <1>7, <2>3, <2>4 DEF Leaves
    <3>2. QED
      BY <1>1, <1>3, <1>7, <2>4, <3>1 DEF Accepted
  <2>5. PICK h \in Int, m \in Nat : h = Shortfall /\ m = LockedOf(a)
    BY <1>2, <1>3
  <2>6. Shortfall' >= Shortfall
    BY <2>2, <2>5
  <2>7. v = LockedOf(a) => Shortfall' = Shortfall
    BY <2>2, <2>5
  <2>8. QED
    BY <1>1, <2>2, <2>3, <2>4, <2>6, <2>7
<1>8. CASE r.kind = "slash"
  <2>1. ReportSlash(a, v)
    BY <1>1, <1>8 DEF Handle
  <2>2. /\ StakesInv' /\ Shortfall' = Shortfall /\ staker[a] # None
        /\ LockedOf(a) >= v => Restored(a, StakedOf(a), LockedOf(a) - v)
        /\ ~(LockedOf(a) >= v) => Restored(a, SlashedStake(staker[a], v), 0)
    BY <2>1, SlashInv
  <2>3. /\ staker[a] \in StakeInfo /\ LockedOf(a) = staker[a].locked_balance
        /\ StakedOf(a) = staker[a].staked_balance
    BY <2>2, StoredStake
  <2>4. Restored(a, Less(StakedOf(a), Less(v, LockedOf(a))), Less(LockedOf(a), v))
    BY <2>2, <2>3, SlashLeaves
  <2>5. /\ Copy(a)' = Stake(Less(StakedOf(a), Less(v, LockedOf(a))), Less(LockedOf(a), v))
        /\ \A x \in Account \ {a} : Copy(x)' = Copy(x)
    BY <2>4, RestoredCopies
  <2>6. ASSUME Accepted(Copy(a), r) PROVE Copy(a)' = After(Copy(a), r)
    BY <1>1, <1>3, <1>4, <1>8, <2>5, <2>6 DEF Leaves
  <2>7. QED
    BY <1>1, <1>2, <2>2, <2>5, <2>6
<1>9. QED
  BY <1>5, <1>6, <1>7, <1>8, ReportFields

(* What leaves the storage of staking alone. *)
LEMMA SameStakes ==
    ASSUME StakesInv, UNCHANGED stakingVars
    PROVE  StakesInv' /\ Shortfall' = Shortfall /\ \A x : Copy(x)' = Copy(x)
<1>1. StakingTypeOK' /\ now <= now' /\ voteCount <= voteCount'
      /\ \A a \in Account : voteTally[a] <= voteTally'[a]
  BY DEF StakesInv, StakingTypeOK, stakingVars
<1>2. StakesInv' /\ Shortfall' = Shortfall
  BY <1>1, OtherInv DEF stakingVars
<1>3. \A x : Copy(x)' = Copy(x)
  BY DEF Copy, stakingVars
<1>4. QED
  BY <1>2, <1>3

(* A report that the contract accepted for this copy and that the pallet   *)
(* refuses has a known reason, unless it requests nothing for an account   *)
(* without a stake.                                                        *)
LEMMA RefusedForAReason ==
    ASSUME StakesInv, Shortfall = 0, NEW r \in Report, Accepted(Copy(r.reporter), r),
           NEW exists, HandlerResult(r, exists) = Failed, ~Excuse(r, exists)
    PROVE  After(Copy(r.reporter), r) = Copy(r.reporter)
<1>1. PICK a \in Account, v \in Nat : a = r.reporter /\ v = r.amount
  BY ReportFields
<1>2. ChangesStake(r) => FundedWith(a) /\ (staker[a] # None => CanBePaid(a, exists))
  BY <1>1 DEF Excuse, FundedWith
<1>3. /\ Copy(a) \in Stakes /\ Copy(a).staked = StakedOf(a) /\ Copy(a).locked = LockedOf(a)
      /\ StakedOf(a) \in Nat /\ LockedOf(a) \in Nat /\ Copy(a) = Stake(StakedOf(a), LockedOf(a))
  BY CopyIs
<1>4. staker[a] = None => StakedOf(a) = 0 /\ LockedOf(a) = 0
  BY DEF StakedOf, LockedOf, Stakers
<1>5. CASE r.kind = "deposit"
  <2>1. /\ r.address \in Address /\ DepositResult(a, v, r.address, exists) = Failed
        /\ staker[a] # None => r.address = staker[a].address
    BY <1>1, <1>5, ReportFields DEF HandlerResult, Excuse
  <2>2. FundedWith(a) /\ (staker[a] # None => CanBePaid(a, exists))
    BY <1>2, <1>5 DEF ChangesStake
  <2>3. QED
    BY <2>1, <2>2, DepositAppliesWhenFunded
<1>6. CASE r.kind = "request"
  <2>1. /\ r.address \in Address /\ WithdrawRequestResult(a, v, r.address, exists) = Failed
        /\ staker[a] # None => r.address = staker[a].address
    BY <1>1, <1>6, ReportFields DEF HandlerResult, Excuse
  <2>2. v <= StakedOf(a)
    BY <1>1, <1>3, <1>6 DEF Accepted
  <2>3. staker[a] = None
    <3>1. SUFFICES ASSUME staker[a] # None PROVE FALSE
      OBVIOUS
    <3>2. a \in Stakers /\ v <= staker[a].staked_balance
      BY <2>2, <3>1, StoredStake
    <3>3. FundedWith(a) /\ CanBePaid(a, exists)
      BY <1>2, <1>6, <3>1 DEF ChangesStake
    <3>4. QED
      BY <2>1, <3>1, <3>2, <3>3, RequestAppliesWhenFunded
  <2>4. v = 0 /\ StakedOf(a) = 0 /\ LockedOf(a) = 0
    BY <1>4, <2>2, <2>3
  <2>5. PICK m, n \in Nat : After(Copy(a), r) = Stake(m, n) /\ Leaves(Copy(a), r, m, n)
    BY <1>1, <1>3, AfterStake
  <2>6. m = 0 - 0 /\ n = 0 + 0
    BY <1>1, <1>3, <1>6, <2>4, <2>5 DEF Leaves
  <2>7. m = 0 /\ n = 0
    BY <2>6
  <2>8. QED
    BY <1>1, <1>3, <2>4, <2>5, <2>7
<1>7. CASE r.kind = "withdraw"
  <2>1. v > 0 /\ v = LockedOf(a) /\ WithdrawnResult(a, v) = Failed
    BY <1>1, <1>3, <1>7 DEF Accepted, HandlerResult
  <2>2. staker[a] # None
    BY <1>4, <2>1
  <2>3. ~(now - staker[a].start_date < WithdrawalPeriod)
    BY <1>1, <1>7, <2>2 DEF Excuse
  <2>4. /\ staker[a].locked_balance = v /\ staker[a] \in StakeInfo
    BY <2>1, <2>2, StoredStake
  <2>5. Released(pool, v) \in Pool
    BY <2>1, ReleasedApplies
  <2>6. Released(pool, v) # Failed
    BY <2>4, <2>5, NotFailed
  <2>7. WithdrawnResult(a, v) = [pool |-> Released(pool, v),
                                 staker |-> [staker[a] EXCEPT !.locked_balance = v - v]]
    BY <2>1, <2>2, <2>3, <2>4, <2>6 DEF WithdrawnResult
  <2>8. [staker[a] EXCEPT !.locked_balance = v - v] \in StakeInfo
    <3>1. v - v \in Nat
      OBVIOUS
    <3>2. QED
      BY <2>4, <3>1 DEF StakeInfo
  <2>9. QED
    BY <2>1, <2>5, <2>7, <2>8, NotFailed
<1>8. CASE r.kind = "slash"
  <2>1. StakedOf(a) + LockedOf(a) > 0 /\ SlashResult(a, v, exists) = Failed
    BY <1>1, <1>3, <1>8 DEF Accepted, HandlerResult
  <2>2. staker[a] # None
    BY <1>4, <2>1
  <2>3. a \in Stakers /\ staker[a].staked_balance + staker[a].locked_balance > 0
    BY <2>1, <2>2, StoredStake
  <2>4. staker[a].locked_balance < v => FundedWith(a) /\ CanBePaid(a, exists)
    BY <1>1, <1>2, <1>8, <2>2 DEF ChangesStake
  <2>5. QED
    BY <2>1, <2>3, <2>4, SlashAppliesWhenFunded
<1>9. QED
  BY <1>5, <1>6, <1>7, <1>8, ReportFields

-----------------------------------------------------------------------------
(* The reports the contract sends are accepted ones. *)
LEMMA ChangesAccepted ==
    ASSUME ledger \in [Account -> Ledger], NEW r \in ContractChanges
    PROVE  r \in Report /\ Accepted(ledger[r.reporter], r)
<1>1. /\ Deposits \subseteq Nat /\ Requests \subseteq Nat /\ Slashes \subseteq Nat
      /\ {ledger[a].locked : a \in Account} \subseteq Nat
  BY StakingAssumption DEF Ledger
<1> DEFINE Of(kind, amounts, addresses) ==
              [kind : {kind}, reporter : Account, amount : amounts, address : addresses]
<1>2. CASE r \in Of("deposit", Deposits, Address)
  BY <1>1, <1>2 DEF Report, Accepted
<1>3. CASE r \in Of("request", Requests, Address) /\ r.amount <= ledger[r.reporter].staked
  BY <1>1, <1>3 DEF Report, Accepted
<1>4. CASE /\ r \in Of("withdraw", {ledger[a].locked : a \in Account}, {None})
           /\ r.amount > 0 /\ r.amount = ledger[r.reporter].locked
  BY <1>1, <1>4 DEF Report, Accepted
<1>5. CASE /\ r \in Of("slash", Slashes, {None})
           /\ ledger[r.reporter].staked + ledger[r.reporter].locked > 0
  BY <1>1, <1>5 DEF Report, Accepted
<1>6. QED
  BY <1>2, <1>3, <1>4, <1>5 DEF ContractChanges

(* The contract changes its ledger and reports it. *)
LEMMA ContractInv == ASSUME BridgeInv, ContractStep PROVE BridgeInv'
<1>1. ledger \in [Account -> Ledger] /\ inFlight \in Seq(Report) /\ StakesInv /\ now \in Nat
  BY DEF BridgeInv, StakesInv, StakingTypeOK
<1>2. PICK r \in ContractChanges :
          /\ ledger' = [ledger EXCEPT ![r.reporter] = Dated(After(ledger[r.reporter], r), r)]
          /\ inFlight' = Append(inFlight, r)
  BY DEF ContractStep
<1>3. UNCHANGED <<stakingVars, excused>>
  BY DEF ContractStep
<1>4. r \in Report /\ Accepted(ledger[r.reporter], r)
  BY <1>1, ChangesAccepted
<1>5. PICK b \in Account : b = r.reporter
  BY <1>4, ReportFields
<1>6. PICK l \in Ledger : l = ledger[b]
  BY <1>1
<1>7. PICK d : d = Dated(After(l, r), r)
  OBVIOUS
<1>8. d \in Ledger /\ Stake(d.staked, d.locked) = After(Stake(l.staked, l.locked), r)
  BY <1>1, <1>4, <1>5, <1>6, <1>7, AfterLedger
<1>9. /\ ledger' \in [Account -> Ledger] /\ ledger'[b] = d
      /\ \A x \in Account \ {b} : ledger'[x] = ledger[x]
  BY <1>1, <1>2, <1>5, <1>6, <1>7, <1>8
<1>10. inFlight' \in Seq(Report)
  BY <1>1, <1>2, <1>4
<1>11. StakesInv' /\ Shortfall' = Shortfall /\ \A x : Copy(x)' = Copy(x)
  BY <1>1, <1>3, SameStakes
<1>12. ASSUME ~excused, NEW x \in Account
       PROVE  Leads(Copy(x), inFlight', x, Stake(ledger'[x].staked, ledger'[x].locked))
  <2>1. PICK c, e : c = Copy(x) /\ e = Stake(ledger[x].staked, ledger[x].locked)
    OBVIOUS
  <2>2. Leads(c, inFlight, x, e)
    BY <1>12, <2>1 DEF BridgeInv
  <2>3. r.reporter = x => Accepted(e, r) /\ Stake(ledger'[x].staked, ledger'[x].locked) = After(e, r)
    <3>1. SUFFICES ASSUME x = b
                   PROVE  Accepted(e, r) /\ Stake(ledger'[x].staked, ledger'[x].locked) = After(e, r)
      BY <1>5
    <3>2. e.staked = l.staked /\ e.locked = l.locked
      BY <1>6, <2>1, <3>1 DEF Stake
    <3>3. Accepted(e, r)
      BY <1>4, <1>5, <1>6, <3>2 DEF Accepted
    <3>4. QED
      BY <1>6, <1>8, <1>9, <2>1, <3>1, <3>3
  <2>4. r.reporter # x => Stake(ledger'[x].staked, ledger'[x].locked) = e
    BY <1>5, <1>9, <2>1
  <2>5. Leads(c, Append(inFlight, r), x, IF r.reporter = x THEN After(e, r) ELSE e)
    BY <1>1, <1>4, <2>2, <2>3, LeadsOn
  <2>6. QED
    BY <1>2, <2>1, <2>3, <2>4, <2>5
<1>13. QED
  BY <1>3, <1>9, <1>10, <1>11, <1>12 DEF BridgeInv

(* The amount missing after a step is a number too. *)
LEMMA ShortfallTyped == StakesInv => Shortfall \in Int
  BY ShortfallInt

(* The same after a step. *)
LEMMA NextShortfallInt == StakesInv' => (Shortfall \in Int)'
  BY ShortfallTyped, PTL

(* The head of the reports on their way, and what is behind it. *)
LEMMA FirstReport ==
    ASSUME inFlight \in Seq(Report), inFlight # <<>>
    PROVE  Head(inFlight) \in Report /\ Tail(inFlight) \in Seq(Report)
  OBVIOUS

(* A report arrives and is applied. *)
LEMMA DeliverInv == ASSUME BridgeInv, Deliver PROVE BridgeInv'
<1>1. /\ StakesInv /\ inFlight \in Seq(Report) /\ inFlight # <<>>
      /\ inFlight' = Tail(inFlight) /\ UNCHANGED <<ledger, excused>>
  BY DEF BridgeInv, Deliver
<1>2. PICK r \in Report : r = Head(inFlight)
  BY <1>1, FirstReport
<1>3. Handle(r)
  BY <1>2 DEF Deliver
<1>4. /\ StakesInv' /\ Shortfall' >= Shortfall
      /\ Accepted(Copy(r.reporter), r) =>
            Shortfall' = Shortfall /\ Copy(r.reporter)' = After(Copy(r.reporter), r)
      /\ \A x \in Account \ {r.reporter} : Copy(x)' = Copy(x)
  BY <1>1, <1>3, HandleInv
<1>5. inFlight' \in Seq(Report)
  BY <1>1, FirstReport
<1>6. PICK a \in Account : a = r.reporter
  BY ReportFields
<1>7. Shortfall' >= 0
  <2>1. Shortfall \in Int /\ Shortfall >= 0
    BY <1>1, ShortfallInt DEF BridgeInv
  <2>2. Shortfall' \in Int
    BY <1>4, NextShortfallInt
  <2>3. QED
    BY <1>4, <2>1, <2>2
<1>8. ASSUME ~excused, NEW x \in Account
      PROVE  /\ r.reporter = x => Accepted(Copy(x), r)
             /\ Leads(IF r.reporter = x THEN After(Copy(x), r) ELSE Copy(x), Tail(inFlight),
                      x, Stake(ledger[x].staked, ledger[x].locked))
  <2>1. PICK c, e : c = Copy(x) /\ e = Stake(ledger[x].staked, ledger[x].locked)
    OBVIOUS
  <2>2. Leads(c, inFlight, x, e)
    BY <1>8, <2>1 DEF BridgeInv
  <2>3. QED
    BY <1>1, <1>2, <2>1, <2>2, LeadsFrom
<1>9. ASSUME ~excused PROVE Shortfall' = 0
  BY <1>4, <1>6, <1>8, <1>9 DEF BridgeInv
<1>10. ASSUME ~excused, NEW x \in Account
       PROVE  Leads(Copy(x)', Tail(inFlight), x, Stake(ledger[x].staked, ledger[x].locked))
  <2>1. CASE r.reporter = x
    <3>1. Copy(x)' = After(Copy(x), r)
      BY <1>4, <1>8, <1>10, <2>1
    <3>2. QED
      BY <1>8, <1>10, <2>1, <3>1
  <2>2. CASE r.reporter # x
    <3>1. Copy(x)' = Copy(x)
      BY <1>4, <2>2
    <3>2. QED
      BY <1>8, <1>10, <2>2, <3>1
  <2>3. QED
    BY <2>1, <2>2
<1>11. QED
  BY <1>1, <1>4, <1>5, <1>7, <1>9, <1>10 DEF BridgeInv

(* A report arrives and is refused. *)
LEMMA RefuseInv == ASSUME BridgeInv, Refuse PROVE BridgeInv'
<1>1. /\ StakesInv /\ inFlight \in Seq(Report) /\ inFlight # <<>>
      /\ inFlight' = Tail(inFlight) /\ ledger' = ledger
      /\ UNCHANGED stakingVars
  BY DEF BridgeInv, Refuse
<1>2. PICK r \in Report : r = Head(inFlight)
  BY <1>1, FirstReport
<1>3. PICK exists \in BOOLEAN : /\ HandlerResult(r, exists) = Failed
                                /\ excused' = (excused \/ Excuse(r, exists))
  BY <1>2 DEF Refuse
<1>4. excused' \in BOOLEAN /\ (~excused' => ~excused /\ ~Excuse(r, exists))
  BY <1>3
<1>5. inFlight' \in Seq(Report)
  BY <1>1, FirstReport
<1>6. StakesInv' /\ Shortfall' = Shortfall /\ \A x : Copy(x)' = Copy(x)
  BY <1>1, SameStakes
<1>7. ASSUME ~excused', NEW x \in Account
      PROVE  Leads(Copy(x), Tail(inFlight), x, Stake(ledger[x].staked, ledger[x].locked))
  <2>1. PICK c, e : c = Copy(x) /\ e = Stake(ledger[x].staked, ledger[x].locked)
    OBVIOUS
  <2>2. Leads(c, inFlight, x, e) /\ Shortfall = 0
    BY <1>4, <1>7, <2>1 DEF BridgeInv
  <2>3. /\ r.reporter = x => Accepted(c, r)
        /\ Leads(IF r.reporter = x THEN After(c, r) ELSE c, Tail(inFlight), x, e)
    BY <1>1, <1>2, <2>2, LeadsFrom
  <2>4. r.reporter = x => After(c, r) = c
    BY <1>1, <1>3, <1>4, <1>7, <2>1, <2>2, <2>3, RefusedForAReason
  <2>5. QED
    BY <2>1, <2>3, <2>4
<1>8. QED
  BY <1>1, <1>4, <1>5, <1>6, <1>7 DEF BridgeInv

(* A report is lost. *)
LEMMA LoseInv == ASSUME BridgeInv, Lose PROVE BridgeInv'
<1>1. /\ StakesInv /\ inFlight \in Seq(Report) /\ inFlight # <<>>
      /\ inFlight' = Tail(inFlight) /\ ledger' = ledger /\ excused' = TRUE
      /\ UNCHANGED stakingVars
  BY DEF BridgeInv, Lose
<1>2. inFlight' \in Seq(Report)
  BY <1>1, FirstReport
<1>3. StakesInv' /\ Shortfall' = Shortfall
  BY <1>1, SameStakes
<1>4. QED
  BY <1>1, <1>2, <1>3 DEF BridgeInv

(* Nothing moves between the chains. *)
LEMMA ElsewhereInv ==
    ASSUME BridgeInv, StakesInv', Shortfall' = Shortfall, staker' = staker,
           UNCHANGED <<ledger, inFlight, excused>>
    PROVE  BridgeInv'
<1>1. \A x : Copy(x)' = Copy(x)
  BY DEF Copy
<1>2. QED
  BY <1>1 DEF BridgeInv

(* Rewards, rounds, votes, the stake amount and time. *)
LEMMA PalletInv == ASSUME BridgeInv, PalletStep PROVE BridgeInv'
<1>1. StakesInv /\ UNCHANGED <<ledger, inFlight, excused>>
  BY DEF BridgeInv, PalletStep, bridgeVars
<1>2. CASE RewardStep
  <2>1. PICK amount \in RewardAmounts : AddStakingRewards(amount)
    BY <1>2 DEF RewardStep
  <2>2. amount \in Nat
    BY StakingAssumption
  <2>3. QED
    BY <1>1, <2>1, <2>2, RewardsInv, ElsewhereInv
<1>3. CASE VoteStep \/ UpdateStakeAmount \/ AdvanceTime
  BY <1>1, <1>3, AroundInv, ElsewhereInv
<1>4. QED
  BY <1>2, <1>3 DEF PalletStep

(* register endows the rewards account, if it does anything to it. *)
LEMMA RegisterInv == ASSUME BridgeInv, Register PROVE BridgeInv'
<1>1. /\ StakesInv /\ UNCHANGED <<ledger, inFlight, excused>>
      /\ UNCHANGED <<now, staker, stakeAmount, voteCount, voteTally, requested>>
  BY DEF BridgeInv, Register
<1>2. pool \in Pool /\ StakingTypeOK /\ pool.balance \in Nat /\ pool.time_of_last_allocation <= now
  BY <1>1, PoolFields DEF StakesInv, StakingTypeOK
<1>3. PICK b, d \in Nat : b = pool.balance /\ d = ExistentialDeposit
  BY <1>2, StakingAssumption
<1>4. PICK n \in Nat : n = (IF b < d THEN b + d ELSE b) /\ n >= b
  OBVIOUS
<1>5. pool' = [pool EXCEPT !.balance = n]
  BY <1>3, <1>4 DEF Register
<1>6. /\ pool' \in Pool /\ pool'.balance = n
      /\ pool'.time_of_last_allocation = pool.time_of_last_allocation
      /\ pool'.total_stake_amount = pool.total_stake_amount
      /\ pool'.total_reward_debt = pool.total_reward_debt
      /\ pool'.total_stakers = pool.total_stakers /\ pool'.to_withdraw = pool.to_withdraw
      /\ pool'.accumulated_reward_per_share = pool.accumulated_reward_per_share
  BY <1>2, <1>5 DEF Pool
<1>7. Stakers' = Stakers /\ StakedBalances' = StakedBalances /\ LockedBalances' = LockedBalances
      /\ RewardDebts' = RewardDebts
  BY <1>1 DEF Stakers, StakedBalances, LockedBalances, RewardDebts
<1>8. PendingRewards' = PendingRewards
  BY <1>1, <1>6, <1>7 DEF PendingRewards, Pending
<1>9. RewardsCovered'
  <2>1. PICK k \in Int : k = SumFunction(PendingRewards)
    <3>1. StakesOf(pool) /\ StakingTypeOK /\ IsFiniteSet(Stakers)
      BY <1>1, StoredPool DEF StakesInv
    <3>2. SumFunction(PendingIn(pool)) \in Int
      BY <3>1, PendingWithinAccrued
    <3>3. PendingIn(pool) = PendingRewards
      BY DEF PendingIn, PendingRewards
    <3>4. QED
      BY <3>2, <3>3
  <2>2. k <= n
    <3>1. b >= k
      BY <1>1, <1>3, <2>1 DEF StakesInv, RewardsCovered
    <3>2. QED
      BY <1>4, <3>1
  <2>3. \A a \in Stakers : PendingRewards[a] >= 0
    BY <1>1 DEF StakesInv, RewardsCovered
  <2>4. QED
    BY <1>6, <1>7, <1>8, <2>1, <2>2, <2>3 DEF RewardsCovered
<1>10. StakeTotals' /\ Shortfall' = Shortfall
  BY <1>1, <1>6, <1>7 DEF StakesInv, StakeTotals, Shortfall
<1>11. StakingTypeOK'
  BY <1>1, <1>2, <1>6 DEF StakingTypeOK
<1>12. VotesBegun' /\ RequestsDated'
  BY <1>1, <1>7 DEF StakesInv, VotesBegun, RequestsDated
<1>13. StakesInv'
  BY <1>1, <1>7, <1>9, <1>10, <1>11, <1>12 DEF StakesInv
<1>14. QED
  BY <1>1, <1>10, <1>13, ElsewhereInv

(* Every step keeps the invariant. *)
LEMMA BridgeStep == BridgeInv /\ [BridgeNext]_allVars => BridgeInv'
<1> SUFFICES ASSUME BridgeInv, [BridgeNext]_allVars PROVE BridgeInv'
  OBVIOUS
<1>1. CASE Register
  BY <1>1, RegisterInv
<1>2. CASE ContractStep
  BY <1>2, ContractInv
<1>3. CASE Deliver
  BY <1>3, DeliverInv
<1>4. CASE Refuse
  BY <1>4, RefuseInv
<1>5. CASE Lose
  BY <1>5, LoseInv
<1>6. CASE PalletStep
  BY <1>6, PalletInv
<1>7. CASE UNCHANGED allVars
  <2>1. StakesInv /\ UNCHANGED stakingVars /\ UNCHANGED <<ledger, inFlight, excused>>
    BY <1>7 DEF BridgeInv, allVars, bridgeVars
  <2>2. StakesInv' /\ Shortfall' = Shortfall
    BY <2>1, SameStakes
  <2>3. QED
    BY <2>1, <2>2, ElsewhereInv DEF stakingVars
<1>8. QED
  BY <1>1, <1>2, <1>3, <1>4, <1>5, <1>6, <1>7 DEF BridgeNext

(* It holds before the registration. *)
LEMMA BridgeStart == BridgeInit => BridgeInv
<1> SUFFICES ASSUME BridgeInit PROVE BridgeInv
  OBVIOUS
<1>1. StakesInv /\ Shortfall = 0 /\ Shortfall >= 0
  <2>1. StakesInv /\ Shortfall = 0
    BY StakingStart DEF BridgeInit, StakingInv
  <2>2. QED
    BY <2>1
<1>2. ledger \in [Account -> Ledger] /\ excused = FALSE /\ inFlight = <<>>
  BY DEF BridgeInit, Ledger
<1>3. inFlight \in Seq(Report)
  BY <1>2
<1>4. ASSUME NEW a \in Account
      PROVE  Copy(a) = Stake(ledger[a].staked, ledger[a].locked)
  BY DEF BridgeInit, StakesInit, Copy, Stake
<1>5. \A a \in Account : Leads(Copy(a), inFlight, a, Stake(ledger[a].staked, ledger[a].locked))
  BY <1>2, <1>4, LeadsNowhere
<1>6. QED
  BY <1>1, <1>2, <1>3, <1>5 DEF BridgeInv

(* The inductive invariant of the two chains. *)
THEOREM BridgeInvariant == BridgeSpec => []BridgeInv
  BY BridgeStart, BridgeStep, PTL DEF BridgeSpec

(* The pallet's copy of every stake is the contract's, once the reports on *)
(* their way have arrived, for any number of accounts and of reports:      *)
(* report_stake_deposited, report_staking_withdraw_request,                *)
(* report_stake_withdrawn and report_slash refuse nothing but for the      *)
(* reasons that Excuse lists.                                              *)
THEOREM CopyFollows == BridgeSpec => []CopyInStep
<1>1. BridgeInv => CopyInStep
  <2> SUFFICES ASSUME BridgeInv, ~excused, NEW a \in Account
               PROVE  Delivered(a) = [staked |-> ledger[a].staked, locked |-> ledger[a].locked]
    BY DEF CopyInStep
  <2>1. /\ inFlight \in Seq(Report)
        /\ Leads(Copy(a), inFlight, a, Stake(ledger[a].staked, ledger[a].locked))
    BY DEF BridgeInv
  <2>2. Delivered(a) = Stake(ledger[a].staked, ledger[a].locked)
    BY <2>1, DeliveredLeads
  <2>3. QED
    BY <2>2 DEF Stake
<1>2. QED
  BY <1>1, BridgeInvariant, PTL

(* Whatever reports are lost or refused, the totals that rewards are       *)
(* computed from match the copies, and ToWithdraw is at most what they     *)
(* have locked.                                                            *)
THEOREM TotalsAfterLoss == BridgeSpec => []TotalsSurviveLoss
<1>1. BridgeInv => TotalsSurviveLoss
  <2> SUFFICES ASSUME BridgeInv PROVE TotalsSurviveLoss
    OBVIOUS
  <2>1. StakesInv /\ Shortfall >= 0 /\ (~excused => Shortfall = 0)
    BY DEF BridgeInv
  <2>2. PICK m, n \in Nat : m = pool.to_withdraw /\ n = SumFunction(LockedBalances)
    BY <2>1, PoolFields, SumsTyped DEF StakesInv, StakingTypeOK
  <2>3. Shortfall = n - m
    BY <2>2 DEF Shortfall
  <2>4. m <= n /\ (~excused => m = n)
    BY <2>1, <2>3
  <2>5. QED
    BY <2>1, <2>2, <2>4 DEF TotalsSurviveLoss, StakesInv, StakeTotals
<1>2. QED
  BY <1>1, BridgeInvariant, PTL
=============================================================================
