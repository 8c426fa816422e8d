-------------------------- MODULE GovernanceProofs --------------------------
(* Proofs about disputes and their votes, for all values of the constants. *)
EXTENDS Governance, ReportsProofs, SumTheorems, SequenceTheorems

(* Powers of two are naturals. *)
LEMMA TwoToTheType == \A n \in Nat : TwoToThe[n] \in Nat
<1>1. PICK b \in Nat \ {0} : b = 2
  OBVIOUS
<1>2. TwoToThe = CHOOSE g : g = [n \in Nat |-> IF n = 0 THEN 1 ELSE b * g[n - 1]]
  BY <1>1 DEF TwoToThe
<1>3. QED
  BY <1>2, PowersPositive

(* The fee of a round is an amount. *)
LEMMA RoundFeeType ==
    ASSUME disputeFee \in DisputeFees, NEW n \in Nat
    PROVE  RoundFee(n) \in Nat
<1>1. disputeFee \in Nat /\ TwoToThe[n] \in Nat
  BY TwoToTheType, GovernanceAssumption
<1>2. disputeFee * TwoToThe[n] \in Nat /\ disputeFee * 10 \in Nat
  BY <1>1
<1>3. QED
  BY <1>2 DEF RoundFee, Min

-----------------------------------------------------------------------------
(* What begin_dispute leaves in VoteInfo, in any round. *)
Opened(a, d, fee) ==
    /\ DOMAIN voteInfo' = DOMAIN voteInfo \cup {d}
    /\ \A e \in DOMAIN voteInfo \ {d} : voteInfo'[e] = voteInfo[e]
    /\ voteInfo'[d] \in Seq(Vote)
    /\ Len(voteInfo'[d]) = VoteRounds(d) + 1
    /\ voteInfo'[d][VoteRounds(d) + 1] = NewVote(a, fee)
    /\ \A r \in 1..VoteRounds(d) : voteInfo'[d][r] = voteInfo[d][r]

(* The number of rounds of a dispute is a natural number. *)
LEMMA VoteRoundsType ==
    ASSUME GovTypeOK, NEW d
    PROVE  VoteRounds(d) \in Nat
<1>1. CASE d \in DOMAIN voteInfo
  <2>1. voteInfo[d] \in Seq(Vote)
    BY <1>1 DEF GovTypeOK
  <2>2. QED
    BY <1>1, <2>1, LenProperties DEF VoteRounds
<1>2. QED
  BY <1>1 DEF VoteRounds

(* begin_dispute has that effect. *)
LEMMA OpenEffect ==
    ASSUME GovTypeOK, NEW a \in Account, NEW d, NEW fee \in Nat, OpenRound(a, d, fee),
           d \in DOMAIN voteInfo => VoteRounds(d) # 0
    PROVE  Opened(a, d, fee)
<1>1. NewVote(a, fee) \in Vote
  BY DEF NewVote, Vote, Tally, NoVotes, GovTypeOK, ReportsTypeOK, Timestamp
<1>2. voteInfo' = Put(voteInfo, d, IF VoteRounds(d) = 0 THEN <<NewVote(a, fee)>>
                                   ELSE Append(voteInfo[d], NewVote(a, fee)))
  BY DEF OpenRound
<1>3. CASE d \in DOMAIN voteInfo
  <2>1. voteInfo[d] \in Seq(Vote) /\ VoteRounds(d) = Len(voteInfo[d])
    BY <1>3 DEF GovTypeOK, VoteRounds
  <2>2. voteInfo'[d] = Append(voteInfo[d], NewVote(a, fee))
    BY <1>2, <1>3 DEF Put
  <2>3. /\ DOMAIN voteInfo' = DOMAIN voteInfo \cup {d}
        /\ \A e \in DOMAIN voteInfo \ {d} : voteInfo'[e] = voteInfo[e]
    BY <1>2 DEF Put
  <2> HIDE DEF NewVote
  <2>4. /\ voteInfo'[d] \in Seq(Vote)
        /\ Len(voteInfo'[d]) = VoteRounds(d) + 1
        /\ voteInfo'[d][VoteRounds(d) + 1] = NewVote(a, fee)
        /\ \A r \in 1..VoteRounds(d) : voteInfo'[d][r] = voteInfo[d][r]
    BY <1>1, <2>1, <2>2, AppendProperties
  <2>5. QED
    BY <2>3, <2>4 DEF Opened
<1>4. CASE d \notin DOMAIN voteInfo
  <2>1. VoteRounds(d) = 0
    BY <1>4 DEF VoteRounds
  <2>2. voteInfo'[d] = <<NewVote(a, fee)>>
    BY <1>2, <2>1 DEF Put
  <2>3. /\ DOMAIN voteInfo' = DOMAIN voteInfo \cup {d}
        /\ \A e \in DOMAIN voteInfo \ {d} : voteInfo'[e] = voteInfo[e]
    BY <1>2 DEF Put
  <2>4. /\ voteInfo'[d] \in Seq(Vote)
        /\ Len(voteInfo'[d]) = VoteRounds(d) + 1
        /\ voteInfo'[d][VoteRounds(d) + 1] = NewVote(a, fee)
        /\ \A r \in 1..VoteRounds(d) : voteInfo'[d][r] = voteInfo[d][r]
    BY <1>1, <2>1, <2>2
  <2>5. QED
    BY <2>3, <2>4 DEF Opened
<1>5. QED
  BY <1>3, <1>4

(* What the other operations leave alone: the rounds and who began each,   *)
(* when and for which fee.                                                 *)
RoundsKept ==
    /\ DOMAIN voteInfo' = DOMAIN voteInfo
    /\ \A d \in DOMAIN voteInfo :
          /\ voteInfo'[d] \in Seq(Vote)
          /\ Len(voteInfo'[d]) = Len(voteInfo[d])
          /\ \A r \in 1..Len(voteInfo[d]) : /\ voteInfo'[d][r].initiator = voteInfo[d][r].initiator
                                           /\ voteInfo'[d][r].fee = voteInfo[d][r].fee
                                           /\ voteInfo'[d][r].start_date = voteInfo[d][r].start_date

(* The outcome of a round: its tally, its result and its execution. *)
SameOutcome(d, r) ==
    /\ voteInfo'[d][r].tally_date = voteInfo[d][r].tally_date
    /\ voteInfo'[d][r].result = voteInfo[d][r].result
    /\ voteInfo'[d][r].executed = voteInfo[d][r].executed

(* A vote changes no round's outcome, nor whether it was sent. *)
LEMMA VoteEffect ==
    ASSUME GovTypeOK, \A d \in DOMAIN voteInfo : Len(voteInfo[d]) >= 1,
           NEW a \in Account, NEW ballots, \A d \in DOMAIN ballots : ballots[d] \in Choice,
           VoteOnMultipleDisputes(a, ballots)
    PROVE  /\ RoundsKept
           /\ \A d \in DOMAIN voteInfo : \A r \in 1..Len(voteInfo[d]) :
                 SameOutcome(d, r) /\ voteInfo'[d][r].sent = voteInfo[d][r].sent
<1>1. voteInfo' = [d \in DOMAIN voteInfo |->
                      IF d \in DOMAIN ballots
                      THEN [voteInfo[d] EXCEPT ![Len(voteInfo[d])] = WithVote(@, a, ballots[d])]
                      ELSE voteInfo[d]]
  BY DEF VoteOnMultipleDisputes
<1>2. ASSUME NEW v \in Vote, NEW c \in Choice
      PROVE  /\ WithVote(v, a, c) \in Vote
             /\ WithVote(v, a, c).initiator = v.initiator
             /\ WithVote(v, a, c).fee = v.fee
             /\ WithVote(v, a, c).start_date = v.start_date
             /\ WithVote(v, a, c).tally_date = v.tally_date
             /\ WithVote(v, a, c).result = v.result
             /\ WithVote(v, a, c).executed = v.executed
             /\ WithVote(v, a, c).sent = v.sent
  <2>1. submitted[a] \in Nat /\ UserTips[a] \in Nat
    BY GovernanceAssumption DEF GovTypeOK, ReportsTypeOK
  <2>2. [v.reporters EXCEPT ![c] = @ + submitted[a]] \in Tally /\ [v.users EXCEPT ![c] = @ + UserTips[a]] \in Tally
    BY <2>1 DEF Vote, Tally
  <2>3. QED
    BY <2>2 DEF WithVote, Vote
<1>3. ASSUME NEW d \in DOMAIN voteInfo
      PROVE  /\ voteInfo'[d] \in Seq(Vote)
             /\ Len(voteInfo'[d]) = Len(voteInfo[d])
             /\ \A r \in 1..Len(voteInfo[d]) :
                   \/ voteInfo'[d][r] = voteInfo[d][r]
                   \/ voteInfo[d][r] \in Vote
                      /\ \E c \in Choice : voteInfo'[d][r] = WithVote(voteInfo[d][r], a, c)
  <2>1. voteInfo[d] \in Seq(Vote)
    BY DEF GovTypeOK
  <2> DEFINE n == Len(voteInfo[d])
             w == WithVote(voteInfo[d][n], a, ballots[d])
  <2>2. n \in 1..n /\ voteInfo[d][n] \in Vote
    BY <2>1, LenProperties
  <2>3. CASE d \in DOMAIN ballots
    <3>1. voteInfo'[d] = [voteInfo[d] EXCEPT ![n] = w]
      BY <1>1, <2>3
    <3>2. w \in Vote
      BY <1>2, <2>2, <2>3
    <3> HIDE DEF n, w
    <3>3. n = Len(voteInfo[d])
      BY DEF n
    <3>4. /\ voteInfo'[d] \in Seq(Vote)
          /\ Len(voteInfo'[d]) = Len(voteInfo[d])
          /\ \A r \in 1..Len(voteInfo[d]) : voteInfo'[d][r] = IF r = n THEN w ELSE voteInfo[d][r]
      BY <2>1, <2>2, <3>1, <3>2, <3>3, ExceptSeq
    <3>5. QED
      BY <2>2, <2>3, <3>4 DEF w
  <2>4. CASE d \notin DOMAIN ballots
    BY <1>1, <2>1, <2>4
  <2>5. QED
    BY <2>3, <2>4
<1>4. DOMAIN voteInfo' = DOMAIN voteInfo
  BY <1>1
<1>5. ASSUME NEW d \in DOMAIN voteInfo, NEW r \in 1..Len(voteInfo[d])
      PROVE  /\ voteInfo'[d][r].initiator = voteInfo[d][r].initiator
             /\ voteInfo'[d][r].fee = voteInfo[d][r].fee
             /\ voteInfo'[d][r].start_date = voteInfo[d][r].start_date
             /\ SameOutcome(d, r) /\ voteInfo'[d][r].sent = voteInfo[d][r].sent
  BY <1>2, <1>3 DEF SameOutcome
<1>6. QED
  BY <1>3, <1>4, <1>5 DEF RoundsKept

(* Replacing one round of one dispute. *)
LEMMA ReplaceRound ==
    ASSUME NEW s \in Seq(Vote), NEW n \in 1..Len(s), NEW v \in Vote
    PROVE  /\ [s EXCEPT ![n] = v] \in Seq(Vote)
           /\ Len([s EXCEPT ![n] = v]) = Len(s)
           /\ \A r \in 1..Len(s) : [s EXCEPT ![n] = v][r] = IF r = n THEN v ELSE s[r]
  BY ExceptSeq

(* The disputes whose votes a call of do_send_votes sends. *)
Sent(accepted) == {d \in accepted : Sendable(d)}

(* Sending votes marks the rounds that were pending and nothing else. *)
LEMMA SendEffect ==
    ASSUME GovTypeOK, NEW accepted, SendBatch(accepted)
    PROVE  /\ RoundsKept
           /\ \A d \in DOMAIN voteInfo : \A r \in 1..Len(voteInfo[d]) :
                 /\ SameOutcome(d, r)
                 /\ voteInfo'[d][r].users = voteInfo[d][r].users
                 /\ voteInfo'[d][r].reporters = voteInfo[d][r].reporters
                 /\ voteInfo'[d][r].sent <=> \/ voteInfo[d][r].sent
                                             \/ d \in Sent(accepted) /\ r = pendingVotes[d].round
<1>1. voteInfo' = [d \in DOMAIN voteInfo |->
                     IF d \in Sent(accepted)
                     THEN [voteInfo[d] EXCEPT ![pendingVotes[d].round].sent = TRUE]
                     ELSE voteInfo[d]]
  BY DEF SendBatch, Sent
<1>2. ASSUME NEW v \in Vote
      PROVE  /\ [v EXCEPT !.sent = TRUE] \in Vote
             /\ [v EXCEPT !.sent = TRUE].initiator = v.initiator
             /\ [v EXCEPT !.sent = TRUE].fee = v.fee
             /\ [v EXCEPT !.sent = TRUE].start_date = v.start_date
             /\ [v EXCEPT !.sent = TRUE].tally_date = v.tally_date
             /\ [v EXCEPT !.sent = TRUE].result = v.result
             /\ [v EXCEPT !.sent = TRUE].executed = v.executed
             /\ [v EXCEPT !.sent = TRUE].users = v.users
             /\ [v EXCEPT !.sent = TRUE].reporters = v.reporters
             /\ [v EXCEPT !.sent = TRUE].sent
  BY DEF Vote
<1>3. ASSUME NEW d \in DOMAIN voteInfo
      PROVE  /\ voteInfo'[d] \in Seq(Vote)
             /\ Len(voteInfo'[d]) = Len(voteInfo[d])
             /\ \A r \in 1..Len(voteInfo[d]) :
                   /\ voteInfo[d][r] \in Vote
                   /\ voteInfo'[d][r] = IF d \in Sent(accepted) /\ r = pendingVotes[d].round
                                        THEN [voteInfo[d][r] EXCEPT !.sent = TRUE]
                                        ELSE voteInfo[d][r]
  <2>1. voteInfo[d] \in Seq(Vote)
    BY DEF GovTypeOK
  <2>2. \A r \in 1..Len(voteInfo[d]) : voteInfo[d][r] \in Vote
    BY <2>1, ElementOfSeq
  <2>3. CASE d \in Sent(accepted)
    <3> DEFINE n == pendingVotes[d].round
               v == [voteInfo[d][n] EXCEPT !.sent = TRUE]
    <3>1. n \in 1..Len(voteInfo[d])
      BY <2>3 DEF Sent, Sendable
    <3>2. v \in Vote
      BY <1>2, <2>2, <3>1
    <3>3. voteInfo'[d] = [voteInfo[d] EXCEPT ![n] = v]
      BY <1>1, <2>3
    <3> HIDE DEF n, v
    <3>4. /\ voteInfo'[d] \in Seq(Vote)
          /\ Len(voteInfo'[d]) = Len(voteInfo[d])
          /\ \A r \in 1..Len(voteInfo[d]) : voteInfo'[d][r] = IF r = n THEN v ELSE voteInfo[d][r]
      BY <2>1, <3>1, <3>2, <3>3, ReplaceRound
    <3>5. QED
      BY <2>2, <2>3, <3>4 DEF n, v
  <2>4. CASE d \notin Sent(accepted)
    BY <1>1, <2>1, <2>2, <2>4
  <2>5. QED
    BY <2>3, <2>4
<1>4. DOMAIN voteInfo' = DOMAIN voteInfo
  BY <1>1
<1>5. ASSUME NEW d \in DOMAIN voteInfo, NEW r \in 1..Len(voteInfo[d])
      PROVE  /\ voteInfo'[d][r].initiator = voteInfo[d][r].initiator
             /\ voteInfo'[d][r].fee = voteInfo[d][r].fee
             /\ voteInfo'[d][r].start_date = voteInfo[d][r].start_date
             /\ SameOutcome(d, r)
             /\ voteInfo'[d][r].users = voteInfo[d][r].users
             /\ voteInfo'[d][r].reporters = voteInfo[d][r].reporters
             /\ voteInfo'[d][r].sent <=> \/ voteInfo[d][r].sent
                                         \/ d \in Sent(accepted) /\ r = pendingVotes[d].round
  <2> DEFINE v == voteInfo[d][r]
             w == [v EXCEPT !.sent = TRUE]
  <2>1. CASE d \in Sent(accepted) /\ r = pendingVotes[d].round
    <3>1. voteInfo'[d][r] = w /\ v \in Vote
      BY <1>3, <2>1
    <3>2. /\ w.initiator = v.initiator /\ w.fee = v.fee /\ w.start_date = v.start_date
          /\ w.tally_date = v.tally_date /\ w.result = v.result /\ w.executed = v.executed
          /\ w.users = v.users /\ w.reporters = v.reporters /\ w.sent
      BY <1>2, <3>1
    <3> HIDE DEF w
    <3>3. QED
      BY <2>1, <3>1, <3>2 DEF SameOutcome
  <2>2. CASE ~(d \in Sent(accepted) /\ r = pendingVotes[d].round)
    <3>1. voteInfo'[d][r] = v
      BY <1>3, <2>2
    <3>2. QED
      BY <2>2, <3>1 DEF SameOutcome
  <2>3. QED
    BY <2>1, <2>2
<1>6. QED
  BY <1>3, <1>4, <1>5 DEF RoundsKept

(* An operation on the current round of dispute d leaves every other round *)
(* as it was and puts v in place of the current one.                       *)
Replaced(d, v) ==
    /\ DOMAIN voteInfo' = DOMAIN voteInfo
    /\ \A e \in DOMAIN voteInfo \ {d} : voteInfo'[e] = voteInfo[e]
    /\ voteInfo'[d] \in Seq(Vote)
    /\ Len(voteInfo'[d]) = Len(voteInfo[d])
    /\ \A r \in 1..Len(voteInfo[d]) :
          voteInfo'[d][r] = IF r = Len(voteInfo[d]) THEN v ELSE voteInfo[d][r]

(* The current round with its tally. *)
TalliedVote(d, result) == [CurrentVote(d) EXCEPT !.result = result, !.tally_date = now]

(* report_vote_tallied sets the result and the date of the current round. *)
LEMMA TallyEffect ==
    ASSUME GovTypeOK, NEW d \in DOMAIN voteInfo, Len(voteInfo[d]) >= 1, NEW result \in VoteResult,
           ReportVoteTallied(d, result)
    PROVE  TalliedVote(d, result) \in Vote /\ Replaced(d, TalliedVote(d, result))
<1> DEFINE n == Len(voteInfo[d])
           v == TalliedVote(d, result)
<1>1. voteInfo[d] \in Seq(Vote) /\ voteInfo \in [DOMAIN voteInfo -> Seq(Vote)]
  BY DEF GovTypeOK
<1>2. n \in 1..n /\ voteInfo[d][n] \in Vote /\ DOMAIN voteInfo[d] = 1..n
  BY <1>1, LenProperties
<1>3. v \in Vote
  BY <1>2 DEF TalliedVote, CurrentVote, Vote, GovTypeOK, ReportsTypeOK, Timestamp
<1>4. voteInfo' = [voteInfo EXCEPT ![d] = [voteInfo[d] EXCEPT ![n] = v]]
  BY <1>1, <1>2 DEF ReportVoteTallied, VoteRounds, TalliedVote, CurrentVote
<1>5. voteInfo'[d] = [voteInfo[d] EXCEPT ![n] = v]
  BY <1>4
<1>6. DOMAIN voteInfo' = DOMAIN voteInfo /\ \A e \in DOMAIN voteInfo \ {d} : voteInfo'[e] = voteInfo[e]
  BY <1>4
<1> HIDE DEF n, v
<1>7. n = Len(voteInfo[d])
  BY DEF n
<1>8. /\ voteInfo'[d] \in Seq(Vote)
      /\ Len(voteInfo'[d]) = Len(voteInfo[d])
      /\ \A r \in 1..Len(voteInfo[d]) : voteInfo'[d][r] = IF r = n THEN v ELSE voteInfo[d][r]
  BY <1>1, <1>2, <1>3, <1>5, <1>7, ReplaceRound
<1>9. QED
  BY <1>3, <1>6, <1>7, <1>8 DEF Replaced, v

(* The current round once it is executed. *)
ExecutedVote(d) == [CurrentVote(d) EXCEPT !.executed = TRUE]

(* report_vote_executed marks the current round executed. *)
LEMMA ExecuteEffect ==
    ASSUME GovTypeOK, NEW d \in DOMAIN voteInfo, Len(voteInfo[d]) >= 1, ReportVoteExecuted(d)
    PROVE  ExecutedVote(d) \in Vote /\ Replaced(d, ExecutedVote(d))
<1> DEFINE n == Len(voteInfo[d])
           v == ExecutedVote(d)
<1>1. voteInfo[d] \in Seq(Vote) /\ voteInfo \in [DOMAIN voteInfo -> Seq(Vote)]
  BY DEF GovTypeOK
<1>2. n \in 1..n /\ voteInfo[d][n] \in Vote /\ DOMAIN voteInfo[d] = 1..n
  BY <1>1, LenProperties
<1>3. v \in Vote
  BY <1>2 DEF ExecutedVote, CurrentVote, Vote
<1>4. voteInfo' = [voteInfo EXCEPT ![d] = [voteInfo[d] EXCEPT ![n] = v]]
  BY <1>1, <1>2 DEF ReportVoteExecuted, VoteRounds, ExecutedVote, CurrentVote
<1>5. voteInfo'[d] = [voteInfo[d] EXCEPT ![n] = v]
  BY <1>4
<1>6. DOMAIN voteInfo' = DOMAIN voteInfo /\ \A e \in DOMAIN voteInfo \ {d} : voteInfo'[e] = voteInfo[e]
  BY <1>4
<1> HIDE DEF n, v
<1>7. n = Len(voteInfo[d])
  BY DEF n
<1>8. /\ voteInfo'[d] \in Seq(Vote)
      /\ Len(voteInfo'[d]) = Len(voteInfo[d])
      /\ \A r \in 1..Len(voteInfo[d]) : voteInfo'[d][r] = IF r = n THEN v ELSE voteInfo[d][r]
  BY <1>1, <1>2, <1>3, <1>5, <1>7, ReplaceRound
<1>9. QED
  BY <1>3, <1>6, <1>7, <1>8 DEF Replaced, v

-----------------------------------------------------------------------------
(* The invariant of disputes.  MayAppeal trusts that an untallied round    *)
(* (tally_date 0) is over a day old, hence the bound on the clock; the     *)
(* count of rounds and the queue refer to each other's latest round, hence *)
(* the parts are inductive only together.                                  *)
GovInv ==
    /\ ReportsInv
    /\ GovTypeOK
    /\ StartTime <= now
    /\ IsFiniteSet(DOMAIN voteInfo)
    /\ DisputedIffVoted
    /\ RoundsInOrder
    /\ PendingIffUnsent

(* d is the identifier of a disputed report. *)
IsDisputedReport(d) ==
    \E q \in QueryId : \E t \in DOMAIN reports[q] : reports[q][t].is_disputed /\ d = <<q, t>>

(* DisputedIffVoted, dispute by dispute. *)
VotedPointwise ==
    /\ \A d : d \in DOMAIN voteInfo <=> IsDisputedReport(d)
    /\ \A d \in DOMAIN voteInfo : /\ VoteRounds(d) >= 1
                                 /\ disputeInfo[d] = reports[d[1]][d[2]].reporter

(* The two say the same, before and after a step. *)
LEMMA DisputedPointwise ==
    /\ DisputedIffVoted <=> VotedPointwise
    /\ DisputedIffVoted' <=> VotedPointwise'
<1>1. DisputedIffVoted <=> VotedPointwise
  <2>1. \A d : d \in UNION {{<<q, t>> : t \in DOMAIN reports[q] \ Undisputed(q)} : q \in QueryId}
                   <=> IsDisputedReport(d)
    BY DEF IsDisputedReport, Undisputed
  <2>2. QED
    BY <2>1 DEF DisputedIffVoted, VotedPointwise
<1>2. QED
  BY <1>1, PTL

(* Storage as it is before the first dispute satisfies it. *)
LEMMA GovInitInv == GovInit => GovInv
<1> SUFFICES ASSUME GovInit PROVE GovInv
  OBVIOUS
<1>1. ReportsInv
  BY InitInv DEF GovInit
<1>2. GovTypeOK
  BY <1>1, GovernanceAssumption DEF GovInit, GovTypeOK, ReportsInv
<1>3. StartTime <= now
  BY ReportsAssumption DEF GovInit, ReportsInit
<1>4. IsFiniteSet(DOMAIN voteInfo)
  <2>1. DOMAIN voteInfo = {}
    BY DEF GovInit
  <2>2. QED
    BY <2>1, FS_EmptySet
<1>5. DisputedIffVoted
  BY DisputedPointwise DEF GovInit, ReportsInit, IsDisputedReport, VotedPointwise
<1>6. RoundsInOrder /\ PendingIffUnsent
  BY DEF GovInit, RoundsInOrder, PendingIffUnsent
<1>7. QED
  BY <1>1, <1>2, <1>3, <1>4, <1>5, <1>6 DEF GovInv

(* What the proofs need of a dispute that exists. *)
LEMMA DisputeFacts ==
    ASSUME GovInv, NEW d \in DOMAIN voteInfo
    PROVE  /\ voteInfo[d] \in Seq(Vote)
           /\ Len(voteInfo[d]) \in Nat /\ Len(voteInfo[d]) >= 1
           /\ VoteRounds(d) = Len(voteInfo[d])
           /\ \A r \in 1..Len(voteInfo[d]) : voteInfo[d][r] \in Vote
           /\ CurrentVote(d) = voteInfo[d][Len(voteInfo[d])] /\ CurrentVote(d) \in Vote
           /\ d \in DisputeId /\ d[1] \in QueryId
<1>1. voteInfo[d] \in Seq(Vote) /\ d \in DisputeId
  BY DEF GovInv, GovTypeOK
<1>2. VoteRounds(d) = Len(voteInfo[d]) /\ VoteRounds(d) >= 1
  BY DEF GovInv, DisputedIffVoted, VoteRounds
<1>3. Len(voteInfo[d]) \in Nat /\ \A r \in 1..Len(voteInfo[d]) : voteInfo[d][r] \in Vote
  BY <1>1, LenProperties, ElementOfSeq
<1>4. QED
  BY <1>1, <1>2, <1>3 DEF CurrentVote, DisputeId

(* Steps that keep the store keep its invariant. *)
LEMMA StoreKept == ASSUME ReportsInv, UNCHANGED reportsVars PROVE ReportsInv'
  BY ClockInv DEF reportsVars, ReportsInv, ReportsTypeOK, Timestamp

(* A step that keeps the rounds and the reports keeps the correspondence   *)
(* between them.                                                           *)
LEMMA KeptDisputed ==
    ASSUME GovInv, RoundsKept, UNCHANGED <<reports, disputeInfo>>
    PROVE  DisputedIffVoted'
<1>1. \A d \in DOMAIN voteInfo : VoteRounds(d)' = VoteRounds(d)
  BY DEF RoundsKept, VoteRounds
<1>2. QED
  BY <1>1 DEF GovInv, DisputedIffVoted, RoundsKept, Undisputed

(* The start of the round after round r. *)
LEMMA NextStartKept ==
    ASSUME GovInv, RoundsKept, NEW d \in DOMAIN voteInfo, NEW r \in 1..Len(voteInfo[d]), r < Len(voteInfo[d])
    PROVE  voteInfo'[d][r + 1].start_date = voteInfo[d][r + 1].start_date
<1>1. Len(voteInfo[d]) \in Nat
  BY DisputeFacts
<1>2. r + 1 \in 1..Len(voteInfo[d])
  BY <1>1
<1>3. QED
  BY <1>2 DEF RoundsKept

(* A step that changes no outcome keeps the rounds in order as time goes   *)
(* on.                                                                     *)
LEMMA KeptInOrder ==
    ASSUME GovInv, RoundsKept, now' \in Nat, now' >= now,
           \A d \in DOMAIN voteInfo : \A r \in 1..Len(voteInfo[d]) : SameOutcome(d, r)
    PROVE  RoundsInOrder'
<1> SUFFICES ASSUME NEW d \in DOMAIN voteInfo', NEW r \in 1..Len(voteInfo'[d])
             PROVE  LET v == voteInfo'[d][r]
                    IN /\ v.tally_date > 0 <=> v.result # None
                       /\ v.tally_date > 0 => /\ v.tally_date <= now'
                                              /\ v.tally_date - v.start_date >= VotingPeriod(r)
                       /\ v.executed => /\ r = Len(voteInfo'[d])
                                        /\ v.tally_date > 0 /\ now' - v.tally_date >= Day
                       /\ r < Len(voteInfo'[d]) =>
                             /\ v.tally_date > 0
                             /\ voteInfo'[d][r + 1].start_date >= v.tally_date
                             /\ voteInfo'[d][r + 1].start_date - v.tally_date < Day
  BY DEF RoundsInOrder, VotingPeriod
<1>1. d \in DOMAIN voteInfo /\ Len(voteInfo'[d]) = Len(voteInfo[d]) /\ r \in 1..Len(voteInfo[d])
  BY DEF RoundsKept
<1>2. /\ voteInfo'[d][r].start_date = voteInfo[d][r].start_date
      /\ voteInfo'[d][r].tally_date = voteInfo[d][r].tally_date
      /\ voteInfo'[d][r].result = voteInfo[d][r].result
      /\ voteInfo'[d][r].executed = voteInfo[d][r].executed
  BY <1>1 DEF RoundsKept, SameOutcome
<1>3. r < Len(voteInfo[d]) => voteInfo'[d][r + 1].start_date = voteInfo[d][r + 1].start_date
  BY <1>1, NextStartKept
<1>4. voteInfo[d][r].tally_date \in Nat /\ now \in Nat /\ Day \in Nat
  BY <1>1, DisputeFacts, GovernanceAssumption DEF Vote, GovInv, GovTypeOK, ReportsTypeOK, Timestamp
<1>5. LET v == voteInfo[d][r]
      IN /\ v.tally_date > 0 <=> v.result # None
         /\ v.tally_date > 0 => /\ v.tally_date <= now
                                /\ v.tally_date - v.start_date >= VotingPeriod(r)
         /\ v.executed => /\ r = Len(voteInfo[d])
                          /\ v.tally_date > 0 /\ now - v.tally_date >= Day
         /\ r < Len(voteInfo[d]) =>
               /\ v.tally_date > 0
               /\ voteInfo[d][r + 1].start_date >= v.tally_date
               /\ voteInfo[d][r + 1].start_date - v.tally_date < Day
  BY <1>1 DEF GovInv, RoundsInOrder
<1>6. QED
  BY <1>1, <1>2, <1>3, <1>4, <1>5

(* A new report is undisputed and disturbs no dispute. *)
LEMMA SubmitGov == ASSUME GovInv, Submit PROVE GovInv'
<1>1. PICK a \in Account, q \in QueryId, m \in StakeMultiples : SubmitValue(a, q, m)
  BY DEF Submit, SubmitValueStep
<1>2. now' = now /\ UNCHANGED govVars
  BY DEF Submit, SubmitValueStep
<1>3. ReportsInv'
  BY <1>1, <1>2, SubmitInv DEF GovInv
<1>4. Appended(a, q)
  BY <1>1, SubmitEffect DEF GovInv, ReportsInv
<1>5. GovTypeOK'
  BY <1>2, <1>3 DEF GovInv, GovTypeOK, govVars, ReportsInv
<1>6. DisputedIffVoted'
  <2>1. \A d : IsDisputedReport(d)' <=> IsDisputedReport(d)
    BY <1>4 DEF Appended, IsDisputedReport
  <2>2. \A d \in DOMAIN voteInfo : reports'[d[1]][d[2]] = reports[d[1]][d[2]]
    BY <1>4, DisputedPointwise DEF Appended, IsDisputedReport, GovInv, VotedPointwise
  <2>3. \A d \in DOMAIN voteInfo : VoteRounds(d)' = VoteRounds(d)
    BY <1>2 DEF govVars, VoteRounds
  <2>4. VotedPointwise'
    BY <1>2, <2>1, <2>2, <2>3, DisputedPointwise DEF GovInv, govVars, VotedPointwise
  <2>5. QED
    BY <2>4, DisputedPointwise
<1>7. RoundsInOrder'
  <2>1. voteInfo' = voteInfo /\ now' \in Nat /\ now' >= now
    BY <1>2 DEF GovInv, govVars, ReportsInv, ReportsTypeOK, Timestamp
  <2>2. RoundsKept
    BY <2>1 DEF RoundsKept, GovInv, GovTypeOK
  <2>3. \A d \in DOMAIN voteInfo : \A r \in 1..Len(voteInfo[d]) : SameOutcome(d, r)
    BY <2>1 DEF SameOutcome
  <2>4. QED
    BY <2>1, <2>2, <2>3, KeptInOrder
<1>8. PendingIffUnsent'
  BY <1>2 DEF GovInv, govVars, PendingIffUnsent, CurrentVote, VoteRounds
<1>9. QED
  BY <1>2, <1>3, <1>5, <1>6, <1>7, <1>8 DEF GovInv, govVars

(* A step that keeps the rounds and sends nothing keeps the queue. *)
LEMMA KeptPending ==
    ASSUME GovInv, RoundsKept, UNCHANGED pendingVotes,
           \A d \in DOMAIN voteInfo : \A r \in 1..Len(voteInfo[d]) :
               voteInfo'[d][r].sent = voteInfo[d][r].sent
    PROVE  PendingIffUnsent'
<1> SUFFICES ASSUME NEW d \in DOMAIN voteInfo'
             PROVE  /\ d \in DOMAIN pendingVotes' <=> ~CurrentVote(d)'.sent
                    /\ d \in DOMAIN pendingVotes' =>
                          /\ pendingVotes'[d].round = VoteRounds(d)'
                          /\ pendingVotes'[d].scheduled = CurrentVote(d)'.start_date + SendDelay
  BY DEF PendingIffUnsent, CurrentVote
<1>1. d \in DOMAIN voteInfo /\ Len(voteInfo[d]) \in 1..Len(voteInfo[d])
  BY DisputeFacts DEF RoundsKept
<1>2. /\ VoteRounds(d)' = VoteRounds(d)
      /\ CurrentVote(d)'.sent = CurrentVote(d).sent
      /\ CurrentVote(d)'.start_date = CurrentVote(d).start_date
  BY <1>1 DEF RoundsKept, VoteRounds, CurrentVote
<1>3. QED
  BY <1>1, <1>2 DEF GovInv, PendingIffUnsent

(* Casting votes. *)
LEMMA VotingGov ==
    ASSUME GovInv, NEW a \in Account, NEW ballots, \A d \in DOMAIN ballots : ballots[d] \in Choice,
           DOMAIN ballots \subseteq DOMAIN voteInfo, VoteOnMultipleDisputes(a, ballots)
    PROVE  GovInv'
<1>1. \A d \in DOMAIN voteInfo : Len(voteInfo[d]) >= 1
  BY DisputeFacts
<1>2. /\ RoundsKept
      /\ \A d \in DOMAIN voteInfo : \A r \in 1..Len(voteInfo[d]) :
            SameOutcome(d, r) /\ voteInfo'[d][r].sent = voteInfo[d][r].sent
  BY <1>1, VoteEffect DEF GovInv
<1>3. UNCHANGED <<reportsVars, disputeInfo, openDisputes, pendingVotes, voteCount,
                  disputeFee, balance, feesBalance, outbox>>
  BY DEF VoteOnMultipleDisputes
<1>4. ReportsInv' /\ now' = now /\ reports' = reports /\ now \in Nat
  BY <1>3, StoreKept DEF GovInv, reportsVars, storeVars, ReportsInv, ReportsTypeOK, Timestamp
<1>5. GovTypeOK'
  <2>1. Cardinality(DOMAIN ballots) \in Nat
    BY FS_Subset, FS_CardinalityType DEF GovInv
  <2>2. voteTally' \in [Account -> Nat]
    BY <2>1 DEF VoteOnMultipleDisputes, GovInv, GovTypeOK
  <2>3. voteInfo' \in [DOMAIN voteInfo' -> Seq(Vote)] /\ DOMAIN voteInfo' = DOMAIN voteInfo
    <3>1. voteInfo' = [d \in DOMAIN voteInfo |-> voteInfo'[d]]
      BY DEF VoteOnMultipleDisputes
    <3>2. QED
      BY <1>2, <3>1 DEF RoundsKept
  <2>4. QED
    BY <1>3, <1>4, <2>2, <2>3 DEF GovInv, GovTypeOK, ReportsInv
<1>6. DisputedIffVoted' /\ RoundsInOrder' /\ PendingIffUnsent'
  BY <1>2, <1>3, <1>4, KeptDisputed, KeptInOrder, KeptPending
<1>7. QED
  BY <1>2, <1>4, <1>5, <1>6 DEF GovInv, RoundsKept

(* Sending votes, in a call or in a new block: a round that is sent leaves *)
(* the queue, and the round sent is the latest, the one queued.            *)
LEMMA SendGov ==
    ASSUME GovInv, NEW accepted \in SUBSET Due, SendBatch(accepted),
           now' \in Nat, now' >= now, disputeFee' \in DisputeFees,
           UNCHANGED <<storeVars, stakerVars, disputeInfo, openDisputes, voteCount, voteTally,
                       balance, feesBalance>>
    PROVE  GovInv'
<1>1. /\ RoundsKept
      /\ \A d \in DOMAIN voteInfo : \A r \in 1..Len(voteInfo[d]) :
            /\ SameOutcome(d, r)
            /\ voteInfo'[d][r].sent <=> \/ voteInfo[d][r].sent
                                        \/ d \in Sent(accepted) /\ r = pendingVotes[d].round
  BY SendEffect DEF GovInv
<1>2. ReportsInv'
  BY ClockInv DEF GovInv
<1>3. UNCHANGED <<reports, disputeInfo>>
  BY DEF storeVars
<1>4. DisputedIffVoted' /\ RoundsInOrder'
  BY <1>1, <1>3, KeptDisputed, KeptInOrder
<1>5. pendingVotes' = [d \in DOMAIN pendingVotes \ Sent(accepted) |-> pendingVotes[d]]
  BY DEF SendBatch, Sent
<1>6. Sent(accepted) \subseteq DOMAIN pendingVotes /\ DOMAIN pendingVotes \subseteq DOMAIN voteInfo
  BY DEF Sent, Due, GovInv, GovTypeOK
<1>7. PendingIffUnsent'
  <2> SUFFICES ASSUME NEW d \in DOMAIN voteInfo'
               PROVE  /\ d \in DOMAIN pendingVotes' <=> ~CurrentVote(d)'.sent
                      /\ d \in DOMAIN pendingVotes' =>
                            /\ pendingVotes'[d].round = VoteRounds(d)'
                            /\ pendingVotes'[d].scheduled = CurrentVote(d)'.start_date + SendDelay
    BY DEF PendingIffUnsent, CurrentVote
  <2>1. d \in DOMAIN voteInfo /\ Len(voteInfo[d]) \in 1..Len(voteInfo[d])
    BY <1>1, DisputeFacts DEF RoundsKept
  <2>2. /\ VoteRounds(d)' = VoteRounds(d) /\ VoteRounds(d) = Len(voteInfo[d])
        /\ CurrentVote(d)'.start_date = CurrentVote(d).start_date
        /\ CurrentVote(d)'.sent <=> \/ CurrentVote(d).sent
                                    \/ d \in Sent(accepted) /\ Len(voteInfo[d]) = pendingVotes[d].round
    BY <1>1, <2>1 DEF RoundsKept, VoteRounds, CurrentVote
  <2>3. /\ d \in DOMAIN pendingVotes <=> ~CurrentVote(d).sent
        /\ d \in DOMAIN pendingVotes =>
              /\ pendingVotes[d].round = VoteRounds(d)
              /\ pendingVotes[d].scheduled = CurrentVote(d).start_date + SendDelay
    BY <2>1 DEF GovInv, PendingIffUnsent
  <2>4. QED
    BY <1>5, <1>6, <2>2, <2>3
<1>8. GovTypeOK'
  <2>1. voteInfo' \in [DOMAIN voteInfo' -> Seq(Vote)] /\ DOMAIN voteInfo' = DOMAIN voteInfo
    <3>1. voteInfo' = [d \in DOMAIN voteInfo |-> voteInfo'[d]]
      BY DEF SendBatch
    <3>2. QED
      BY <1>1, <3>1 DEF RoundsKept
  <2>2. DOMAIN pendingVotes' \subseteq DOMAIN voteInfo' /\ pendingVotes' \in [DOMAIN pendingVotes' -> Pending]
    BY <1>5, <2>1 DEF GovInv, GovTypeOK
  <2>3. outbox' \in [DOMAIN voteInfo -> Seq(Message)]
    <3>1. outbox' = [d \in DOMAIN outbox |->
                       IF d \in Sent(accepted)
                       THEN Append(outbox[d], VoteMessage(voteInfo[d][pendingVotes[d].round]))
                       ELSE outbox[d]]
      BY DEF SendBatch, Sent
    <3>2. ASSUME NEW d \in DOMAIN voteInfo, d \in Sent(accepted)
          PROVE  VoteMessage(voteInfo[d][pendingVotes[d].round]) \in Message
      <4>1. voteInfo[d][pendingVotes[d].round] \in Vote
        BY <3>2, DisputeFacts DEF Sent, Sendable
      <4>2. QED
        BY <4>1 DEF VoteMessage, Message, Vote
    <3>3. ASSUME NEW d \in DOMAIN voteInfo PROVE outbox'[d] \in Seq(Message)
      <4>1. outbox[d] \in Seq(Message) /\ d \in DOMAIN outbox
        BY DEF GovInv, GovTypeOK
      <4>2. CASE d \in Sent(accepted)
        BY <3>1, <3>2, <4>1, <4>2, AppendProperties
      <4>3. QED
        BY <3>1, <4>1, <4>2
    <3>4. DOMAIN outbox = DOMAIN voteInfo
      BY DEF GovInv, GovTypeOK
    <3>5. outbox' = [d \in DOMAIN voteInfo |-> outbox'[d]]
      BY <3>1, <3>4
    <3>6. QED
      BY <3>3, <3>5
  <2>4. QED
    BY <1>2, <2>1, <2>2, <2>3 DEF GovInv, GovTypeOK, ReportsInv
<1>9. StartTime <= now' /\ IsFiniteSet(DOMAIN voteInfo')
  BY <1>1, ReportsAssumption DEF GovInv, RoundsKept, GovTypeOK, ReportsTypeOK, Timestamp
<1>10. QED
  BY <1>2, <1>4, <1>7, <1>8, <1>9 DEF GovInv

(* Replacing the current round by one begun by the same account at the     *)
(* same time for the same fee keeps the rounds.                            *)
LEMMA ReplacedKept ==
    ASSUME GovInv, NEW d \in DOMAIN voteInfo, NEW v \in Vote, Replaced(d, v),
           v.initiator = CurrentVote(d).initiator, v.fee = CurrentVote(d).fee,
           v.start_date = CurrentVote(d).start_date
    PROVE  RoundsKept
<1>1. \A e \in DOMAIN voteInfo : voteInfo[e] \in Seq(Vote)
  BY DEF GovInv, GovTypeOK
<1>2. QED
  BY <1>1 DEF Replaced, RoundsKept, CurrentVote

(* report_vote_tallied, after the voting period of an untallied round. *)
LEMMA TallyGov ==
    ASSUME GovInv, NEW d \in DOMAIN voteInfo, NEW result \in VoteResult, ReportVoteTallied(d, result)
    PROVE  GovInv'
<1> DEFINE v == TalliedVote(d, result)
           n == Len(voteInfo[d])
<1>1. v \in Vote /\ Replaced(d, v)
  BY DisputeFacts, TallyEffect DEF GovInv
<1>2. /\ v.initiator = CurrentVote(d).initiator /\ v.fee = CurrentVote(d).fee
      /\ v.start_date = CurrentVote(d).start_date /\ v.sent = CurrentVote(d).sent
      /\ v.executed = CurrentVote(d).executed
      /\ v.result = result /\ v.tally_date = now
  BY DisputeFacts DEF TalliedVote, Vote
<1>3. RoundsKept
  BY <1>1, <1>2, ReplacedKept
<1>4. UNCHANGED <<reportsVars, disputeInfo, openDisputes, pendingVotes, voteCount, voteTally,
                  disputeFee, balance, feesBalance, outbox>>
  BY DEF ReportVoteTallied
<1>5. ReportsInv' /\ now' = now /\ reports' = reports
  BY <1>4, StoreKept DEF GovInv, reportsVars, storeVars
<1>6. DisputedIffVoted' /\ PendingIffUnsent'
  <2>1. \A e \in DOMAIN voteInfo : \A r \in 1..Len(voteInfo[e]) :
           voteInfo'[e][r].sent = voteInfo[e][r].sent
    BY <1>1, <1>2 DEF Replaced, CurrentVote
  <2>2. QED
    BY <1>3, <1>4, <1>5, <2>1, KeptDisputed, KeptPending
<1>7. RoundsInOrder'
  <2> SUFFICES ASSUME NEW e \in DOMAIN voteInfo', NEW r \in 1..Len(voteInfo'[e])
               PROVE  LET w == voteInfo'[e][r]
                      IN /\ w.tally_date > 0 <=> w.result # None
                         /\ w.tally_date > 0 => /\ w.tally_date <= now'
                                                /\ w.tally_date - w.start_date >= VotingPeriod(r)
                         /\ w.executed => /\ r = Len(voteInfo'[e])
                                          /\ w.tally_date > 0 /\ now' - w.tally_date >= Day
                         /\ r < Len(voteInfo'[e]) =>
                               /\ w.tally_date > 0
                               /\ voteInfo'[e][r + 1].start_date >= w.tally_date
                               /\ voteInfo'[e][r + 1].start_date - w.tally_date < Day
    BY DEF RoundsInOrder, VotingPeriod
  <2>1. e \in DOMAIN voteInfo /\ Len(voteInfo'[e]) = Len(voteInfo[e]) /\ r \in 1..Len(voteInfo[e])
    BY <1>3 DEF RoundsKept
  <2>2. r < Len(voteInfo[e]) => voteInfo'[e][r + 1].start_date = voteInfo[e][r + 1].start_date
    BY <1>3, <2>1, NextStartKept
  <2>3. CASE e = d /\ r = n
    <3>1. voteInfo'[e][r] = v
      BY <1>1, <2>1, <2>3 DEF Replaced
    <3>2. /\ ~CurrentVote(d).executed
          /\ now - CurrentVote(d).start_date >= VotingPeriod(n)
      BY DisputeFacts DEF ReportVoteTallied, MayTally
    <3>3. now \in Nat /\ now > 0 /\ result # None
      <4>1. now \in Nat /\ StartTime <= now
        BY DEF GovInv, GovTypeOK, ReportsTypeOK, Timestamp
      <4>2. result # None
        BY GovernanceAssumption DEF VoteResult
      <4>3. QED
        BY <4>1, <4>2, ReportsAssumption
    <3> HIDE DEF v
    <3>4. QED
      BY <1>2, <1>5, <2>1, <2>3, <3>1, <3>2, <3>3
  <2>4. CASE ~(e = d /\ r = n)
    <3>1. voteInfo'[e][r] = voteInfo[e][r]
      BY <1>1, <2>1, <2>4 DEF Replaced
    <3>2. QED
      BY <1>5, <2>1, <2>2, <3>1 DEF GovInv, RoundsInOrder
  <2>5. QED
    BY <2>3, <2>4
<1>8. GovTypeOK'
  <2>1. voteInfo' \in [DOMAIN voteInfo' -> Seq(Vote)] /\ DOMAIN voteInfo' = DOMAIN voteInfo
    <3>1. voteInfo' = [e \in DOMAIN voteInfo |-> voteInfo'[e]]
      BY DEF ReportVoteTallied, GovInv, GovTypeOK
    <3>2. QED
      BY <1>3, <3>1 DEF RoundsKept
  <2>2. QED
    BY <1>4, <1>5, <2>1 DEF GovInv, GovTypeOK, ReportsInv
<1>9. QED
  BY <1>3, <1>5, <1>6, <1>7, <1>8 DEF GovInv, RoundsKept

(* The fees of some rounds of a dispute are an amount. *)
LEMMA FeesOfNat ==
    ASSUME GovInv, NEW d \in DOMAIN voteInfo, NEW S \in SUBSET (1..VoteRounds(d))
    PROVE  FeesOf(d, S) \in Nat
<1> DEFINE f == [r \in S |-> voteInfo[d][r].fee]
<1>1. FeesOf(d, S) = SumFunctionOnSet(f, S)
  BY DEF FeesOf, SumFunction
<1>2. IsFiniteSet(S)
  <2>1. VoteRounds(d) \in Nat
    BY VoteRoundsType DEF GovInv
  <2>2. IsFiniteSet(1..VoteRounds(d))
    BY <2>1, FS_Interval
  <2>3. QED
    BY <2>2, FS_Subset
<1>3. \A r \in S : f[r] \in Nat
  BY DisputeFacts DEF Vote
<1>4. QED
  BY <1>1, <1>2, <1>3, SumNat

(* report_vote_executed, a day after the tally. *)
LEMMA ExecuteGov ==
    ASSUME GovInv, NEW d \in DOMAIN voteInfo, ReportVoteExecuted(d)
    PROVE  GovInv'
<1> DEFINE v == ExecutedVote(d)
           n == Len(voteInfo[d])
<1>1. v \in Vote /\ Replaced(d, v)
  BY DisputeFacts, ExecuteEffect DEF GovInv
<1>2. /\ v.initiator = CurrentVote(d).initiator /\ v.fee = CurrentVote(d).fee
      /\ v.start_date = CurrentVote(d).start_date /\ v.sent = CurrentVote(d).sent
      /\ v.tally_date = CurrentVote(d).tally_date /\ v.result = CurrentVote(d).result
  BY DisputeFacts DEF ExecutedVote, Vote
<1>3. RoundsKept
  BY <1>1, <1>2, ReplacedKept
<1>4. UNCHANGED <<reportsVars, disputeInfo, pendingVotes, voteCount, voteTally, disputeFee, outbox>>
  BY DEF ReportVoteExecuted
<1>5. ReportsInv' /\ now' = now /\ reports' = reports
  BY <1>4, StoreKept DEF GovInv, reportsVars, storeVars
<1>6. DisputedIffVoted' /\ PendingIffUnsent'
  <2>1. \A e \in DOMAIN voteInfo : \A r \in 1..Len(voteInfo[e]) :
           voteInfo'[e][r].sent = voteInfo[e][r].sent
    BY <1>1, <1>2 DEF Replaced, CurrentVote
  <2>2. QED
    BY <1>3, <1>4, <1>5, <2>1, KeptDisputed, KeptPending
<1>7. RoundsInOrder'
  <2> SUFFICES ASSUME NEW e \in DOMAIN voteInfo', NEW r \in 1..Len(voteInfo'[e])
               PROVE  LET w == voteInfo'[e][r]
                      IN /\ w.tally_date > 0 <=> w.result # None
                         /\ w.tally_date > 0 => /\ w.tally_date <= now'
                                                /\ w.tally_date - w.start_date >= VotingPeriod(r)
                         /\ w.executed => /\ r = Len(voteInfo'[e])
                                          /\ w.tally_date > 0 /\ now' - w.tally_date >= Day
                         /\ r < Len(voteInfo'[e]) =>
                               /\ w.tally_date > 0
                               /\ voteInfo'[e][r + 1].start_date >= w.tally_date
                               /\ voteInfo'[e][r + 1].start_date - w.tally_date < Day
    BY DEF RoundsInOrder, VotingPeriod
  <2>1. e \in DOMAIN voteInfo /\ Len(voteInfo'[e]) = Len(voteInfo[e]) /\ r \in 1..Len(voteInfo[e])
    BY <1>3 DEF RoundsKept
  <2>2. r < Len(voteInfo[e]) => voteInfo'[e][r + 1].start_date = voteInfo[e][r + 1].start_date
    BY <1>3, <2>1, NextStartKept
  <2>3. CASE e = d /\ r = n
    <3>1. voteInfo'[e][r] = v
      BY <1>1, <2>1, <2>3 DEF Replaced
    <3>2. CurrentVote(d).tally_date > 0 /\ now - CurrentVote(d).tally_date >= Day
      BY DEF ReportVoteExecuted
    <3> HIDE DEF v
    <3>3. QED
      BY <1>2, <1>5, <2>1, <2>2, <2>3, <3>1, <3>2 DEF GovInv, RoundsInOrder, CurrentVote
  <2>4. CASE ~(e = d /\ r = n)
    <3>1. voteInfo'[e][r] = voteInfo[e][r]
      BY <1>1, <2>1, <2>4 DEF Replaced
    <3>2. QED
      BY <1>5, <2>1, <2>2, <3>1 DEF GovInv, RoundsInOrder
  <2>5. QED
    BY <2>3, <2>4
<1>8. GovTypeOK'
  <2>1. voteInfo' \in [DOMAIN voteInfo' -> Seq(Vote)] /\ DOMAIN voteInfo' = DOMAIN voteInfo
    <3>1. voteInfo' = [e \in DOMAIN voteInfo |-> voteInfo'[e]]
      BY DEF ReportVoteExecuted, GovInv, GovTypeOK
    <3>2. QED
      BY <1>3, <3>1 DEF RoundsKept
  <2>2. openDisputes' \in [QueryId -> Nat]
    BY DisputeFacts DEF ReportVoteExecuted, GovInv, GovTypeOK
  <2>3. feesBalance' \in Nat
    <3>1. FeesOf(d, 1..VoteRounds(d)) \in Nat
      BY FeesOfNat
    <3>2. feesBalance \in Nat /\ ExistentialDeposit \in Nat
      BY GovernanceAssumption DEF GovInv, GovTypeOK
    <3>3. QED
      BY <3>1, <3>2 DEF ReportVoteExecuted
  <2>4. balance' \in [Account -> Nat]
    <3>1. \A a \in Account : FeesOf(d, {r \in 1..VoteRounds(d) : FeeRecipient(d, r) = a}) \in Nat
      BY FeesOfNat
    <3>2. \A a \in Account : balance[a] \in Nat
      BY DEF GovInv, GovTypeOK
    <3>3. QED
      BY <3>1, <3>2 DEF ReportVoteExecuted
  <2>5. QED
    BY <1>4, <1>5, <2>1, <2>2, <2>3, <2>4 DEF GovInv, GovTypeOK, ReportsInv
<1>9. QED
  BY <1>3, <1>5, <1>6, <1>7, <1>8 DEF GovInv, RoundsKept

(* Opening a round keeps the types of everything it writes. *)
LEMMA OpenTypes ==
    ASSUME GovInv, NEW a \in Account, NEW d \in DisputeId, NEW fee \in Nat, OpenRound(a, d, fee)
    PROVE  /\ Opened(a, d, fee)
           /\ voteInfo' \in [DOMAIN voteInfo' -> Seq(Vote)] /\ DOMAIN voteInfo' \subseteq DisputeId
           /\ IsFiniteSet(DOMAIN voteInfo')
           /\ DOMAIN pendingVotes' \subseteq DOMAIN voteInfo'
           /\ pendingVotes' \in [DOMAIN pendingVotes' -> Pending]
           /\ voteCount' \in Nat /\ balance' \in [Account -> Nat] /\ feesBalance' \in Nat
           /\ outbox' \in [DOMAIN voteInfo' -> Seq(Message)]
<1>1. Opened(a, d, fee)
  BY DisputeFacts, OpenEffect DEF GovInv
<1>2. voteInfo' = [e \in DOMAIN voteInfo' |-> voteInfo'[e]]
  BY DEF OpenRound, Put
<1>3. \A e \in DOMAIN voteInfo' : voteInfo'[e] \in Seq(Vote)
  BY <1>1 DEF Opened, GovInv, GovTypeOK
<1>4. voteInfo' \in [DOMAIN voteInfo' -> Seq(Vote)] /\ DOMAIN voteInfo' \subseteq DisputeId
  BY <1>1, <1>2, <1>3 DEF Opened, GovInv, GovTypeOK
<1>5. IsFiniteSet(DOMAIN voteInfo')
  BY <1>1, FS_AddElement DEF Opened, GovInv
<1>6. /\ DOMAIN pendingVotes' \subseteq DOMAIN voteInfo'
      /\ pendingVotes' \in [DOMAIN pendingVotes' -> Pending]
  <2>1. [round |-> VoteRounds(d) + 1, scheduled |-> now + SendDelay] \in Pending
    <3>1. VoteRounds(d) \in Nat /\ now \in Nat /\ SendDelay \in Nat
      BY VoteRoundsType, GovernanceAssumption DEF GovInv, GovTypeOK, ReportsTypeOK, Timestamp
    <3>2. QED
      BY <3>1 DEF Pending, Timestamp
  <2>2. QED
    BY <1>1, <2>1 DEF OpenRound, Put, Opened, GovInv, GovTypeOK
<1>7. voteCount' \in Nat /\ balance' \in [Account -> Nat] /\ feesBalance' \in Nat
  <2>1. /\ voteCount \in Nat /\ balance \in [Account -> Nat] /\ feesBalance \in Nat
        /\ ExistentialDeposit \in Nat
    BY GovernanceAssumption DEF GovInv, GovTypeOK
  <2>2. /\ balance[a] >= fee + ExistentialDeposit
        /\ balance' = [balance EXCEPT ![a] = @ - fee]
        /\ feesBalance' = feesBalance + fee
        /\ voteCount' = voteCount + 1
    BY DEF OpenRound, TakeFee
  <2>3. balance[a] - fee \in Nat
    BY <2>1, <2>2
  <2>4. QED
    BY <2>1, <2>2, <2>3
<1>8. outbox' \in [DOMAIN voteInfo' -> Seq(Message)]
  <2>1. DOMAIN outbox = DOMAIN voteInfo /\ \A e \in DOMAIN voteInfo : outbox[e] \in Seq(Message)
    BY DEF GovInv, GovTypeOK
  <2> DEFINE new == IF VoteRounds(d) = 0 THEN <<[kind |-> "begin"]>>
                    ELSE Append(outbox[d], [kind |-> "begin"])
  <2>2. [kind |-> "begin"] \in Message
    BY DEF Message
  <2>3. new \in Seq(Message)
    <3>1. CASE VoteRounds(d) = 0
      BY <2>2, <3>1
    <3>2. CASE VoteRounds(d) # 0
      <4>1. d \in DOMAIN voteInfo
        BY <3>2 DEF VoteRounds
      <4>2. QED
        BY <2>1, <2>2, <3>2, <4>1, AppendProperties
    <3>3. QED
      BY <3>1, <3>2
  <2>4. outbox' = Put(outbox, d, new)
    BY DEF OpenRound
  <2> HIDE DEF new
  <2>5. QED
    BY <1>1, <2>1, <2>3, <2>4 DEF Put, Opened
<1>9. QED
  BY <1>1, <1>4, <1>5, <1>6, <1>7, <1>8

(* The new round is queued in place of the previous one's votes. *)
LEMMA OpenPending ==
    ASSUME GovInv, NEW a \in Account, NEW d \in DisputeId, NEW fee \in Nat, OpenRound(a, d, fee)
    PROVE  PendingIffUnsent'
<1>1. Opened(a, d, fee)
  BY OpenTypes
<1>2. pendingVotes' = Put(pendingVotes, d, [round |-> VoteRounds(d) + 1, scheduled |-> now + SendDelay])
  BY DEF OpenRound
<1> SUFFICES ASSUME NEW e \in DOMAIN voteInfo'
             PROVE  /\ e \in DOMAIN pendingVotes' <=> ~CurrentVote(e)'.sent
                    /\ e \in DOMAIN pendingVotes' =>
                          /\ pendingVotes'[e].round = VoteRounds(e)'
                          /\ pendingVotes'[e].scheduled = CurrentVote(e)'.start_date + SendDelay
  BY DEF PendingIffUnsent, CurrentVote
<1>3. CASE e = d
  <2>1. CurrentVote(d)' = NewVote(a, fee) /\ VoteRounds(d)' = VoteRounds(d) + 1
    BY <1>1 DEF Opened, CurrentVote, VoteRounds
  <2>2. ~NewVote(a, fee).sent /\ NewVote(a, fee).start_date = now
    BY DEF NewVote
  <2>3. d \in DOMAIN pendingVotes' /\ pendingVotes'[d] = [round |-> VoteRounds(d) + 1, scheduled |-> now + SendDelay]
    BY <1>2 DEF Put
  <2>4. QED
    BY <1>3, <2>1, <2>2, <2>3
<1>4. CASE e # d
  <2>1. e \in DOMAIN voteInfo /\ CurrentVote(e)' = CurrentVote(e) /\ VoteRounds(e)' = VoteRounds(e)
    BY <1>1, <1>4 DEF Opened, CurrentVote, VoteRounds
  <2>2. (e \in DOMAIN pendingVotes' <=> e \in DOMAIN pendingVotes) /\ (e \in DOMAIN pendingVotes => pendingVotes'[e] = pendingVotes[e])
    BY <1>2, <1>4 DEF Put
  <2>3. QED
    BY <2>1, <2>2 DEF GovInv, PendingIffUnsent
<1>5. QED
  BY <1>3, <1>4

(* A new round follows a round tallied less than a day ago: an untallied   *)
(* one would be older than a day.                                          *)
LEMMA OpenOrder ==
    ASSUME GovInv, NEW a \in Account, NEW d \in DisputeId, NEW fee \in Nat, Opened(a, d, fee),
           now' = now, d \in DOMAIN voteInfo => MayAppeal(d)
    PROVE  RoundsInOrder'
<1> SUFFICES ASSUME NEW e \in DOMAIN voteInfo', NEW r \in 1..Len(voteInfo'[e])
             PROVE  LET w == voteInfo'[e][r]
                    IN /\ w.tally_date > 0 <=> w.result # None
                       /\ w.tally_date > 0 => /\ w.tally_date <= now'
                                              /\ w.tally_date - w.start_date >= VotingPeriod(r)
                       /\ w.executed => /\ r = Len(voteInfo'[e])
                                        /\ w.tally_date > 0 /\ now' - w.tally_date >= Day
                       /\ r < Len(voteInfo'[e]) =>
                             /\ w.tally_date > 0
                             /\ voteInfo'[e][r + 1].start_date >= w.tally_date
                             /\ voteInfo'[e][r + 1].start_date - w.tally_date < Day
  BY DEF RoundsInOrder, VotingPeriod
<1>1. CASE e # d
  <2>1. e \in DOMAIN voteInfo /\ voteInfo'[e] = voteInfo[e]
    BY <1>1 DEF Opened
  <2>2. QED
    BY <2>1 DEF GovInv, RoundsInOrder
<1>2. CASE e = d /\ r = VoteRounds(d) + 1
  <2>1. voteInfo'[e][r] = NewVote(a, fee) /\ Len(voteInfo'[e]) = r
    BY <1>2 DEF Opened
  <2>2. NewVote(a, fee).tally_date = 0 /\ NewVote(a, fee).result = None /\ ~NewVote(a, fee).executed
    BY DEF NewVote
  <2>3. VoteRounds(d) \in Nat
    BY VoteRoundsType DEF GovInv
  <2>4. QED
    BY <1>2, <2>1, <2>2, <2>3
<1>3. CASE e = d /\ r # VoteRounds(d) + 1
  <2>1. VoteRounds(d) \in Nat /\ r \in 1..VoteRounds(d)
    BY <1>3, VoteRoundsType DEF Opened, GovInv
  <2>2. d \in DOMAIN voteInfo /\ VoteRounds(d) = Len(voteInfo[d])
    BY <2>1 DEF VoteRounds
  <2> DEFINE v == voteInfo[d][r]
  <2>3. voteInfo'[e][r] = v /\ r < Len(voteInfo'[e])
    BY <1>3, <2>1 DEF Opened
  <2>4. /\ v.tally_date > 0 <=> v.result # None
        /\ v.tally_date > 0 => /\ v.tally_date <= now
                               /\ v.tally_date - v.start_date >= VotingPeriod(r)
        /\ v.executed => /\ r = Len(voteInfo[d])
                         /\ v.tally_date > 0 /\ now - v.tally_date >= Day
        /\ r < Len(voteInfo[d]) =>
              /\ v.tally_date > 0
              /\ voteInfo[d][r + 1].start_date >= v.tally_date
              /\ voteInfo[d][r + 1].start_date - v.tally_date < Day
    BY <2>1, <2>2 DEF GovInv, RoundsInOrder
  <2>5. CASE r = Len(voteInfo[d])
    <3>1. v = CurrentVote(d) /\ v \in Vote
      BY <2>2, <2>5, DisputeFacts
    <3>2. now - v.tally_date < Day /\ ~v.executed
      BY <2>2, <3>1 DEF MayAppeal
    <3>3. v.tally_date \in Nat /\ now \in Nat /\ StartTime <= now /\ Day \in Nat /\ Day <= StartTime
      BY <3>1, GovernanceAssumption DEF Vote, Timestamp, GovInv, GovTypeOK, ReportsTypeOK
    <3>4. v.tally_date > 0
      BY <3>2, <3>3, ReportsAssumption
    <3>5. voteInfo'[e][r + 1].start_date = now
      BY <1>3, <2>2, <2>5 DEF Opened, NewVote
    <3> HIDE DEF v
    <3>6. QED
      BY <2>3, <2>4, <3>2, <3>3, <3>4, <3>5
  <2>6. CASE r # Len(voteInfo[d])
    <3>1. r < Len(voteInfo[d]) /\ r + 1 \in 1..VoteRounds(d)
      BY <2>1, <2>2, <2>6
    <3>2. voteInfo'[e][r + 1] = voteInfo[d][r + 1]
      BY <1>3, <3>1 DEF Opened
    <3> HIDE DEF v
    <3>3. ~v.executed
      BY <2>4, <3>1, <2>1, <2>2
    <3>4. QED
      BY <2>3, <2>4, <3>1, <3>2, <3>3
  <2>7. QED
    BY <2>5, <2>6
<1>4. QED
  BY <1>1, <1>2, <1>3

(* begin_dispute, a further round. *)
LEMMA NextRoundGov ==
    ASSUME GovInv, NEW a \in Account, NEW d \in DOMAIN voteInfo, BeginNextRound(a, d)
    PROVE  GovInv'
<1> DEFINE fee == RoundFee(VoteRounds(d))
<1>1. fee \in Nat /\ d \in DisputeId /\ OpenRound(a, d, fee) /\ MayAppeal(d)
  BY VoteRoundsType, RoundFeeType DEF GovInv, GovTypeOK, BeginNextRound
<1> HIDE DEF fee
<1>2. UNCHANGED <<reportsVars, openDisputes, disputeInfo, voteTally, disputeFee>>
  BY DEF BeginNextRound
<1>3. ReportsInv' /\ now' = now /\ reports' = reports
  BY <1>2, StoreKept DEF GovInv, reportsVars, storeVars
<1>4. Opened(a, d, fee) /\ IsFiniteSet(DOMAIN voteInfo') /\ DOMAIN voteInfo' = DOMAIN voteInfo
  <2>1. Opened(a, d, fee) /\ IsFiniteSet(DOMAIN voteInfo')
    BY <1>1, OpenTypes
  <2>2. DOMAIN voteInfo' = DOMAIN voteInfo \cup {d}
    BY ONLY <2>1 DEF Opened
  <2>3. QED
    BY ONLY <2>1, <2>2, d \in DOMAIN voteInfo
<1>5. GovTypeOK'
  BY <1>1, <1>2, <1>3, <1>4, OpenTypes DEF GovInv, GovTypeOK, ReportsInv
<1>6. RoundsInOrder' /\ PendingIffUnsent'
  BY <1>1, <1>3, <1>4, OpenOrder, OpenPending
<1>7. DisputedIffVoted'
  <2>1. \A e : IsDisputedReport(e)' <=> IsDisputedReport(e)
    BY <1>3 DEF IsDisputedReport
  <2>2. \A e \in DOMAIN voteInfo : VoteRounds(e)' >= 1
    <3> SUFFICES ASSUME NEW e \in DOMAIN voteInfo PROVE VoteRounds(e)' >= 1
      OBVIOUS
    <3>1. VoteRounds(e) \in Nat /\ VoteRounds(e) >= 1
      BY DisputeFacts
    <3>2. VoteRounds(e)' = IF e = d THEN VoteRounds(e) + 1 ELSE VoteRounds(e)
      BY <1>4 DEF Opened, VoteRounds
    <3>3. QED
      BY <3>1, <3>2
  <2>3. VotedPointwise'
    BY <1>2, <1>3, <1>4, <2>1, <2>2, DisputedPointwise DEF GovInv, VotedPointwise
  <2>4. QED
    BY <2>3, DisputedPointwise
<1>8. QED
  BY <1>3, <1>4, <1>5, <1>6, <1>7 DEF GovInv

(* begin_dispute, first round: the report becomes disputed and gets its    *)
(* vote in the same step.                                                  *)
LEMMA BeginDisputeGov ==
    ASSUME GovInv, NEW a \in Account, NEW q \in QueryId, NEW t \in DOMAIN reports[q],
           BeginDispute(a, q, t)
    PROVE  GovInv'
<1> DEFINE fee == RoundFee(openDisputes[q])
           d == <<q, t>>
<1>1. fee \in Nat /\ d \in DisputeId /\ OpenRound(a, d, fee) /\ VoteRounds(d) = 0
  <2>1. openDisputes[q] \in Nat /\ disputeFee \in DisputeFees
    BY DEF GovInv, GovTypeOK
  <2>2. d \in DisputeId
    BY DEF DisputeId, GovInv, GovTypeOK, ReportsTypeOK
  <2>3. QED
    BY <2>1, <2>2, RoundFeeType DEF BeginDispute
<1>2. d \notin DOMAIN voteInfo
  BY <1>1, DisputeFacts
<1>3. /\ RemoveValue(q, t) /\ RecordDispute(q, t)
      /\ UNCHANGED <<now, stakerVars, voteTally, disputeFee>>
  BY DEF BeginDispute
<1>4. ReportsInv'
  BY <1>3, RemoveInv DEF GovInv
<1>5. PICK stop : Removed(q, t, stop)
  BY <1>3, RemoveEffect DEF GovInv, ReportsInv
<1>6. /\ \A p \in QueryId : DOMAIN reports'[p] = DOMAIN reports[p]
      /\ \A p \in QueryId : \A s \in DOMAIN reports[p] :
            /\ reports'[p][s].reporter = reports[p][s].reporter
            /\ reports'[p][s].is_disputed <=> (reports[p][s].is_disputed \/ (p = q /\ s = t))
  <2>1. \A p \in QueryId : \A s \in DOMAIN reports[p] : reports[p][s] \in Report
    BY DEF GovInv, ReportsInv, ReportsTypeOK
  <2>2. ASSUME NEW p \in QueryId, p # q PROVE reports'[p] = reports[p]
    BY <1>5, <2>2 DEF Removed
  <2>3. reports'[q] = Relinked(q, t, reports[q][t].index + 1, stop)
    BY <1>5 DEF Removed
  <2>4. DOMAIN reports'[q] = DOMAIN reports[q]
    BY <2>3 DEF Relinked
  <2>5. \A s \in DOMAIN reports[q] : /\ reports'[q][s].reporter = reports[q][s].reporter
                                     /\ reports'[q][s].is_disputed <=> (reports[q][s].is_disputed \/ s = t)
    BY <2>1, <2>3 DEF Relinked, Report
  <2>6. ASSUME NEW p \in QueryId, p # q, NEW s \in DOMAIN reports[p]
        PROVE  /\ reports'[p][s].reporter = reports[p][s].reporter
               /\ reports'[p][s].is_disputed <=> (reports[p][s].is_disputed \/ (p = q /\ s = t))
    <3>1. reports'[p][s] = reports[p][s]
      BY <2>2, <2>6
    <3>2. QED
      BY <2>6, <3>1
  <2>7. \A p \in QueryId : DOMAIN reports'[p] = DOMAIN reports[p]
    BY <2>2, <2>4
  <2>8. ASSUME NEW p \in QueryId, NEW s \in DOMAIN reports[p]
        PROVE  /\ reports'[p][s].reporter = reports[p][s].reporter
               /\ reports'[p][s].is_disputed <=> (reports[p][s].is_disputed \/ (p = q /\ s = t))
    <3>1. CASE p = q
      <4>1. s \in DOMAIN reports[q]
        BY <3>1
      <4>2. /\ reports'[q][s].reporter = reports[q][s].reporter
            /\ reports'[q][s].is_disputed <=> (reports[q][s].is_disputed \/ s = t)
        BY <2>5, <4>1
      <4>3. QED
        BY <3>1, <4>2
    <3>2. CASE p # q
      BY <2>6, <3>2
    <3>3. QED
      BY <3>1, <3>2
  <2>9. QED
    BY <2>7, <2>8
<1> HIDE DEF fee, d
<1>7. Opened(a, d, fee) /\ IsFiniteSet(DOMAIN voteInfo')
  BY <1>1, OpenTypes
<1>8. disputeInfo' = Put(disputeInfo, d, reports[q][t].reporter)
  BY <1>3 DEF RecordDispute, d
<1>9. GovTypeOK'
  <2>1. openDisputes' \in [QueryId -> Nat]
    BY <1>3 DEF RecordDispute, GovInv, GovTypeOK
  <2>2. disputeInfo' \in [DOMAIN voteInfo' -> Account]
    <3>1. reports[q][t].reporter \in Account
      BY DEF GovInv, GovTypeOK, ReportsTypeOK, Report
    <3>2. disputeInfo \in [DOMAIN voteInfo -> Account]
      BY DEF GovInv, GovTypeOK
    <3>3. QED
      BY <1>7, <1>8, <3>1, <3>2 DEF Put, Opened
  <2>3. QED
    BY <1>1, <1>3, <1>4, <2>1, <2>2, OpenTypes DEF GovInv, GovTypeOK, ReportsInv
<1>10. RoundsInOrder' /\ PendingIffUnsent'
  BY <1>1, <1>2, <1>3, <1>7, OpenOrder, OpenPending
<1>11. DisputedIffVoted'
  <2>1. VotedPointwise
    BY DisputedPointwise DEF GovInv
  <2>2. \A e : e \in DOMAIN voteInfo' <=> IsDisputedReport(e)'
    <3>1. \A e : IsDisputedReport(e)' <=> (IsDisputedReport(e) \/ e = d)
      BY <1>6 DEF IsDisputedReport, d
    <3>2. QED
      BY <1>7, <2>1, <3>1 DEF Opened, VotedPointwise
  <2>3. ASSUME NEW e \in DOMAIN voteInfo'
        PROVE  VoteRounds(e)' >= 1 /\ disputeInfo'[e] = reports'[e[1]][e[2]].reporter
    <3>1. CASE e = d
      <4>1. VoteRounds(d)' = 1
        BY <1>1, <1>7 DEF Opened, VoteRounds
      <4>2. d[1] = q /\ d[2] = t
        BY DEF d
      <4>3. disputeInfo'[d] = reports[q][t].reporter /\ reports'[q][t].reporter = reports[q][t].reporter
        BY <1>6, <1>8 DEF Put
      <4>4. QED
        BY <3>1, <4>1, <4>2, <4>3
    <3>2. CASE e # d
      <4>1. e \in DOMAIN voteInfo /\ voteInfo'[e] = voteInfo[e]
        BY <1>7, <3>2 DEF Opened
      <4>2. VoteRounds(e)' = VoteRounds(e)
        BY <4>1 DEF VoteRounds
      <4>3. disputeInfo'[e] = disputeInfo[e]
        BY <1>8, <3>2, <4>1 DEF Put, GovInv, GovTypeOK
      <4>4. PICK p \in QueryId : \E s \in DOMAIN reports[p] : e = <<p, s>>
        BY <2>1, <4>1 DEF VotedPointwise, IsDisputedReport
      <4>5. reports'[e[1]][e[2]].reporter = reports[e[1]][e[2]].reporter
        BY <1>6, <4>4
      <4>6. QED
        BY <2>1, <4>1, <4>2, <4>3, <4>5 DEF VotedPointwise
    <3>3. QED
      BY <3>1, <3>2
  <2>4. QED
    BY <2>2, <2>3, DisputedPointwise DEF VotedPointwise
<1>12. QED
  BY <1>3, <1>4, <1>7, <1>9, <1>10, <1>11 DEF GovInv

-----------------------------------------------------------------------------
(* Casting a vote is VoteOnMultipleDisputes for ballots on stored disputes. *)
LEMMA VotingBallots ==
    ASSUME GovInv, Voting
    PROVE  \E a \in Account : \E ballots :
              /\ \A d \in DOMAIN ballots : ballots[d] \in Choice
              /\ DOMAIN ballots \subseteq DOMAIN voteInfo
              /\ VoteOnMultipleDisputes(a, ballots)
<1>1. CASE \E a \in Voters, d \in DOMAIN voteInfo, choice \in Choice : CastVote(a, d, choice)
  <2>1. PICK a \in Voters, d \in DOMAIN voteInfo, choice \in Choice : CastVote(a, d, choice)
    BY <1>1
  <2> DEFINE ballots == [e \in {d} |-> choice]
  <2>2. VoteOnMultipleDisputes(a, ballots)
    BY <2>1 DEF CastVote
  <2>3. /\ \A e \in DOMAIN ballots : ballots[e] \in Choice
        /\ DOMAIN ballots \subseteq DOMAIN voteInfo
    OBVIOUS
  <2>4. a \in Account
    BY GovernanceAssumption
  <2> HIDE DEF ballots
  <2>5. QED
    BY <2>2, <2>3, <2>4
<1>2. CASE \E a \in Voters, S \in SUBSET DOMAIN voteInfo :
              \E ballots \in [S -> Choice] : VoteOnMultipleDisputes(a, ballots)
  BY <1>2, GovernanceAssumption
<1>3. QED
  BY <1>1, <1>2 DEF Voting

(* Both ways of sending votes keep everything but the rounds' sent flags,  *)
(* the queue and the messages, and possibly move the clock and the fee.    *)
LEMMA SendingBatch ==
    ASSUME GovInv, Sending \/ Block
    PROVE  /\ \E accepted \in SUBSET Due : SendBatch(accepted)
           /\ now' \in Nat /\ now' >= now
           /\ now' # now => now' \in (now + 1)..MaxTime
           /\ disputeFee' \in DisputeFees
           /\ UNCHANGED <<storeVars, stakerVars, disputeInfo, openDisputes, voteCount, voteTally,
                          balance, feesBalance>>
<1>1. now \in Nat /\ disputeFee \in DisputeFees
  BY DEF GovInv, GovTypeOK, ReportsTypeOK, Timestamp
<1>2. CASE Sending
  BY <1>1, <1>2 DEF Sending, SendVotes, reportsVars
<1>3. CASE Block
  <2>1. PICK t \in now..MaxTime, accepted \in SUBSET Due : NewBlock(t, accepted)
    BY <1>3 DEF Block
  <2>2. now' = t
    BY <2>1 DEF NewBlock, AdvanceTime
  <2>3. MaxTime \in Nat
    BY ReportsAssumption
  <2>4. QED
    BY <1>1, <2>1, <2>2, <2>3 DEF NewBlock
<1>4. QED
  BY <1>2, <1>3

(* Every step of the governance keeps the invariant. *)
LEMMA GovStepInv == GovInv /\ [GovNext]_vars => GovInv'
<1> SUFFICES ASSUME GovInv, [GovNext]_vars PROVE GovInv'
  OBVIOUS
<1>1. CASE Submit
  BY <1>1, SubmitGov
<1>2. CASE Dispute
  BY <1>2, BeginDisputeGov, NextRoundGov DEF Dispute
<1>3. CASE Voting
  BY <1>3, VotingBallots, VotingGov
<1>4. CASE Sending \/ Block
  <2>1. PICK accepted \in SUBSET Due : SendBatch(accepted)
    BY <1>4, SendingBatch
  <2>2. /\ now' \in Nat /\ now' >= now /\ disputeFee' \in DisputeFees
        /\ UNCHANGED <<storeVars, stakerVars, disputeInfo, openDisputes, voteCount, voteTally,
                       balance, feesBalance>>
    BY <1>4, SendingBatch
  <2>3. QED
    BY <2>1, <2>2, SendGov
<1>5. CASE Controller
  BY <1>5, TallyGov, ExecuteGov DEF Controller
<1>6. CASE UNCHANGED vars
  <2>1. ReportsInv'
    BY <1>6, StoreKept DEF vars, GovInv
  <2>2. UNCHANGED govVars /\ UNCHANGED reportsVars
    BY <1>6 DEF vars
  <2>3. GovTypeOK' /\ (StartTime <= now)' /\ IsFiniteSet(DOMAIN voteInfo)'
    BY <2>1, <2>2 DEF GovInv, GovTypeOK, govVars, reportsVars, ReportsInv
  <2>4. DisputedIffVoted'
    BY <2>2 DEF GovInv, DisputedIffVoted, govVars, reportsVars, storeVars, VoteRounds, Undisputed
  <2>5. RoundsInOrder'
    BY <2>2 DEF GovInv, RoundsInOrder, govVars, reportsVars
  <2>6. PendingIffUnsent'
    BY <2>2 DEF GovInv, PendingIffUnsent, govVars, VoteRounds, CurrentVote
  <2>7. QED
    BY <2>1, <2>3, <2>4, <2>5, <2>6 DEF GovInv
<1>7. QED
  BY <1>1, <1>2, <1>3, <1>4, <1>5, <1>6 DEF GovNext

(* The inductive invariant of the governance. *)
THEOREM GovernanceInvariant == GovSpec => []GovInv
  BY GovInitInv, GovStepInv, PTL DEF GovSpec

(* Every stored item of the governance keeps its type: in particular no    *)
(* balance and no count goes below zero.                                   *)
THEOREM GovTypeCorrect == GovSpec => []GovTypeOK
<1>1. GovInv => GovTypeOK
  BY DEF GovInv
<1>2. QED
  BY <1>1, GovernanceInvariant, PTL

(* begin_dispute marks a report disputed and opens its vote in one step,   *)
(* and nothing else does either.                                           *)
THEOREM DisputedCorrect == GovSpec => []DisputedIffVoted
<1>1. GovInv => DisputedIffVoted
  BY DEF GovInv
<1>2. QED
  BY <1>1, GovernanceInvariant, PTL

(* The tallies, appeals and the execution of a dispute keep their order    *)
(* and their distances in time, whenever the controller's messages arrive. *)
THEOREM RoundsCorrect == GovSpec => []RoundsInOrder
<1>1. GovInv => RoundsInOrder
  BY DEF GovInv
<1>2. QED
  BY <1>1, GovernanceInvariant, PTL

(* The queue of do_send_votes holds exactly the current rounds whose votes *)
(* were not sent, however often XCM refuses a message.                     *)
THEOREM PendingCorrect == GovSpec => []PendingIffUnsent
<1>1. GovInv => PendingIffUnsent
  BY DEF GovInv
<1>2. QED
  BY <1>1, GovernanceInvariant, PTL

-----------------------------------------------------------------------------
(* What a step of the governance does to the report store is a step of the *)
(* report store, or none.                                                  *)
LEMMA GovStepReports == GovInv /\ [GovNext]_vars => [ReportsNext]_reportsVars
<1> SUFFICES ASSUME GovInv, [GovNext]_vars PROVE ReportsNext \/ UNCHANGED reportsVars
  OBVIOUS
<1>1. CASE Submit
  BY <1>1 DEF Submit, ReportsNext
<1>2. CASE \E a \in Account, q \in QueryId : \E t \in DOMAIN reports[q] : BeginDispute(a, q, t)
  BY <1>2 DEF BeginDispute, ReportsNext, RemoveValueStep
<1>3. CASE \E a \in Account, d \in DOMAIN voteInfo : BeginNextRound(a, d)
  BY <1>3 DEF BeginNextRound
<1>4. CASE Voting
  BY <1>4, VotingBallots DEF VoteOnMultipleDisputes
<1>5. CASE Sending \/ Block
  <2>1. CASE now' = now
    BY <1>5, <2>1, SendingBatch DEF reportsVars
  <2>2. CASE now' # now
    <3>1. now' \in (now + 1)..MaxTime /\ now \in Nat /\ MaxTime \in Nat
      BY <1>5, <2>2, SendingBatch, ReportsAssumption
      DEF GovInv, GovTypeOK, ReportsTypeOK, Timestamp
    <3>2. AdvanceTime(now')
      BY <3>1 DEF AdvanceTime
    <3>3. ClockStep
      BY <1>5, <3>1, <3>2, SendingBatch DEF ClockStep
    <3>4. QED
      BY <3>3 DEF ReportsNext
  <2>3. QED
    BY <2>1, <2>2
<1>6. CASE Controller
  BY <1>6 DEF Controller, ReportVoteTallied, ReportVoteExecuted
<1>7. CASE UNCHANGED vars
  BY <1>7 DEF vars
<1>8. QED
  BY <1>1, <1>2, <1>3, <1>4, <1>5, <1>6, <1>7 DEF GovNext, Dispute

(* Through disputes, votes and blocks the report store goes through its    *)
(* own steps only, so that all that is proved of it holds in the pallet    *)
(* with the governance.                                                    *)
THEOREM ReportsRefined == GovSpec => ReportsSpec
<1>1. GovInit => ReportsInit
  BY DEF GovInit
<1>2. QED
  BY <1>1, GovStepReports, GovernanceInvariant, PTL DEF GovSpec, ReportsSpec

-----------------------------------------------------------------------------
(* The refinement mapping: the results of the rounds, and the disputes     *)
(* executed.                                                               *)
Results(d) == [r \in 1..Len(voteInfo[d]) |-> voteInfo[d][r].result]
Outcomes == [d \in DOMAIN voteInfo |-> Results(d)]
Executed == {d \in DOMAIN voteInfo : CurrentVote(d).executed}

(* A step that keeps the rounds and their outcomes is no step of the life  *)
(* of a dispute.                                                           *)
LEMMA KeptLife ==
    ASSUME GovInv, RoundsKept,
           \A d \in DOMAIN voteInfo : \A r \in 1..Len(voteInfo[d]) : SameOutcome(d, r)
    PROVE  UNCHANGED <<Outcomes, Executed>>
<1>1. ASSUME NEW d \in DOMAIN voteInfo
      PROVE  /\ Results(d)' = Results(d)
             /\ CurrentVote(d)'.executed = CurrentVote(d).executed
  <2>1. Len(voteInfo[d]) \in Nat /\ Len(voteInfo[d]) >= 1
    BY DisputeFacts
  <2>2. Len(voteInfo'[d]) = Len(voteInfo[d])
    BY DEF RoundsKept
  <2>3. QED
    BY <2>1, <2>2 DEF Results, CurrentVote, SameOutcome
<1>2. DOMAIN voteInfo' = DOMAIN voteInfo
  BY DEF RoundsKept
<1>3. QED
  BY <1>1, <1>2 DEF Outcomes, Executed

(* The last result of a dispute in the mapping. *)
LEMMA LastResult ==
    ASSUME GovInv, NEW d \in DOMAIN voteInfo
    PROVE  /\ Outcomes[d] = Results(d) /\ Len(Outcomes[d]) = Len(voteInfo[d])
           /\ Outcomes[d] \in Seq(VoteResult \cup {None})
           /\ Outcomes[d][Len(Outcomes[d])] = CurrentVote(d).result
           /\ d \in Executed <=> CurrentVote(d).executed
<1>1. Len(voteInfo[d]) \in Nat /\ Len(voteInfo[d]) >= 1
  BY DisputeFacts
<1>2. Outcomes[d] = Results(d)
  BY DEF Outcomes
<1>3. \A r \in 1..Len(voteInfo[d]) : voteInfo[d][r].result \in VoteResult \cup {None}
  BY DisputeFacts DEF Vote
<1>4. Results(d) \in Seq(VoteResult \cup {None}) /\ Len(Results(d)) = Len(voteInfo[d])
  BY <1>1, <1>3 DEF Results
<1>5. QED
  BY <1>1, <1>2, <1>4 DEF Results, CurrentVote, Executed

(* A new round has no result, and leaves the other disputes alone. *)
LEMMA OpenedLife ==
    ASSUME GovInv, NEW a, NEW d, NEW fee, Opened(a, d, fee),
           d \in DOMAIN voteInfo => ~CurrentVote(d).executed
    PROVE  /\ Executed' = Executed
           /\ DOMAIN Outcomes' = DOMAIN voteInfo \cup {d}
           /\ \A e \in DOMAIN voteInfo \ {d} : Outcomes'[e] = Outcomes[e]
           /\ d \notin DOMAIN voteInfo => Outcomes'[d] = <<None>>
           /\ d \in DOMAIN voteInfo => Outcomes'[d] = Append(Outcomes[d], None)
<1>1. \A e \in DOMAIN voteInfo \ {d} : /\ Results(e)' = Results(e)
                                      /\ CurrentVote(e)' = CurrentVote(e)
  BY DEF Opened, Results, CurrentVote
<1>2. VoteRounds(d) \in Nat
  BY VoteRoundsType DEF GovInv
<1>3. ~CurrentVote(d)'.executed
  BY <1>2 DEF Opened, CurrentVote, NewVote
<1>4. DOMAIN voteInfo' = DOMAIN voteInfo \cup {d}
  BY DEF Opened
<1>5. Executed' = Executed
  BY <1>1, <1>3, <1>4 DEF Executed
<1>6. DOMAIN Outcomes' = DOMAIN voteInfo \cup {d} /\ Outcomes'[d] = Results(d)'
  BY <1>4 DEF Outcomes
<1>7. \A e \in DOMAIN voteInfo \ {d} : Outcomes'[e] = Outcomes[e]
  BY <1>1, <1>4 DEF Outcomes
<1>8. Len(voteInfo'[d]) = VoteRounds(d) + 1 /\ voteInfo'[d][VoteRounds(d) + 1].result = None
  BY DEF Opened, NewVote
<1>9. ASSUME d \notin DOMAIN voteInfo PROVE Results(d)' = <<None>>
  <2>1. VoteRounds(d) = 0
    BY <1>9 DEF VoteRounds
  <2>2. Results(d)' = [r \in 1..1 |-> voteInfo'[d][r].result]
    BY <1>8, <2>1 DEF Results
  <2>3. QED
    BY <1>8, <2>1, <2>2
<1>10. ASSUME d \in DOMAIN voteInfo PROVE Results(d)' = Append(Outcomes[d], None)
  <2>1. /\ Outcomes[d] = Results(d) /\ Outcomes[d] \in Seq(VoteResult \cup {None})
        /\ Len(Outcomes[d]) = VoteRounds(d)
    BY <1>10, LastResult, DisputeFacts
  <2>2. Results(d)' = [r \in 1..(VoteRounds(d) + 1) |-> voteInfo'[d][r].result]
    BY <1>8 DEF Results
  <2>3. \A r \in 1..VoteRounds(d) : voteInfo'[d][r].result = Outcomes[d][r]
    BY <1>10, <2>1, DisputeFacts DEF Opened, Results
  <2>4. Append(Outcomes[d], None) =
            [r \in 1..(VoteRounds(d) + 1) |-> IF r = VoteRounds(d) + 1 THEN None ELSE Outcomes[d][r]]
    <3> DEFINE o == Outcomes[d]
    <3>1. o \in Seq(VoteResult \cup {None}) /\ Len(o) = VoteRounds(d)
      BY <2>1
    <3> HIDE DEF o
    <3>2. Append(o, None) = [r \in 1..(Len(o) + 1) |-> IF r = Len(o) + 1 THEN None ELSE o[r]]
      <4> DEFINE S == VoteResult \cup {None}
                 w == Append(o, None)
      <4>1. None \in S /\ o \in Seq(S)
        BY <3>1
      <4> HIDE DEF S
      <4>2. /\ w \in Seq(S) /\ Len(w) = Len(o) + 1 /\ w[Len(o) + 1] = None
            /\ \A i \in 1..Len(o) : w[i] = o[i]
        BY <4>1, AppendProperties
      <4>3. Len(o) \in Nat
        BY <4>1
      <4> HIDE DEF w
      <4>4. w = [r \in 1..(Len(o) + 1) |-> w[r]]
        BY <4>2
      <4>5. \A r \in 1..(Len(o) + 1) : w[r] = IF r = Len(o) + 1 THEN None ELSE o[r]
        BY <4>2, <4>3
      <4>6. w = [r \in 1..(Len(o) + 1) |-> IF r = Len(o) + 1 THEN None ELSE o[r]]
        BY <4>4, <4>5
      <4>7. QED
        BY <4>6 DEF w
    <3>3. QED
      BY <3>1, <3>2 DEF o
  <2>5. \A r \in 1..(VoteRounds(d) + 1) :
            voteInfo'[d][r].result = IF r = VoteRounds(d) + 1 THEN None ELSE Outcomes[d][r]
    BY <1>2, <1>8, <2>3
  <2>6. QED
    BY <2>2, <2>4, <2>5
<1>11. QED
  BY <1>5, <1>6, <1>7, <1>9, <1>10

(* Replacing the current round by v changes just its result, and whether   *)
(* the dispute is executed, in the mapping.                                *)
LEMMA ReplacedLife ==
    ASSUME GovInv, NEW d \in DOMAIN voteInfo, NEW v \in Vote, Replaced(d, v)
    PROVE  /\ Outcomes' = [Outcomes EXCEPT ![d][Len(voteInfo[d])] = v.result]
           /\ Executed' = IF v.executed THEN Executed \cup {d} ELSE Executed \ {d}
<1> DEFINE n == Len(voteInfo[d])
<1>1. n \in Nat /\ n >= 1
  BY DisputeFacts
<1>2. \A e \in DOMAIN voteInfo \ {d} : Results(e)' = Results(e) /\ CurrentVote(e)' = CurrentVote(e)
  BY DEF Replaced, Results, CurrentVote
<1>3. CurrentVote(d)' = v
  BY <1>1 DEF Replaced, CurrentVote
<1>4. DOMAIN voteInfo' = DOMAIN voteInfo
  BY DEF Replaced
<1>5. Executed' = IF v.executed THEN Executed \cup {d} ELSE Executed \ {d}
  BY <1>2, <1>3, <1>4 DEF Executed
<1>6. Results(d)' = [Results(d) EXCEPT ![n] = v.result]
  <2>1. Results(d)' = [r \in 1..n |-> voteInfo'[d][r].result]
    BY DEF Results, Replaced
  <2>2. \A r \in 1..n : voteInfo'[d][r].result = IF r = n THEN v.result ELSE Results(d)[r]
    BY DEF Results, Replaced
  <2>3. Results(d) = [r \in 1..n |-> Results(d)[r]]
    BY DEF Results
  <2>4. QED
    BY <2>1, <2>2, <2>3
<1>7. Outcomes' = [e \in DOMAIN voteInfo |-> IF e = d THEN Results(d)' ELSE Outcomes[e]]
  BY <1>2, <1>4 DEF Outcomes
<1>8. Outcomes[d] = Results(d) /\ Outcomes = [e \in DOMAIN voteInfo |-> Outcomes[e]]
  BY DEF Outcomes
<1> HIDE DEF n
<1>9. Outcomes' = [Outcomes EXCEPT ![d][n] = v.result]
  BY <1>6, <1>7, <1>8
<1>10. QED
  BY <1>5, <1>9 DEF n

(* begin_dispute's first round opens a dispute. *)
LEMMA BeginOpens ==
    ASSUME GovInv, NEW a \in Account, NEW q \in QueryId, NEW t \in DOMAIN reports[q],
           BeginDispute(a, q, t)
    PROVE  Lifecycle!Open
<1> DEFINE fee == RoundFee(openDisputes[q])
           d == <<q, t>>
<1>1. fee \in Nat /\ d \in DisputeId /\ OpenRound(a, d, fee) /\ VoteRounds(d) = 0
  <2>1. openDisputes[q] \in Nat /\ disputeFee \in DisputeFees
    BY DEF GovInv, GovTypeOK
  <2>2. d \in DisputeId
    BY DEF DisputeId, GovInv, GovTypeOK, ReportsTypeOK
  <2>3. QED
    BY <2>1, <2>2, RoundFeeType DEF BeginDispute
<1>2. MaxVoteRounds > 0
  BY GovernanceAssumption DEF BeginDispute
<1> HIDE DEF fee, d
<1>3. d \notin DOMAIN voteInfo
  BY <1>1, DisputeFacts
<1>4. Opened(a, d, fee)
  BY <1>1, OpenTypes
<1>5. /\ Executed' = Executed
      /\ DOMAIN Outcomes' = DOMAIN Outcomes \cup {d}
      /\ \A e \in DOMAIN Outcomes : Outcomes'[e] = Outcomes[e]
      /\ Outcomes'[d] = <<None>>
      /\ d \in DOMAIN Outcomes' \ DOMAIN Outcomes
  <2>1. DOMAIN Outcomes = DOMAIN voteInfo
    BY DEF Outcomes
  <2>2. /\ Executed' = Executed
        /\ DOMAIN Outcomes' = DOMAIN voteInfo \cup {d}
        /\ \A e \in DOMAIN voteInfo \ {d} : Outcomes'[e] = Outcomes[e]
        /\ Outcomes'[d] = <<None>>
    BY <1>3, <1>4, OpenedLife
  <2>3. QED
    BY ONLY <1>3, <2>1, <2>2
<1>6. Outcomes' = [e \in DOMAIN Outcomes \cup {d} |-> IF e = d THEN <<None>> ELSE Outcomes[e]]
  <2>1. Outcomes' = [e \in DOMAIN Outcomes' |-> Outcomes'[e]]
    BY DEF Outcomes
  <2>2. QED
    BY <1>5, <2>1
<1>7. QED
  BY <1>2, <1>5, <1>6 DEF Lifecycle!Open, Outcomes, Results, Executed

(* A further round is an appeal against a decided one. *)
LEMMA NextRoundAppeals ==
    ASSUME GovInv, NEW a \in Account, NEW d \in DOMAIN voteInfo, BeginNextRound(a, d)
    PROVE  Lifecycle!Appeal(d)
<1> DEFINE fee == RoundFee(VoteRounds(d))
           v == CurrentVote(d)
<1>1. /\ fee \in Nat /\ d \in DisputeId /\ OpenRound(a, d, fee)
      /\ MayAppeal(d) /\ VoteRounds(d) + 1 <= MaxVoteRounds
  BY VoteRoundsType, RoundFeeType DEF GovInv, GovTypeOK, BeginNextRound
<1> HIDE DEF fee
<1>2. Opened(a, d, fee)
  BY <1>1, OpenTypes
<1>3. ~v.executed
  BY <1>1 DEF MayAppeal
<1>4. v.result # None
  <2>1. Len(voteInfo[d]) \in 1..Len(voteInfo[d]) /\ v = voteInfo[d][Len(voteInfo[d])] /\ v \in Vote
    BY DisputeFacts
  <2>2. v.tally_date > 0 <=> v.result # None
    BY <2>1 DEF GovInv, RoundsInOrder
  <2>3. now \in Nat /\ StartTime <= now /\ v.tally_date \in Nat
    BY <2>1 DEF GovInv, GovTypeOK, ReportsTypeOK, Timestamp, Vote
  <2>4. v.tally_date # 0
    BY <1>1, <2>3, GovernanceAssumption, ReportsAssumption DEF MayAppeal
  <2>5. QED
    BY <2>2, <2>3, <2>4
<1>5. /\ Executed' = Executed
      /\ DOMAIN Outcomes' = DOMAIN Outcomes
      /\ \A e \in DOMAIN Outcomes \ {d} : Outcomes'[e] = Outcomes[e]
      /\ Outcomes'[d] = Append(Outcomes[d], None)
  <2>1. DOMAIN Outcomes = DOMAIN voteInfo /\ DOMAIN voteInfo \cup {d} = DOMAIN voteInfo
    BY DEF Outcomes
  <2>2. /\ Executed' = Executed
        /\ DOMAIN Outcomes' = DOMAIN voteInfo \cup {d}
        /\ \A e \in DOMAIN voteInfo \ {d} : Outcomes'[e] = Outcomes[e]
        /\ Outcomes'[d] = Append(Outcomes[d], None)
    BY <1>2, <1>3, OpenedLife
  <2>3. QED
    BY <2>1, <2>2
<1>6. Outcomes' = [Outcomes EXCEPT ![d] = Append(Outcomes[d], None)]
  <2>1. /\ Outcomes' = [e \in DOMAIN Outcomes' |-> Outcomes'[e]]
        /\ Outcomes = [e \in DOMAIN Outcomes |-> Outcomes[e]]
    BY DEF Outcomes
  <2>2. QED
    BY <1>5, <2>1
<1>7. /\ Len(Outcomes[d]) < MaxVoteRounds /\ d \notin Executed
      /\ Outcomes[d][Len(Outcomes[d])] # None
  BY <1>1, <1>3, <1>4, LastResult, DisputeFacts, GovernanceAssumption
<1>8. QED
  BY <1>5, <1>6, <1>7
  DEF Lifecycle!Appeal, Lifecycle!Decided, Lifecycle!Last, Outcomes, Results, Executed

(* The rounds of a dispute have an outcome exactly when they are tallied. *)
LEMMA TalliedIffDecided ==
    ASSUME GovInv, NEW d \in DOMAIN voteInfo
    PROVE  CurrentVote(d).tally_date \in Nat /\ (CurrentVote(d).tally_date > 0 <=> CurrentVote(d).result # None)
<1> DEFINE v == CurrentVote(d)
<1>1. Len(voteInfo[d]) \in 1..Len(voteInfo[d]) /\ v = voteInfo[d][Len(voteInfo[d])] /\ v \in Vote
  BY DisputeFacts
<1>2. v.tally_date > 0 <=> v.result # None
  BY <1>1 DEF GovInv, RoundsInOrder
<1>3. QED
  BY <1>1, <1>2 DEF Vote, Timestamp

(* A tally decides a round that was open, whatever the controller repeats. *)
LEMMA TallyDecides ==
    ASSUME GovInv, NEW d \in DOMAIN voteInfo, NEW result \in VoteResult, ReportVoteTallied(d, result)
    PROVE  Lifecycle!Decide(d)
<1> DEFINE v == TalliedVote(d, result)
<1>1. v \in Vote /\ Replaced(d, v)
  BY DisputeFacts, TallyEffect DEF GovInv
<1>2. ~CurrentVote(d).executed /\ CurrentVote(d).tally_date = 0 /\ CurrentVote(d) \in Vote
  BY DisputeFacts DEF ReportVoteTallied, MayTally
<1>3. v.result = result /\ v.executed = FALSE
  BY <1>2 DEF TalliedVote, Vote
<1> HIDE DEF v
<1>4. CurrentVote(d).result = None
  BY <1>2, TalliedIffDecided
<1>5. d \notin Executed /\ Outcomes[d][Len(Outcomes[d])] = None /\ Len(Outcomes[d]) = Len(voteInfo[d])
  BY <1>2, <1>4, LastResult
<1>6. Outcomes' = [Outcomes EXCEPT ![d][Len(Outcomes[d])] = result]
  BY <1>1, <1>3, <1>5, ReplacedLife
<1>7. Executed' = Executed
  <2>1. Executed' = Executed \ {d}
    BY <1>1, <1>3, ReplacedLife
  <2>2. QED
    BY <1>5, <2>1
<1>8. QED
  BY <1>5, <1>6, <1>7
  DEF Lifecycle!Decide, Lifecycle!Decided, Lifecycle!Last, Outcomes, Results, Executed

(* An execution puts a decided dispute into effect, once. *)
LEMMA ExecuteExecutes ==
    ASSUME GovInv, NEW d \in DOMAIN voteInfo, ReportVoteExecuted(d)
    PROVE  Lifecycle!Execute(d)
<1> DEFINE v == ExecutedVote(d)
<1>1. v \in Vote /\ Replaced(d, v)
  BY DisputeFacts, ExecuteEffect DEF GovInv
<1>2. ~CurrentVote(d).executed /\ CurrentVote(d).tally_date > 0 /\ CurrentVote(d) \in Vote
  BY DisputeFacts DEF ReportVoteExecuted
<1>3. v.result = CurrentVote(d).result /\ v.executed = TRUE
  BY <1>2 DEF ExecutedVote, Vote
<1> HIDE DEF v
<1>4. CurrentVote(d).result # None
  BY <1>2, TalliedIffDecided
<1>5. /\ d \notin Executed /\ Outcomes[d][Len(Outcomes[d])] = CurrentVote(d).result
      /\ Len(Outcomes[d]) = Len(voteInfo[d])
  BY <1>2, <1>4, LastResult
<1>6. Outcomes' = [Outcomes EXCEPT ![d][Len(Outcomes[d])] = Outcomes[d][Len(Outcomes[d])]]
  BY <1>1, <1>3, <1>5, ReplacedLife
<1>7. Outcomes' = Outcomes
  <2> DEFINE o == Outcomes[d]
             n == Len(Outcomes[d])
  <2>1. o = [r \in DOMAIN o |-> o[r]] /\ Outcomes = [e \in DOMAIN Outcomes |-> Outcomes[e]]
    BY LastResult DEF Outcomes, Results
  <2> HIDE DEF o, n
  <2>2. [o EXCEPT ![n] = o[n]] = o
    BY <2>1
  <2>3. Outcomes' = [Outcomes EXCEPT ![d] = [o EXCEPT ![n] = o[n]]]
    BY <1>6 DEF o, n
  <2>4. Outcomes' = [Outcomes EXCEPT ![d] = o]
    BY <2>2, <2>3
  <2>5. QED
    BY <2>1, <2>4 DEF o
<1>8. Executed' = Executed \cup {d}
  BY <1>1, <1>3, ReplacedLife
<1>9. QED
  BY <1>4, <1>5, <1>7, <1>8
  DEF Lifecycle!Execute, Lifecycle!Decided, Lifecycle!Last, Outcomes, Results, Executed

(* Whatever late, repeated or reordered message arrives, disputes go       *)
(* through the abstract life: each step of the pallet is one of its steps, *)
(* or none.                                                                *)
THEOREM LifecycleRefined == GovSpec => DisputesFollowLifecycle
<1>1. GovInit => Lifecycle!Init
  BY DEF GovInit, Lifecycle!Init
<1>2. GovInv /\ [GovNext]_vars => [Lifecycle!Next]_(Lifecycle!lifecycleVars)
  <2> SUFFICES ASSUME GovInv, [GovNext]_vars
               PROVE  Lifecycle!Next \/ UNCHANGED <<Outcomes, Executed>>
    BY DEF Lifecycle!lifecycleVars, Outcomes, Results, Executed
  <2>1. CASE Dispute
    <3>1. CASE \E a \in Account, q \in QueryId : \E t \in DOMAIN reports[q] : BeginDispute(a, q, t)
      BY <3>1, BeginOpens DEF Lifecycle!Next
    <3>2. CASE \E a \in Account, d \in DOMAIN voteInfo : BeginNextRound(a, d)
      BY <3>2, NextRoundAppeals DEF Lifecycle!Next
    <3>3. QED
      BY <2>1, <3>1, <3>2 DEF Dispute
  <2>2. CASE Controller
    BY <2>2, TallyDecides, ExecuteExecutes DEF Controller, Lifecycle!Next
  <2>3. CASE Voting
    <3>1. \A d \in DOMAIN voteInfo : Len(voteInfo[d]) >= 1
      BY DisputeFacts
    <3>2. QED
      BY <2>3, <3>1, VotingBallots, VoteEffect, KeptLife DEF GovInv
  <2>4. CASE Sending \/ Block
    <3>1. PICK accepted \in SUBSET Due : SendBatch(accepted)
      BY <2>4, SendingBatch
    <3>2. RoundsKept /\ \A d \in DOMAIN voteInfo : \A r \in 1..Len(voteInfo[d]) : SameOutcome(d, r)
      BY <3>1, SendEffect DEF GovInv
    <3>3. QED
      BY <3>2, KeptLife
  <2>5. CASE Submit \/ UNCHANGED vars
    BY <2>5 DEF Submit, vars, govVars, Outcomes, Results, Executed, CurrentVote
  <2>6. QED
    BY <2>1, <2>2, <2>3, <2>4, <2>5 DEF GovNext
<1>3. QED
  BY <1>1, <1>2, GovernanceInvariant, PTL DEF GovSpec, DisputesFollowLifecycle, Lifecycle!Spec

-----------------------------------------------------------------------------
(* A step that changes no outcome of a round and moves no fee. *)
Quiet ==
    /\ RoundsKept
    /\ \A d \in DOMAIN voteInfo : \A r \in 1..Len(voteInfo[d]) : SameOutcome(d, r)
    /\ UNCHANGED <<openDisputes, disputeInfo, balance, feesBalance>>

(* Submitting, voting and sending votes are such steps. *)
LEMMA QuietSteps ==
    ASSUME GovInv, Submit \/ Voting \/ Sending \/ Block \/ UNCHANGED vars
    PROVE  Quiet
<1>1. \A d \in DOMAIN voteInfo : voteInfo[d] \in Seq(Vote) /\ Len(voteInfo[d]) >= 1
  BY DisputeFacts
<1>2. CASE Submit \/ UNCHANGED vars
  BY <1>1, <1>2 DEF Submit, vars, govVars, Quiet, RoundsKept, SameOutcome
<1>3. CASE Voting
  <2>1. PICK a, ballots :
           /\ a \in Account
           /\ \A d \in DOMAIN ballots : ballots[d] \in Choice
           /\ VoteOnMultipleDisputes(a, ballots)
    BY <1>3, VotingBallots
  <2>2. /\ RoundsKept
        /\ \A d \in DOMAIN voteInfo : \A r \in 1..Len(voteInfo[d]) : SameOutcome(d, r)
    BY <1>1, <2>1, VoteEffect DEF GovInv
  <2>3. QED
    BY <2>1, <2>2 DEF VoteOnMultipleDisputes, Quiet
<1>4. CASE Sending \/ Block
  <2>1. PICK accepted \in SUBSET Due : SendBatch(accepted)
    BY <1>4, SendingBatch
  <2>2. /\ RoundsKept
        /\ \A d \in DOMAIN voteInfo : \A r \in 1..Len(voteInfo[d]) : SameOutcome(d, r)
    BY <2>1, SendEffect DEF GovInv
  <2>3. QED
    BY <1>4, <2>2, SendingBatch DEF Quiet
<1>5. QED
  BY <1>2, <1>3, <1>4

(* A new dispute, as the counts and the fees see it. *)
LEMMA BeginFacts ==
    ASSUME GovInv, NEW a \in Account, NEW q \in QueryId, NEW t \in DOMAIN reports[q],
           BeginDispute(a, q, t)
    PROVE  LET d == <<q, t>>
               fee == RoundFee(openDisputes[q])
           IN /\ d \notin DOMAIN voteInfo /\ fee \in Nat
              /\ Opened(a, d, fee) /\ TakeFee(a, fee)
              /\ openDisputes' = [openDisputes EXCEPT ![q] = @ + 1]
              /\ disputeInfo' = Put(disputeInfo, d, reports[q][t].reporter)
<1> DEFINE fee == RoundFee(openDisputes[q])
           d == <<q, t>>
<1>1. fee \in Nat /\ d \in DisputeId /\ OpenRound(a, d, fee) /\ VoteRounds(d) = 0
  <2>1. openDisputes[q] \in Nat /\ disputeFee \in DisputeFees
    BY DEF GovInv, GovTypeOK
  <2>2. d \in DisputeId
    BY DEF DisputeId, GovInv, GovTypeOK, ReportsTypeOK
  <2>3. QED
    BY <2>1, <2>2, RoundFeeType DEF BeginDispute
<1>2. RecordDispute(q, t)
  BY DEF BeginDispute
<1>3. d \notin DOMAIN voteInfo
  BY <1>1, DisputeFacts
<1> HIDE DEF fee
<1>4. Opened(a, d, fee) /\ TakeFee(a, fee)
  BY <1>1, OpenTypes DEF OpenRound
<1>5. QED
  BY <1>1, <1>2, <1>3, <1>4 DEF RecordDispute, fee

(* A further round, as the counts and the fees see it. *)
LEMMA NextRoundFacts ==
    ASSUME GovInv, NEW a \in Account, NEW d \in DOMAIN voteInfo, BeginNextRound(a, d)
    PROVE  LET fee == RoundFee(VoteRounds(d))
           IN /\ fee \in Nat /\ Opened(a, d, fee) /\ TakeFee(a, fee)
              /\ ~CurrentVote(d).executed /\ UNCHANGED <<openDisputes, disputeInfo>>
<1> DEFINE fee == RoundFee(VoteRounds(d))
<1>1. fee \in Nat /\ d \in DisputeId /\ OpenRound(a, d, fee) /\ MayAppeal(d)
  BY VoteRoundsType, RoundFeeType DEF GovInv, GovTypeOK, BeginNextRound
<1> HIDE DEF fee
<1>2. Opened(a, d, fee) /\ TakeFee(a, fee)
  BY <1>1, OpenTypes DEF OpenRound
<1>3. QED
  BY <1>1, <1>2 DEF MayAppeal, BeginNextRound, fee

(* The tally of a round leaves the dispute open. *)
LEMMA TallyFacts ==
    ASSUME GovInv, NEW d \in DOMAIN voteInfo, NEW result \in VoteResult, ReportVoteTallied(d, result)
    PROVE  /\ RoundsKept /\ Executed' = Executed /\ d \notin Executed
           /\ \A e \in DOMAIN voteInfo \ {d} : voteInfo'[e] = voteInfo[e]
           /\ UNCHANGED <<openDisputes, disputeInfo, balance, feesBalance>>
<1> DEFINE v == TalliedVote(d, result)
<1>1. v \in Vote /\ Replaced(d, v)
  BY DisputeFacts, TallyEffect DEF GovInv
<1>2. ~CurrentVote(d).executed /\ CurrentVote(d) \in Vote
  BY DisputeFacts DEF ReportVoteTallied, MayTally
<1>3. /\ v.executed = FALSE /\ v.initiator = CurrentVote(d).initiator /\ v.fee = CurrentVote(d).fee
      /\ v.start_date = CurrentVote(d).start_date
  BY <1>2 DEF TalliedVote, Vote
<1> HIDE DEF v
<1>4. RoundsKept
  BY <1>1, <1>3, ReplacedKept
<1>5. d \notin Executed
  BY <1>2 DEF Executed
<1>6. Executed' = Executed \ {d}
  BY <1>1, <1>3, ReplacedLife
<1>7. QED
  BY <1>1, <1>4, <1>5, <1>6 DEF Replaced, ReportVoteTallied

(* The execution of a dispute closes it and pays its fees. *)
LEMMA ExecuteFacts ==
    ASSUME GovInv, NEW d \in DOMAIN voteInfo, ReportVoteExecuted(d)
    PROVE  /\ RoundsKept /\ Executed' = Executed \cup {d} /\ d \notin Executed
           /\ \A e \in DOMAIN voteInfo \ {d} : voteInfo'[e] = voteInfo[e]
           /\ CurrentVote(d)'.result = CurrentVote(d).result
           /\ UNCHANGED disputeInfo
<1> DEFINE v == ExecutedVote(d)
<1>1. v \in Vote /\ Replaced(d, v)
  BY DisputeFacts, ExecuteEffect DEF GovInv
<1>2. ~CurrentVote(d).executed /\ CurrentVote(d) \in Vote
  BY DisputeFacts DEF ReportVoteExecuted
<1>3. /\ v.executed = TRUE /\ v.initiator = CurrentVote(d).initiator /\ v.fee = CurrentVote(d).fee
      /\ v.start_date = CurrentVote(d).start_date /\ v.result = CurrentVote(d).result
  BY <1>2 DEF ExecutedVote, Vote
<1> HIDE DEF v
<1>4. RoundsKept
  BY <1>1, <1>3, ReplacedKept
<1>5. d \notin Executed
  BY <1>2 DEF Executed
<1>6. Executed' = Executed \cup {d}
  BY <1>1, <1>3, ReplacedLife
<1>7. CurrentVote(d)' = v
  BY <1>1, DisputeFacts DEF Replaced, CurrentVote
<1>8. QED
  BY <1>1, <1>3, <1>4, <1>5, <1>6, <1>7 DEF Replaced, ReportVoteExecuted

-----------------------------------------------------------------------------
(* The open disputes of a query identifier. *)
OpenOn(q) == {d \in DOMAIN voteInfo : d[1] = q /\ IsOpen(d)}

(* The open disputes are those not executed, before and after a step. *)
LEMMA OpenIsNotExecuted ==
    /\ \A d \in DOMAIN voteInfo : IsOpen(d) <=> d \notin Executed
    /\ \A d \in DOMAIN voteInfo' : IsOpen(d)' <=> d \notin Executed'
    /\ \A q : \A d : d \in OpenOn(q) <=> d \in DOMAIN voteInfo /\ d[1] = q /\ d \notin Executed
    /\ \A q : \A d : d \in OpenOn(q)' <=> d \in DOMAIN voteInfo' /\ d[1] = q /\ d \notin Executed'
  BY DEF IsOpen, Executed, OpenOn

(* The disputes open on a query identifier are counted. *)
LEMMA CountedStep == GovInv /\ OpenDisputesCounted /\ [GovNext]_vars => OpenDisputesCounted'
<1> SUFFICES ASSUME GovInv, OpenDisputesCounted, [GovNext]_vars
             PROVE  \A p \in QueryId : openDisputes'[p] = Cardinality(OpenOn(p)')
  BY DEF OpenDisputesCounted, OpenOn
<1>1. \A p \in QueryId : /\ openDisputes[p] = Cardinality(OpenOn(p))
                         /\ openDisputes[p] \in Nat /\ IsFiniteSet(OpenOn(p))
  <2>1. \A p \in QueryId : OpenOn(p) \subseteq DOMAIN voteInfo
    BY DEF OpenOn
  <2>2. \A p \in QueryId : IsFiniteSet(OpenOn(p))
    BY <2>1, FS_Subset DEF GovInv
  <2>3. QED
    BY <2>2 DEF OpenDisputesCounted, OpenOn, GovInv, GovTypeOK
<1>2. ASSUME DOMAIN voteInfo' = DOMAIN voteInfo, Executed' = Executed, UNCHANGED openDisputes
      PROVE  \A p \in QueryId : openDisputes'[p] = Cardinality(OpenOn(p)')
  <2>1. \A p \in QueryId : OpenOn(p)' = OpenOn(p)
    BY <1>2, OpenIsNotExecuted
  <2>2. QED
    BY <1>1, <1>2, <2>1
<1>3. CASE Submit \/ Voting \/ Sending \/ Block \/ UNCHANGED vars
  <2>1. Quiet
    BY <1>3, QuietSteps
  <2>2. QED
    BY <1>2, <2>1, KeptLife DEF Quiet, RoundsKept
<1>4. CASE \E a \in Account, q \in QueryId : \E t \in DOMAIN reports[q] : BeginDispute(a, q, t)
  <2>0. PICK a \in Account, q \in QueryId : \E t \in DOMAIN reports[q] : BeginDispute(a, q, t)
    BY <1>4
  <2>1. PICK t \in DOMAIN reports[q] : BeginDispute(a, q, t)
    BY <2>0
  <2> DEFINE d == <<q, t>>
             fee == RoundFee(openDisputes[q])
  <2>2. /\ d \notin DOMAIN voteInfo /\ Opened(a, d, fee)
        /\ openDisputes' = [openDisputes EXCEPT ![q] = @ + 1]
    BY <2>1, BeginFacts
  <2>3. d[1] = q /\ openDisputes \in [QueryId -> Nat]
    BY DEF GovInv, GovTypeOK
  <2> HIDE DEF d, fee
  <2>4. Executed' = Executed /\ DOMAIN voteInfo' = DOMAIN voteInfo \cup {d} /\ d \notin Executed
    BY <2>2, OpenedLife DEF Opened, Executed
  <2>5. OpenOn(q)' = OpenOn(q) \cup {d} /\ d \notin OpenOn(q)
    BY <2>2, <2>3, <2>4, OpenIsNotExecuted
  <2>6. ASSUME NEW p \in QueryId \ {q} PROVE OpenOn(p)' = OpenOn(p)
    <3>1. \A e : e \in OpenOn(p)' <=> e \in OpenOn(p)
      BY <2>3, <2>4, OpenIsNotExecuted
    <3>2. QED
      BY <3>1
  <2>7. Cardinality(OpenOn(q) \cup {d}) = Cardinality(OpenOn(q)) + 1
    BY <1>1, <2>5, FS_AddElement
  <2>8. QED
    BY <1>1, <2>2, <2>3, <2>5, <2>6, <2>7
<1>5. CASE \E a \in Account, d \in DOMAIN voteInfo : BeginNextRound(a, d)
  <2>1. PICK a \in Account, d \in DOMAIN voteInfo : BeginNextRound(a, d)
    BY <1>5
  <2> DEFINE fee == RoundFee(VoteRounds(d))
  <2>2. Opened(a, d, fee) /\ ~CurrentVote(d).executed /\ UNCHANGED openDisputes
    BY <2>1, NextRoundFacts
  <2> HIDE DEF fee
  <2>3. Executed' = Executed /\ DOMAIN voteInfo' = DOMAIN voteInfo
    BY <2>2, OpenedLife DEF Opened
  <2>4. QED
    BY <1>2, <2>2, <2>3
<1>6. CASE \E d \in DOMAIN voteInfo, result \in VoteResult : ReportVoteTallied(d, result)
  BY <1>2, <1>6, TallyFacts DEF RoundsKept
<1>7. CASE \E d \in DOMAIN voteInfo : ReportVoteExecuted(d)
  <2>1. PICK d \in DOMAIN voteInfo : ReportVoteExecuted(d)
    BY <1>7
  <2>2. Executed' = Executed \cup {d} /\ d \notin Executed /\ DOMAIN voteInfo' = DOMAIN voteInfo
    BY <2>1, ExecuteFacts DEF RoundsKept
  <2>3. /\ openDisputes' = [openDisputes EXCEPT ![d[1]] = IF @ = 0 THEN 0 ELSE @ - 1]
        /\ d[1] \in QueryId /\ openDisputes \in [QueryId -> Nat]
    BY <2>1, DisputeFacts DEF ReportVoteExecuted, GovInv, GovTypeOK
  <2>4. OpenOn(d[1])' = OpenOn(d[1]) \ {d} /\ d \in OpenOn(d[1])
    BY <2>2, OpenIsNotExecuted
  <2>5. \A p \in QueryId \ {d[1]} : OpenOn(p)' = OpenOn(p)
    BY <2>2, OpenIsNotExecuted
  <2>6. Cardinality(OpenOn(d[1]) \ {d}) = Cardinality(OpenOn(d[1])) - 1
    BY <1>1, <2>3, <2>4, FS_RemoveElement
  <2>7. OpenOn(d[1]) # {}
    BY <2>4
  <2>8. Cardinality(OpenOn(d[1])) # 0
    BY <1>1, <2>3, <2>7, FS_EmptySet
  <2>9. QED
    BY <1>1, <2>3, <2>4, <2>5, <2>6, <2>8
<1>8. QED
  BY <1>3, <1>4, <1>5, <1>6, <1>7 DEF GovNext, Dispute, Controller

(* OpenDisputesOnId counts the disputes not yet executed, so the fee of a  *)
(* dispute doubles with the disputes really open, and the subtraction in   *)
(* report_vote_executed never saturates.                                   *)
THEOREM CountCorrect == GovSpec => []OpenDisputesCounted
<1>1. GovInit => OpenDisputesCounted
  <2> SUFFICES ASSUME GovInit, NEW q \in QueryId PROVE openDisputes[q] = Cardinality(OpenOn(q))
    BY DEF OpenDisputesCounted, OpenOn
  <2>1. OpenOn(q) = {}
    BY DEF GovInit, OpenOn
  <2>2. QED
    BY <2>1, FS_EmptySet DEF GovInit
<1>2. QED
  BY <1>1, CountedStep, GovernanceInvariant, PTL DEF GovSpec

-----------------------------------------------------------------------------
(* Fees of rounds that a step keeps stay the same. *)
LEMMA SameFees ==
    ASSUME NEW d, NEW S, \A r \in S : voteInfo'[d][r].fee = voteInfo[d][r].fee
    PROVE  FeesOf(d, S)' = FeesOf(d, S)
<1>1. [r \in S |-> voteInfo'[d][r].fee] = [r \in S |-> voteInfo[d][r].fee]
  OBVIOUS
<1>2. QED
  BY <1>1 DEF FeesOf

(* Opening a round adds its fee to the fees of the dispute, and changes    *)
(* nothing about the fees of other rounds.                                 *)
LEMMA OpenedFees ==
    ASSUME GovInv, NEW a, NEW d, NEW fee \in Nat, Opened(a, d, fee),
           NEW n \in Nat, n = VoteRounds(d), NEW S \in SUBSET (1..n)
    PROVE  /\ FeesOf(d, S)' = FeesOf(d, S)
           /\ FeesOf(d, S \cup {n + 1})' = FeesOf(d, S) + fee
           /\ FeesOf(d, S) \in Nat
           /\ d \notin DOMAIN voteInfo => FeesOf(d, S) = 0
<1> DEFINE f == [r \in S |-> voteInfo[d][r].fee]
           g == [r \in S \cup {n + 1} |-> voteInfo'[d][r].fee]
<1>2. FeesOf(d, S)' = FeesOf(d, S)
  BY SameFees DEF Opened
<1>3. IsFiniteSet(S)
  <2>1. IsFiniteSet(1..n)
    BY FS_Interval
  <2>2. QED
    BY <2>1, FS_Subset
<1>4. \A r \in S : f[r] \in Nat
  <2>1. CASE d \in DOMAIN voteInfo
    BY <2>1, DisputeFacts DEF Vote
  <2>2. CASE d \notin DOMAIN voteInfo
    BY <2>2 DEF VoteRounds
  <2>3. QED
    BY <2>1, <2>2
<1>5. FeesOf(d, S) = SumFunction(f) /\ FeesOf(d, S \cup {n + 1})' = SumFunction(g)
  BY DEF FeesOf
<1>6. DOMAIN f = S /\ DOMAIN g = S \cup {n + 1} /\ n + 1 \notin S
  OBVIOUS
<1>7. g[n + 1] = fee /\ \A r \in S : g[r] = f[r]
  BY <1>6 DEF Opened, NewVote
<1> HIDE DEF f, g
<1>8. SumFunction(f) \in Nat
  BY <1>3, <1>4, <1>6, SumFunctionType
<1>9. SumFunction(g) = SumFunction(f) + g[n + 1]
  <2>1. \A r \in DOMAIN f : f[r] \in Int
    <3>1. \A r \in S : f[r] \in Int
      BY <1>4
    <3>2. DOMAIN f = S
      BY <1>6
    <3>3. QED
      BY <3>1, <3>2
  <2>2. IsFiniteSet(DOMAIN f) /\ DOMAIN g = DOMAIN f \cup {n + 1} /\ g[n + 1] \in Int
    BY <1>3, <1>6, <1>7
  <2>3. \A r \in DOMAIN f \ {n + 1} : g[r] = f[r]
    BY <1>6, <1>7
  <2>4. SumFunction(g) = SumFunction(f) + g[n + 1] - (IF n + 1 \in DOMAIN f THEN f[n + 1] ELSE 0)
    BY <2>1, <2>2, <2>3, SumFunctionPut
  <2>5. QED
    BY <1>6, <1>7, <1>8, <2>4
<1>10. d \notin DOMAIN voteInfo => FeesOf(d, S) = 0
  <2>1. SUFFICES ASSUME d \notin DOMAIN voteInfo PROVE S = {}
    BY <1>5, <1>6, SumFunctionEmpty
  <2>2. QED
    BY <2>1 DEF VoteRounds
<1>11. QED
  BY <1>2, <1>5, <1>7, <1>8, <1>9, <1>10

(* The fees of each open dispute. *)
OpenSet == {d \in DOMAIN voteInfo : IsOpen(d)}
OpenFees == [d \in OpenSet |-> FeesOf(d, 1..VoteRounds(d))]

(* There are finitely many, each a natural number. *)
LEMMA OpenFeesType ==
    ASSUME GovInv
    PROVE  /\ DOMAIN OpenFees = OpenSet /\ OpenSet = DOMAIN voteInfo \ Executed
           /\ IsFiniteSet(OpenSet)
           /\ \A d \in OpenSet : OpenFees[d] = FeesOf(d, 1..VoteRounds(d)) /\ OpenFees[d] \in Nat
<1>1. OpenSet = DOMAIN voteInfo \ Executed
  BY OpenIsNotExecuted DEF OpenSet
<1>2. IsFiniteSet(OpenSet)
  BY <1>1, FS_Subset DEF GovInv
<1>3. \A d \in OpenSet : FeesOf(d, 1..VoteRounds(d)) \in Nat
  BY <1>1, FeesOfNat
<1>4. QED
  BY <1>1, <1>2, <1>3 DEF OpenFees

(* A step that keeps the rounds keeps the fees paid for each dispute. *)
LEMMA KeptFees ==
    ASSUME GovInv, RoundsKept, NEW d \in DOMAIN voteInfo
    PROVE  /\ VoteRounds(d)' = VoteRounds(d)
           /\ \A S \in SUBSET (1..VoteRounds(d)) : FeesOf(d, S)' = FeesOf(d, S)
<1>1. VoteRounds(d)' = VoteRounds(d) /\ VoteRounds(d) = Len(voteInfo[d])
  BY DEF RoundsKept, VoteRounds
<1>2. \A r \in 1..VoteRounds(d) : voteInfo'[d][r].fee = voteInfo[d][r].fee
  BY <1>1 DEF RoundsKept
<1>3. QED
  BY <1>1, <1>2, SameFees

(* Opening a round adds its fee to the fees of the open disputes. *)
LEMMA OpenedHeld ==
    ASSUME GovInv, NEW a, NEW d, NEW fee \in Nat, Opened(a, d, fee),
           d \in DOMAIN voteInfo => ~CurrentVote(d).executed
    PROVE  SumFunction(OpenFees)' = SumFunction(OpenFees) + fee
<1> DEFINE f == OpenFees
           g == OpenFees'
<1>1. PICK n \in Nat : n = VoteRounds(d)
  BY VoteRoundsType DEF GovInv
<1>2. n = VoteRounds(d) /\ VoteRounds(d)' = n + 1
  BY <1>1 DEF Opened, VoteRounds
<1>3. Executed' = Executed /\ DOMAIN voteInfo' = DOMAIN voteInfo \cup {d} /\ d \notin Executed
  BY OpenedLife DEF Opened, Executed
<1>4. /\ DOMAIN f = OpenSet /\ IsFiniteSet(DOMAIN f)
      /\ \A e \in DOMAIN f : f[e] \in Nat /\ f[e] = FeesOf(e, 1..VoteRounds(e))
      /\ OpenSet = DOMAIN voteInfo \ Executed
  BY OpenFeesType
<1>5. OpenSet' = OpenSet \cup {d}
  BY <1>3, <1>4, OpenIsNotExecuted DEF OpenSet
<1>6. DOMAIN g = DOMAIN f \cup {d} /\ g = [e \in OpenSet' |-> FeesOf(e, 1..VoteRounds(e))']
  BY <1>4, <1>5 DEF OpenFees
<1>7. FeesOf(d, 1..n) \in Nat /\ g[d] = FeesOf(d, 1..n) + fee
  <2>1. (1..n) \cup {n + 1} = 1..(n + 1) /\ 1..n \in SUBSET (1..n)
    BY <1>1
  <2>2. FeesOf(d, 1..(n + 1))' = FeesOf(d, 1..n) + fee /\ FeesOf(d, 1..n) \in Nat
    <3> DEFINE S == 1..n
    <3>1. S \in SUBSET (1..n)
      OBVIOUS
    <3> HIDE DEF S
    <3>2. FeesOf(d, S \cup {n + 1})' = FeesOf(d, S) + fee /\ FeesOf(d, S) \in Nat
      BY <1>1, <3>1, OpenedFees
    <3>3. QED
      BY <2>1, <3>2 DEF S
  <2>3. FeesOf(d, 1..VoteRounds(d))' = FeesOf(d, 1..(n + 1))'
    BY <1>2 DEF FeesOf
  <2>4. g[d] = FeesOf(d, 1..VoteRounds(d))'
    BY <1>5, <1>6
  <2>5. QED
    BY <2>2, <2>3, <2>4
<1>8. ASSUME NEW e \in DOMAIN f \ {d} PROVE g[e] = f[e]
  <2>1. voteInfo'[e] = voteInfo[e] /\ e \in DOMAIN voteInfo /\ e \in DOMAIN voteInfo'
    BY <1>3, <1>4 DEF Opened
  <2>2. FeesOf(e, 1..VoteRounds(e))' = FeesOf(e, 1..VoteRounds(e))
    BY <2>1 DEF FeesOf, VoteRounds
  <2>3. QED
    BY <1>4, <1>5, <1>6, <2>2
<1>9. d \notin DOMAIN f => FeesOf(d, 1..n) = 0
  <2>1. d \notin DOMAIN f => d \notin DOMAIN voteInfo
    BY <1>3, <1>4
  <2>2. QED
    BY <1>1, <1>2, <2>1, OpenedFees
<1>10. d \in DOMAIN f => f[d] = FeesOf(d, 1..n)
  BY <1>2, <1>4
<1>11. SumFunction(f) \in Nat
  BY <1>4, SumFunctionType
<1> HIDE DEF f, g
<1>12. SumFunction(g) = SumFunction(f) + g[d] - (IF d \in DOMAIN f THEN f[d] ELSE 0)
  <2>1. \A e \in DOMAIN f : f[e] \in Int
    BY <1>4
  <2>2. g[d] \in Int
    BY <1>7
  <2>3. IsFiniteSet(DOMAIN f) /\ DOMAIN g = DOMAIN f \cup {d}
    BY <1>4, <1>6
  <2>4. \A e \in DOMAIN f \ {d} : g[e] = f[e]
    BY <1>8
  <2>5. PICK F, G : F = f /\ G = g
    OBVIOUS
  <2>6. /\ IsFiniteSet(DOMAIN F) /\ DOMAIN G = DOMAIN F \cup {d}
        /\ \A e \in DOMAIN F : F[e] \in Int
        /\ G[d] \in Int
        /\ \A e \in DOMAIN F \ {d} : G[e] = F[e]
    BY <2>1, <2>2, <2>3, <2>4, <2>5
  <2>7. SumFunction(G) = SumFunction(F) + G[d] - (IF d \in DOMAIN F THEN F[d] ELSE 0)
    BY <2>6, SumFunctionPut
  <2>8. QED
    BY <2>5, <2>7
<1>13. SumFunction(g) = SumFunction(f) + fee
  BY <1>7, <1>9, <1>10, <1>11, <1>12
<1>14. QED
  BY <1>13 DEF f, g

(* The sub-account holds the fees of the open disputes. *)
LEMMA HeldStep == GovInv /\ FeesHeld /\ [GovNext]_vars => FeesHeld'
<1> SUFFICES ASSUME GovInv, FeesHeld, [GovNext]_vars
             PROVE  feesBalance' = ExistentialDeposit + SumFunction(OpenFees)'
  BY DEF FeesHeld, OpenFees, OpenSet
<1>1. feesBalance = ExistentialDeposit + SumFunction(OpenFees)
  BY DEF FeesHeld, OpenFees, OpenSet
<1>2. /\ OpenSet' = DOMAIN voteInfo' \ Executed'
      /\ OpenFees' = [d \in OpenSet' |-> FeesOf(d, 1..VoteRounds(d))']
  <2>1. OpenSet' = DOMAIN voteInfo' \ Executed'
    BY OpenIsNotExecuted DEF OpenSet
  <2>2. OpenFees' = [d \in OpenSet' |-> FeesOf(d, 1..VoteRounds(d))']
    BY DEF OpenFees
  <2>3. QED
    BY <2>1, <2>2
<1>3. SumFunction(OpenFees) \in Nat /\ ExistentialDeposit \in Nat
  BY OpenFeesType, SumFunctionType, GovernanceAssumption
<1>4. ASSUME RoundsKept, Executed' = Executed, UNCHANGED feesBalance
      PROVE  feesBalance' = ExistentialDeposit + SumFunction(OpenFees)'
  <2>1. OpenSet' = OpenSet
    BY <1>2, <1>4, OpenFeesType DEF RoundsKept
  <2>2. ASSUME NEW d \in OpenSet PROVE FeesOf(d, 1..VoteRounds(d))' = FeesOf(d, 1..VoteRounds(d))
    <3>1. d \in DOMAIN voteInfo
      BY DEF OpenSet
    <3>2. VoteRounds(d)' = VoteRounds(d)
      BY <1>4, <3>1, KeptFees
    <3>3. \A r \in 1..VoteRounds(d) : voteInfo'[d][r].fee = voteInfo[d][r].fee
      BY <1>4, <3>1 DEF RoundsKept, VoteRounds
    <3>4. QED
      BY <3>2, <3>3 DEF FeesOf
  <2>3. OpenFees' = OpenFees
    BY <1>2, <2>1, <2>2 DEF OpenFees
  <2>4. QED
    BY <1>1, <1>4, <2>3
<1>5. CASE Submit \/ Voting \/ Sending \/ Block \/ UNCHANGED vars
  <2>1. Quiet
    BY <1>5, QuietSteps
  <2>2. QED
    BY <1>4, <2>1, KeptLife DEF Quiet
<1>6. CASE \E a \in Account, q \in QueryId : \E t \in DOMAIN reports[q] : BeginDispute(a, q, t)
  <2>0. PICK a \in Account, q \in QueryId : \E t \in DOMAIN reports[q] : BeginDispute(a, q, t)
    BY <1>6
  <2>1. PICK t \in DOMAIN reports[q] : BeginDispute(a, q, t)
    BY <2>0
  <2> DEFINE d == <<q, t>>
             fee == RoundFee(openDisputes[q])
  <2>2. d \notin DOMAIN voteInfo /\ fee \in Nat /\ Opened(a, d, fee) /\ TakeFee(a, fee)
    BY <2>1, BeginFacts
  <2> HIDE DEF d, fee
  <2>3. SumFunction(OpenFees)' = SumFunction(OpenFees) + fee
    BY <2>2, OpenedHeld
  <2>4. feesBalance' = feesBalance + fee
    BY <2>2 DEF TakeFee
  <2>5. QED
    BY <1>1, <1>3, <2>2, <2>3, <2>4
<1>7. CASE \E a \in Account, d \in DOMAIN voteInfo : BeginNextRound(a, d)
  <2>1. PICK a \in Account, d \in DOMAIN voteInfo : BeginNextRound(a, d)
    BY <1>7
  <2> DEFINE fee == RoundFee(VoteRounds(d))
  <2>2. fee \in Nat /\ Opened(a, d, fee) /\ TakeFee(a, fee) /\ ~CurrentVote(d).executed
    BY <2>1, NextRoundFacts
  <2> HIDE DEF fee
  <2>3. SumFunction(OpenFees)' = SumFunction(OpenFees) + fee
    BY <2>2, OpenedHeld
  <2>4. feesBalance' = feesBalance + fee
    BY <2>2 DEF TakeFee
  <2>5. QED
    BY <1>1, <1>3, <2>2, <2>3, <2>4
<1>8. CASE \E d \in DOMAIN voteInfo, result \in VoteResult : ReportVoteTallied(d, result)
  BY <1>4, <1>8, TallyFacts
<1>9. CASE \E d \in DOMAIN voteInfo : ReportVoteExecuted(d)
  <2>1. PICK d \in DOMAIN voteInfo : ReportVoteExecuted(d)
    BY <1>9
  <2>2. Executed' = Executed \cup {d} /\ d \notin Executed /\ DOMAIN voteInfo' = DOMAIN voteInfo /\ RoundsKept
    BY <2>1, ExecuteFacts DEF RoundsKept
  <2>3. feesBalance' = feesBalance - FeesOf(d, 1..VoteRounds(d))
    BY <2>1 DEF ReportVoteExecuted
  <2> DEFINE f == OpenFees
             g == OpenFees'
  <2>4. /\ DOMAIN f = OpenSet /\ IsFiniteSet(DOMAIN f)
        /\ \A e \in DOMAIN f : f[e] \in Nat /\ f[e] = FeesOf(e, 1..VoteRounds(e))
        /\ OpenSet = DOMAIN voteInfo \ Executed
    BY OpenFeesType
  <2>5. DOMAIN g = OpenSet'
    BY <1>2
  <2>6. OpenSet' = OpenSet \ {d} /\ d \in DOMAIN f
    BY <1>2, <2>2, <2>4
  <2>7. ASSUME NEW e \in DOMAIN g PROVE g[e] = f[e]
    <3>1. e \in OpenSet /\ e \in OpenSet' /\ e \in DOMAIN voteInfo
      BY <2>4, <2>5, <2>6
    <3>2. VoteRounds(e)' = VoteRounds(e)
      BY <2>2, <3>1, KeptFees
    <3>3. \A r \in 1..VoteRounds(e) : voteInfo'[e][r].fee = voteInfo[e][r].fee
      BY <2>2, <3>1 DEF RoundsKept, VoteRounds
    <3>4. FeesOf(e, 1..VoteRounds(e))' = FeesOf(e, 1..VoteRounds(e))
      BY <3>2, <3>3 DEF FeesOf
    <3>5. QED
      BY <1>2, <2>4, <3>1, <3>4
  <2> HIDE DEF f, g
  <2>8. SumFunction(g) = SumFunction(f) - f[d]
    <3>1. \A e \in DOMAIN f : f[e] \in Int
      BY <2>4
    <3>2. QED
      BY <2>4, <2>5, <2>6, <2>7, <3>1, SumFunctionDrop
  <2>9. SumFunction(OpenFees)' = SumFunction(g) /\ SumFunction(OpenFees) = SumFunction(f)
    BY DEF f, g
  <2>10. f[d] \in Nat /\ f[d] = FeesOf(d, 1..VoteRounds(d))
    BY <2>4, <2>6
  <2>11. QED
    BY <1>1, <1>3, <2>3, <2>8, <2>9, <2>10
<1>10. QED
  BY <1>5, <1>6, <1>7, <1>8, <1>9 DEF GovNext, Dispute, Controller

(* The dispute fees sub-account holds exactly what the open disputes have  *)
(* paid on top of its endowment, so that report_vote_executed always finds *)
(* the fees it pays out.                                                   *)
THEOREM HeldCorrect == GovSpec => []FeesHeld
<1>1. GovInit => FeesHeld
  <2> SUFFICES ASSUME GovInit PROVE feesBalance = ExistentialDeposit + SumFunction(OpenFees)
    BY DEF FeesHeld, OpenFees, OpenSet
  <2>1. DOMAIN OpenFees = {}
    BY DEF GovInit, OpenFees, OpenSet
  <2>2. SumFunction(OpenFees) = 0
    BY <2>1, SumFunctionEmpty
  <2>3. QED
    BY <2>2, GovernanceAssumption DEF GovInit
<1>2. QED
  BY <1>1, HeldStep, GovernanceInvariant, PTL DEF GovSpec

(* The transfer of a dispute's fees in report_vote_executed never lacks    *)
(* the funds: the execution of a tallied dispute cannot fail for them.     *)
THEOREM ExecutionAlwaysFunded ==
    GovSpec => [](\A d \in DOMAIN voteInfo :
                     IsOpen(d) => feesBalance - FeesOf(d, 1..VoteRounds(d)) >= ExistentialDeposit)
<1> DEFINE Funded == \A d \in DOMAIN voteInfo :
                        IsOpen(d) => feesBalance - FeesOf(d, 1..VoteRounds(d)) >= ExistentialDeposit
<1>1. GovInv /\ FeesHeld => Funded
  <2> SUFFICES ASSUME GovInv, FeesHeld, NEW d \in DOMAIN voteInfo, IsOpen(d)
               PROVE  feesBalance - FeesOf(d, 1..VoteRounds(d)) >= ExistentialDeposit
    OBVIOUS
  <2>1. feesBalance = ExistentialDeposit + SumFunction(OpenFees)
    BY DEF FeesHeld, OpenFees, OpenSet
  <2>2. d \in OpenSet /\ IsFiniteSet(OpenSet) /\ DOMAIN OpenFees = OpenSet
    BY OpenFeesType DEF OpenSet
  <2>3. \A e \in OpenSet : OpenFees[e] \in Nat
    BY OpenFeesType
  <2>4. OpenFees[d] = FeesOf(d, 1..VoteRounds(d)) /\ OpenFees[d] \in Nat
    BY <2>2, OpenFeesType
  <2>5. OpenFees[d] <= SumFunctionOnSet(OpenFees, OpenSet)
    BY <2>2, <2>3, SumCovers
  <2>6. SumFunction(OpenFees) = SumFunctionOnSet(OpenFees, OpenSet)
    BY <2>2 DEF SumFunction
  <2>7. SumFunctionOnSet(OpenFees, OpenSet) \in Nat
    BY <2>2, <2>3, SumNat
  <2>8. QED
    BY <2>1, <2>4, <2>5, <2>6, <2>7, GovernanceAssumption
<1>2. QED
  BY <1>1, GovernanceInvariant, HeldCorrect, PTL

-----------------------------------------------------------------------------
(* The rounds of a dispute an account began, what it paid for them, and    *)
(* what all rounds cost.                                                   *)
Mine(d, a) == {r \in 1..VoteRounds(d) : voteInfo[d][r].initiator = a}
PaidFee(d, a) == FeesOf(d, Mine(d, a))
AllFee(d) == FeesOf(d, 1..VoteRounds(d))

(* They are natural numbers. *)
LEMMA FeesType ==
    ASSUME GovInv, NEW d \in DOMAIN voteInfo, NEW a
    PROVE  PaidFee(d, a) \in Nat /\ AllFee(d) \in Nat
<1>1. Mine(d, a) \in SUBSET (1..VoteRounds(d)) /\ 1..VoteRounds(d) \in SUBSET (1..VoteRounds(d))
  BY DEF Mine
<1>2. QED
  BY <1>1, FeesOfNat DEF PaidFee, AllFee

(* Rounds kept as they are cost the same. *)
LEMMA KeptPaid ==
    ASSUME GovInv, NEW d \in DOMAIN voteInfo, d \in DOMAIN voteInfo', NEW a,
           Len(voteInfo'[d]) = Len(voteInfo[d]),
           \A r \in 1..Len(voteInfo[d]) : /\ voteInfo'[d][r].initiator = voteInfo[d][r].initiator
                                         /\ voteInfo'[d][r].fee = voteInfo[d][r].fee
    PROVE  PaidFee(d, a)' = PaidFee(d, a) /\ AllFee(d)' = AllFee(d)
<1>1. VoteRounds(d)' = VoteRounds(d) /\ VoteRounds(d) = Len(voteInfo[d])
  BY DEF VoteRounds
<1>2. Mine(d, a)' = Mine(d, a) /\ Mine(d, a) \subseteq 1..Len(voteInfo[d])
  BY <1>1 DEF Mine
<1>3. [r \in Mine(d, a)' |-> voteInfo'[d][r].fee] = [r \in Mine(d, a) |-> voteInfo[d][r].fee]
  BY <1>2
<1>4. [r \in 1..VoteRounds(d)' |-> voteInfo'[d][r].fee] = [r \in 1..VoteRounds(d) |-> voteInfo[d][r].fee]
  BY <1>1
<1>5. PaidFee(d, a)' = PaidFee(d, a)
  BY <1>3 DEF PaidFee, FeesOf
<1>6. AllFee(d)' = AllFee(d)
  BY <1>4 DEF AllFee, FeesOf
<1>7. QED
  BY <1>5, <1>6

(* A new round costs the account that begins it its fee. *)
LEMMA OpenedPaid ==
    ASSUME GovInv, NEW b, NEW d, NEW fee \in Nat, Opened(b, d, fee), NEW a
    PROVE  PaidFee(d, a)' = (IF d \in DOMAIN voteInfo THEN PaidFee(d, a) ELSE 0)
                            + (IF a = b THEN fee ELSE 0)
<1>1. PICK n \in Nat : n = VoteRounds(d)
  BY VoteRoundsType DEF GovInv
<1>2. PICK M : M = Mine(d, a)
  OBVIOUS
<1>3. M \in SUBSET (1..n)
  BY <1>1, <1>2 DEF Mine
<1>4. /\ FeesOf(d, M)' = FeesOf(d, M) /\ FeesOf(d, M \cup {n + 1})' = FeesOf(d, M) + fee
      /\ FeesOf(d, M) \in Nat
      /\ d \notin DOMAIN voteInfo => FeesOf(d, M) = 0
  BY <1>1, <1>3, OpenedFees
<1>5. VoteRounds(d)' = n + 1
  BY <1>1 DEF Opened, VoteRounds
<1>6. /\ \A r \in 1..n : voteInfo'[d][r].initiator = voteInfo[d][r].initiator
      /\ voteInfo'[d][n + 1].initiator = b
  BY <1>1 DEF Opened, NewVote
<1>7. Mine(d, a)' = IF a = b THEN M \cup {n + 1} ELSE M
  BY <1>1, <1>2, <1>5, <1>6 DEF Mine
<1>8. PaidFee(d, a) = FeesOf(d, M)
  BY <1>2 DEF PaidFee
<1>9. CASE a = b
  <2>1. PaidFee(d, a)' = FeesOf(d, M \cup {n + 1})'
    BY <1>7, <1>9 DEF PaidFee, FeesOf
  <2>2. QED
    BY <1>4, <1>8, <1>9, <2>1
<1>10. CASE a # b
  <2>1. PaidFee(d, a)' = FeesOf(d, M)'
    BY <1>7, <1>10 DEF PaidFee, FeesOf
  <2>2. QED
    BY <1>4, <1>8, <1>10, <2>1
<1>11. QED
  BY <1>9, <1>10

(* What an account has paid for disputes not refunded, and what it has     *)
(* received for disputes that failed.                                      *)
Owing == {e \in DOMAIN voteInfo : IsOpen(e) \/ Failed(e)}
Won(a) == {e \in DOMAIN voteInfo : ~IsOpen(e) /\ Failed(e) /\ disputeInfo[e] = a}
PaidBy(a) == [d \in Owing |-> PaidFee(d, a)]
GotBy(a) == [d \in Won(a) |-> AllFee(d)]

(* Both are functions of naturals with a finite domain. *)
LEMMA SettledType ==
    ASSUME GovInv, NEW a
    PROVE  /\ DOMAIN PaidBy(a) = Owing /\ IsFiniteSet(DOMAIN PaidBy(a))
           /\ \A d \in DOMAIN PaidBy(a) : PaidBy(a)[d] = PaidFee(d, a) /\ PaidBy(a)[d] \in Nat
           /\ DOMAIN GotBy(a) = Won(a) /\ IsFiniteSet(DOMAIN GotBy(a))
           /\ \A d \in DOMAIN GotBy(a) : GotBy(a)[d] = AllFee(d) /\ GotBy(a)[d] \in Nat
           /\ SumFunction(PaidBy(a)) \in Nat /\ SumFunction(GotBy(a)) \in Nat
<1>1. Owing \subseteq DOMAIN voteInfo /\ Won(a) \subseteq DOMAIN voteInfo
  BY DEF Owing, Won
<1>2. IsFiniteSet(Owing) /\ IsFiniteSet(Won(a))
  BY <1>1, FS_Subset DEF GovInv
<1>3. /\ DOMAIN PaidBy(a) = Owing /\ \A d \in Owing : PaidBy(a)[d] = PaidFee(d, a)
      /\ DOMAIN GotBy(a) = Won(a) /\ \A d \in Won(a) : GotBy(a)[d] = AllFee(d)
  BY DEF PaidBy, GotBy
<1>4. \A d \in DOMAIN PaidBy(a) : PaidBy(a)[d] \in Nat
  BY <1>1, <1>3, FeesType
<1>5. \A d \in DOMAIN GotBy(a) : GotBy(a)[d] \in Nat
  BY <1>1, <1>3, FeesType
<1>6. SumFunction(PaidBy(a)) \in Nat
  BY <1>2, <1>3, <1>4, SumFunctionType
<1>7. SumFunction(GotBy(a)) \in Nat
  BY <1>2, <1>3, <1>5, SumFunctionType
<1>8. QED
  BY <1>2, <1>3, <1>4, <1>5, <1>6, <1>7

(* A balance as FeesSettled explains it. *)
Explained(a) == balance[a] = InitialBalance - SumFunction(PaidBy(a)) + SumFunction(GotBy(a))

(* FeesSettled, account by account, before and after a step. *)
LEMMA SettledPointwise ==
    /\ FeesSettled <=> \A a \in Account : Explained(a)
    /\ FeesSettled' <=> \A a \in Account : Explained(a)'
  BY DEF FeesSettled, Explained, PaidBy, GotBy, Owing, Won, PaidFee, AllFee, Mine

(* A step that keeps the rounds, and which disputes are open or failed,    *)
(* keeps what each account paid and received.                              *)
LEMMA SteadyFees ==
    ASSUME GovInv, RoundsKept, UNCHANGED <<disputeInfo, balance>>, NEW a \in Account, Explained(a),
           \A e \in DOMAIN voteInfo : /\ IsOpen(e)' <=> IsOpen(e)
                                      /\ ~IsOpen(e) => (Failed(e)' <=> Failed(e))
    PROVE  Explained(a)'
<1>1. DOMAIN voteInfo' = DOMAIN voteInfo
  BY DEF RoundsKept
<1>2. Owing' = Owing /\ Won(a)' = Won(a)
  BY <1>1 DEF Owing, Won
<1>3. \A d \in DOMAIN voteInfo : PaidFee(d, a)' = PaidFee(d, a) /\ AllFee(d)' = AllFee(d)
  BY <1>1, KeptPaid DEF RoundsKept
<1>4. PaidBy(a)' = PaidBy(a) /\ GotBy(a)' = GotBy(a)
  BY <1>2, <1>3 DEF PaidBy, GotBy, Owing, Won
<1>5. QED
  BY <1>4 DEF Explained

(* A new round takes its fee from the account that begins it. *)
LEMMA OpenedSettled ==
    ASSUME GovInv, NEW b \in Account, NEW d, NEW fee \in Nat, Opened(b, d, fee), TakeFee(b, fee),
           d \in DOMAIN voteInfo => ~CurrentVote(d).executed,
           \A e \in DOMAIN voteInfo \ {d} : disputeInfo'[e] = disputeInfo[e],
           NEW a \in Account, Explained(a)
    PROVE  Explained(a)'
<1> DEFINE f == PaidBy(a)
           g == PaidBy(a)'
           paid == IF a = b THEN fee ELSE 0
<1>1. DOMAIN voteInfo' = DOMAIN voteInfo \cup {d}
  BY DEF Opened
<1>2. \A e \in DOMAIN voteInfo \ {d} : voteInfo'[e] = voteInfo[e]
  BY DEF Opened
<1>3. \A e \in DOMAIN voteInfo \ {d} : (IsOpen(e)' <=> IsOpen(e)) /\ (Failed(e)' <=> Failed(e))
  BY <1>2 DEF IsOpen, Failed, CurrentVote
<1>4. IsOpen(d)'
  BY OpenedLife, OpenIsNotExecuted, <1>1 DEF Executed
<1>5. d \in DOMAIN voteInfo => IsOpen(d)
  BY DEF IsOpen
<1>6. Owing' = Owing \cup {d} /\ (d \in Owing <=> d \in DOMAIN voteInfo)
  BY <1>1, <1>3, <1>4, <1>5 DEF Owing
<1>7. Won(a)' = Won(a) /\ d \notin Won(a)
  BY <1>1, <1>3, <1>4, <1>5 DEF Won
<1>8. \A e \in DOMAIN voteInfo \ {d} : PaidFee(e, a)' = PaidFee(e, a) /\ AllFee(e)' = AllFee(e)
  BY <1>1, <1>2, KeptPaid
<1>9. GotBy(a)' = GotBy(a)
  BY <1>7, <1>8 DEF GotBy, Won
<1>10. PaidFee(d, a)' = (IF d \in DOMAIN voteInfo THEN PaidFee(d, a) ELSE 0) + paid
  BY OpenedPaid
<1>11. paid \in Nat
  OBVIOUS
<1>12. /\ DOMAIN f = Owing /\ IsFiniteSet(DOMAIN f) /\ SumFunction(f) \in Nat
       /\ \A e \in DOMAIN f : f[e] = PaidFee(e, a) /\ f[e] \in Nat
       /\ SumFunction(GotBy(a)) \in Nat
  BY SettledType
<1>13. DOMAIN g = Owing' /\ \A e \in Owing' : g[e] = PaidFee(e, a)'
  BY DEF PaidBy
<1>14. balance'[a] = balance[a] - paid /\ balance[a] \in Nat
  BY DEF TakeFee, GovInv, GovTypeOK
<1> HIDE DEF f, g, paid
<1>15. g[d] = (IF d \in DOMAIN f THEN f[d] ELSE 0) + paid /\ g[d] \in Nat
  BY <1>6, <1>10, <1>11, <1>12, <1>13
<1>16. \A e \in DOMAIN f \ {d} : g[e] = f[e]
  <2>1. DOMAIN f \subseteq DOMAIN voteInfo
    BY <1>12 DEF Owing
  <2>2. QED
    BY <1>6, <1>8, <1>12, <1>13, <2>1
<1>17. SumFunction(g) = SumFunction(f) + g[d] - (IF d \in DOMAIN f THEN f[d] ELSE 0)
  <2>1. \A e \in DOMAIN f : f[e] \in Int
    BY <1>12
  <2>2. IsFiniteSet(DOMAIN f) /\ DOMAIN g = DOMAIN f \cup {d} /\ g[d] \in Int
    BY <1>6, <1>12, <1>13, <1>15
  <2>3. QED
    BY <1>16, <2>1, <2>2, SumFunctionPut
<1>18. SumFunction(g) = SumFunction(f) + paid
  <2>1. (IF d \in DOMAIN f THEN f[d] ELSE 0) \in Nat
    BY <1>12
  <2>2. QED
    BY <1>11, <1>12, <1>15, <1>17, <2>1
<1>19. balance[a] = InitialBalance - SumFunction(f) + SumFunction(GotBy(a))
  BY DEF Explained, f
<1>20. balance'[a] = InitialBalance - SumFunction(g) + SumFunction(GotBy(a))
  BY <1>11, <1>12, <1>14, <1>18, <1>19, GovernanceAssumption
<1>21. QED
  BY <1>9, <1>20 DEF Explained, g

(* An execution pays the reporter all fees if the dispute failed, and      *)
(* gives each account back its own otherwise.                              *)
LEMMA ExecuteSettled ==
    ASSUME GovInv, NEW d \in DOMAIN voteInfo, ReportVoteExecuted(d), NEW a \in Account, Explained(a)
    PROVE  Explained(a)'
<1> DEFINE R == {r \in 1..VoteRounds(d) : FeeRecipient(d, r) = a}
<1>1. /\ RoundsKept /\ Executed' = Executed \cup {d} /\ d \notin Executed
      /\ \A e \in DOMAIN voteInfo \ {d} : voteInfo'[e] = voteInfo[e]
      /\ CurrentVote(d)'.result = CurrentVote(d).result
      /\ UNCHANGED disputeInfo
  BY ExecuteFacts
<1>2. DOMAIN voteInfo' = DOMAIN voteInfo
  BY <1>1 DEF RoundsKept
<1>3. balance'[a] = balance[a] + FeesOf(d, R) /\ balance[a] \in Nat
  BY DEF ReportVoteExecuted, GovInv, GovTypeOK
<1>4. \A e \in DOMAIN voteInfo \ {d} : (IsOpen(e)' <=> IsOpen(e)) /\ (Failed(e)' <=> Failed(e))
  BY <1>1 DEF IsOpen, Failed, CurrentVote
<1>5. IsOpen(d) /\ ~IsOpen(d)' /\ (Failed(d)' <=> Failed(d))
  BY <1>1, <1>2, OpenIsNotExecuted DEF Failed
<1>6. \A e \in DOMAIN voteInfo : PaidFee(e, a)' = PaidFee(e, a) /\ AllFee(e)' = AllFee(e)
  BY <1>1, <1>2, KeptPaid DEF RoundsKept
<1>7. PaidFee(d, a) \in Nat /\ AllFee(d) \in Nat
  BY FeesType
<1>8. /\ DOMAIN PaidBy(a) = Owing /\ IsFiniteSet(DOMAIN PaidBy(a)) /\ SumFunction(PaidBy(a)) \in Nat
      /\ \A e \in DOMAIN PaidBy(a) : PaidBy(a)[e] = PaidFee(e, a) /\ PaidBy(a)[e] \in Nat
      /\ DOMAIN GotBy(a) = Won(a) /\ IsFiniteSet(DOMAIN GotBy(a)) /\ SumFunction(GotBy(a)) \in Nat
      /\ \A e \in DOMAIN GotBy(a) : GotBy(a)[e] = AllFee(e) /\ GotBy(a)[e] \in Nat
  BY SettledType
<1>9. balance[a] = InitialBalance - SumFunction(PaidBy(a)) + SumFunction(GotBy(a))
  BY DEF Explained
<1>10. CASE Failed(d)
  <2>1. Owing' = Owing /\ d \notin Won(a)
    BY <1>2, <1>4, <1>5, <1>10 DEF Owing, Won
  <2>2. PaidBy(a)' = PaidBy(a)
    BY <1>6, <2>1 DEF PaidBy, Owing
  <2>3. R = IF disputeInfo[d] = a THEN 1..VoteRounds(d) ELSE {}
    BY <1>10 DEF FeeRecipient, Failed
  <2>4. CASE disputeInfo[d] = a
    <3> DEFINE f == GotBy(a)
               g == GotBy(a)'
    <3>1. Won(a)' = Won(a) \cup {d}
      BY <1>1, <1>2, <1>4, <1>5, <1>10, <2>4 DEF Won
    <3>2. DOMAIN g = Won(a) \cup {d} /\ \A e \in Won(a) \cup {d} : g[e] = AllFee(e)'
      BY <3>1 DEF GotBy
    <3>3. Won(a) \subseteq DOMAIN voteInfo
      BY DEF Won
    <3> HIDE DEF f, g
    <3>4. g[d] = AllFee(d)
      BY <1>6, <3>2
    <3>5. \A e \in DOMAIN f \ {d} : g[e] = f[e]
      BY <1>6, <1>8, <3>2, <3>3 DEF f
    <3>6. \A e \in DOMAIN f : f[e] \in Int
      BY <1>8 DEF f
    <3>7. IsFiniteSet(DOMAIN f) /\ DOMAIN g = DOMAIN f \cup {d} /\ g[d] \in Int /\ d \notin DOMAIN f
      BY <1>7, <1>8, <2>1, <3>2, <3>4 DEF f
    <3>8. SumFunction(g) = SumFunction(f) + g[d] - (IF d \in DOMAIN f THEN f[d] ELSE 0)
      <4>1. IsFiniteSet(DOMAIN f) /\ DOMAIN g = DOMAIN f \cup {d} /\ g[d] \in Int
        BY <3>7
      <4> HIDE DEF R
      <4>2. QED
        BY <3>5, <3>6, <4>1, SumFunctionPut
    <3>9. SumFunction(f) \in Nat
      BY <1>8 DEF f
    <3>10. SumFunction(g) = SumFunction(f) + AllFee(d)
      BY <1>7, <3>4, <3>7, <3>8, <3>9
    <3>11. FeesOf(d, R) = AllFee(d)
      BY <2>3, <2>4 DEF AllFee
    <3>12. balance'[a] = InitialBalance - SumFunction(PaidBy(a)) + SumFunction(g)
      BY <1>3, <1>7, <1>8, <1>9, <3>9, <3>10, <3>11, GovernanceAssumption DEF f
    <3>13. QED
      BY <2>2, <3>12 DEF Explained, g
  <2>5. CASE disputeInfo[d] # a
    <3>1. Won(a)' = Won(a)
      BY <1>1, <1>2, <1>4, <1>5, <2>5 DEF Won
    <3>2. GotBy(a)' = GotBy(a)
      BY <1>6, <3>1 DEF GotBy, Won
    <3>3. FeesOf(d, R) = 0
      <4>1. DOMAIN [r \in R |-> voteInfo[d][r].fee] = {}
        BY <2>3, <2>5
      <4>2. QED
        BY <4>1, SumFunctionEmpty DEF FeesOf
    <3>4. balance'[a] = balance[a]
      BY <1>3, <3>3
    <3>5. QED
      BY <1>9, <2>2, <3>2, <3>4 DEF Explained
  <2>6. QED
    BY <2>4, <2>5
<1>11. CASE ~Failed(d)
  <2> DEFINE f == PaidBy(a)
             g == PaidBy(a)'
  <2>1. Owing' = Owing \ {d} /\ d \in Owing
    BY <1>2, <1>4, <1>5, <1>11 DEF Owing
  <2>2. Won(a)' = Won(a)
    BY <1>1, <1>2, <1>4, <1>5, <1>11 DEF Won
  <2>3. GotBy(a)' = GotBy(a)
    BY <1>6, <2>2 DEF GotBy, Won
  <2>4. R = Mine(d, a)
    BY <1>11 DEF FeeRecipient, Failed, Mine
  <2>5. FeesOf(d, R) = PaidFee(d, a)
    BY <2>4 DEF PaidFee
  <2>6. DOMAIN g = Owing \ {d} /\ \A e \in Owing \ {d} : g[e] = PaidFee(e, a)'
    BY <2>1 DEF PaidBy
  <2>7. Owing \subseteq DOMAIN voteInfo
    BY DEF Owing
  <2> HIDE DEF f, g
  <2>8. \A e \in DOMAIN g : g[e] = f[e]
    BY <1>6, <1>8, <2>6, <2>7 DEF f
  <2>9. \A e \in DOMAIN f : f[e] \in Int
    BY <1>8 DEF f
  <2>10. IsFiniteSet(DOMAIN f) /\ DOMAIN g = DOMAIN f \ {d} /\ d \in DOMAIN f
    BY <1>8, <2>1, <2>6 DEF f
  <2>11. SumFunction(g) = SumFunction(f) - f[d]
    BY <2>8, <2>9, <2>10, SumFunctionDrop
  <2>12. f[d] = PaidFee(d, a) /\ SumFunction(f) \in Nat
    BY <1>8, <2>10 DEF f
  <2>13. balance'[a] = InitialBalance - SumFunction(g) + SumFunction(GotBy(a))
    BY <1>3, <1>7, <1>8, <1>9, <2>5, <2>11, <2>12, GovernanceAssumption DEF f
  <2>14. QED
    BY <2>3, <2>13 DEF Explained, g
<1>12. QED
  BY <1>10, <1>11

(* Every balance stays explained. *)
LEMMA SettledStep == GovInv /\ FeesSettled /\ [GovNext]_vars => FeesSettled'
<1> SUFFICES ASSUME GovInv, FeesSettled, [GovNext]_vars, NEW a \in Account PROVE Explained(a)'
  BY SettledPointwise
<1>1. Explained(a)
  BY SettledPointwise
<1>2. CASE Submit \/ Voting \/ Sending \/ Block \/ UNCHANGED vars
  <2>1. Quiet
    BY <1>2, QuietSteps
  <2>2. ASSUME NEW e \in DOMAIN voteInfo
        PROVE  (IsOpen(e)' <=> IsOpen(e)) /\ (Failed(e)' <=> Failed(e))
    <3>1. Len(voteInfo'[e]) = Len(voteInfo[e]) /\ Len(voteInfo[e]) \in 1..Len(voteInfo[e])
      BY <2>1, DisputeFacts DEF Quiet, RoundsKept
    <3>2. SameOutcome(e, Len(voteInfo[e]))
      BY <2>1, <3>1 DEF Quiet
    <3>3. QED
      BY <3>1, <3>2 DEF SameOutcome, IsOpen, Failed, CurrentVote
  <2>3. QED
    BY <1>1, <2>1, <2>2, SteadyFees DEF Quiet
<1>3. CASE \E b \in Account, q \in QueryId : \E t \in DOMAIN reports[q] : BeginDispute(b, q, t)
  <2>1. PICK b \in Account, q \in QueryId : \E t \in DOMAIN reports[q] : BeginDispute(b, q, t)
    BY <1>3
  <2>2. PICK t \in DOMAIN reports[q] : BeginDispute(b, q, t)
    BY <2>1
  <2> DEFINE d == <<q, t>>
             fee == RoundFee(openDisputes[q])
  <2>3. /\ d \notin DOMAIN voteInfo /\ fee \in Nat /\ Opened(b, d, fee) /\ TakeFee(b, fee)
        /\ disputeInfo' = Put(disputeInfo, d, reports[q][t].reporter)
    BY <2>2, BeginFacts
  <2>4. disputeInfo \in [DOMAIN voteInfo -> Account]
    BY DEF GovInv, GovTypeOK
  <2> HIDE DEF d, fee
  <2>5. \A e \in DOMAIN voteInfo \ {d} : disputeInfo'[e] = disputeInfo[e]
    BY <2>3, <2>4 DEF Put
  <2>6. QED
    BY <1>1, <2>3, <2>5, OpenedSettled
<1>4. CASE \E b \in Account, d \in DOMAIN voteInfo : BeginNextRound(b, d)
  <2>1. PICK b \in Account, d \in DOMAIN voteInfo : BeginNextRound(b, d)
    BY <1>4
  <2> DEFINE fee == RoundFee(VoteRounds(d))
  <2>2. /\ fee \in Nat /\ Opened(b, d, fee) /\ TakeFee(b, fee) /\ ~CurrentVote(d).executed
        /\ UNCHANGED disputeInfo
    BY <2>1, NextRoundFacts
  <2> HIDE DEF fee
  <2>3. QED
    BY <1>1, <2>2, OpenedSettled
<1>5. CASE \E d \in DOMAIN voteInfo, result \in VoteResult : ReportVoteTallied(d, result)
  <2>1. PICK d \in DOMAIN voteInfo, result \in VoteResult : ReportVoteTallied(d, result)
    BY <1>5
  <2>2. /\ RoundsKept /\ Executed' = Executed /\ d \notin Executed
        /\ \A e \in DOMAIN voteInfo \ {d} : voteInfo'[e] = voteInfo[e]
        /\ UNCHANGED <<disputeInfo, balance>>
    BY <2>1, TallyFacts
  <2>3. \A e \in DOMAIN voteInfo : IsOpen(e)' <=> IsOpen(e)
    BY <2>2, OpenIsNotExecuted DEF RoundsKept
  <2>4. \A e \in DOMAIN voteInfo : ~IsOpen(e) => (Failed(e)' <=> Failed(e))
    <3>1. IsOpen(d)
      BY <2>2, OpenIsNotExecuted
    <3>2. \A e \in DOMAIN voteInfo \ {d} : Failed(e)' <=> Failed(e)
      BY <2>2 DEF Failed, CurrentVote
    <3>3. QED
      BY <3>1, <3>2
  <2>5. QED
    BY <1>1, <2>2, <2>3, <2>4, SteadyFees
<1>6. CASE \E d \in DOMAIN voteInfo : ReportVoteExecuted(d)
  BY <1>1, <1>6, ExecuteSettled
<1>7. QED
  BY <1>2, <1>3, <1>4, <1>5, <1>6 DEF GovNext, Dispute, Controller

(* No fee is lost, paid twice or paid to the wrong account: each account's *)
(* balance is its initial one, less the fees of the rounds it began and    *)
(* was not refunded, plus the fees of the failed disputes of its reports.  *)
THEOREM SettledFees == GovSpec => []FeesSettled
<1>1. GovInit => FeesSettled
  <2> SUFFICES ASSUME GovInit, NEW a \in Account PROVE Explained(a)
    BY SettledPointwise
  <2>1. DOMAIN PaidBy(a) = {} /\ DOMAIN GotBy(a) = {}
    BY DEF GovInit, PaidBy, GotBy, Owing, Won
  <2>2. SumFunction(PaidBy(a)) = 0 /\ SumFunction(GotBy(a)) = 0
    BY <2>1, SumFunctionEmpty
  <2>3. QED
    BY <2>2, GovernanceAssumption DEF GovInit, Explained
<1>2. QED
  BY <1>1, SettledStep, GovernanceInvariant, PTL DEF GovSpec

-----------------------------------------------------------------------------
(* The begins among the first i messages of o, the vote messages of o, and *)
(* the rounds of v that were sent.                                         *)
BeginSet(o, i) == {j \in 1..i : o[j].kind = "begin"}
BeginsAt(o, i) == Cardinality(BeginSet(o, i))
VotesIn(o) == {i \in 1..Len(o) : o[i].kind = "vote"}
SentIn(v) == {r \in 1..Len(v) : v[r].sent}

(* VoteMessagesMatchRounds, for the messages o and the rounds v of one     *)
(* dispute.                                                                *)
Matches(o, v) ==
    /\ BeginsAt(o, Len(o)) = Len(v)
    /\ {BeginsAt(o, i) : i \in VotesIn(o)} = SentIn(v)
    /\ Cardinality(VotesIn(o)) = Cardinality(SentIn(v))
    /\ \A i \in VotesIn(o) : o[i] = VoteMessage(v[BeginsAt(o, i)])

(* The two say the same, before and after a step. *)
LEMMA MatchesPointwise ==
    /\ VoteMessagesMatchRounds <=> \A d \in DOMAIN voteInfo : Matches(outbox[d], voteInfo[d])
    /\ VoteMessagesMatchRounds' <=> \A d \in DOMAIN voteInfo' : Matches(outbox'[d], voteInfo'[d])
  BY DEF VoteMessagesMatchRounds, Matches, BeginsAt, BeginSet, VotesIn, SentIn

(* A further message leaves the count before it alone, and counts itself   *)
(* if it is a begin.                                                       *)
LEMMA BeginsAppend ==
    ASSUME NEW o \in Seq(Message), NEW m \in Message
    PROVE  LET p == Append(o, m)
           IN /\ p \in Seq(Message) /\ Len(p) = Len(o) + 1 /\ p[Len(o) + 1] = m
              /\ \A i \in 1..Len(o) : p[i] = o[i]
              /\ \A i \in 0..Len(o) : BeginsAt(p, i) = BeginsAt(o, i) /\ BeginsAt(o, i) \in Nat
              /\ m.kind = "begin" => BeginsAt(p, Len(p)) = BeginsAt(o, Len(o)) + 1
              /\ m.kind # "begin" => BeginsAt(p, Len(p)) = BeginsAt(o, Len(o))
<1> DEFINE p == Append(o, m)
           n == Len(o)
<1>1. /\ p \in Seq(Message) /\ Len(p) = n + 1 /\ p[n + 1] = m /\ n \in Nat
      /\ \A i \in 1..n : p[i] = o[i]
  BY AppendProperties
<1> HIDE DEF p, n
<1>2. \A i \in 0..n : BeginSet(p, i) = BeginSet(o, i)
  BY <1>1 DEF BeginSet
<1>3. \A i \in 0..n : IsFiniteSet(BeginSet(o, i))
  <2> SUFFICES ASSUME NEW i \in 0..n PROVE IsFiniteSet(BeginSet(o, i))
    OBVIOUS
  <2>1. BeginSet(o, i) \subseteq 1..i /\ i \in Int /\ 1 \in Int
    BY <1>1 DEF BeginSet
  <2>2. IsFiniteSet(1..i)
    BY <2>1, FS_Interval
  <2>3. QED
    BY <2>1, <2>2, FS_Subset
<1>4. \A i \in 0..n : BeginsAt(p, i) = BeginsAt(o, i) /\ BeginsAt(o, i) \in Nat
  BY <1>2, <1>3, FS_CardinalityType DEF BeginsAt
<1>5. ASSUME m.kind = "begin" PROVE BeginsAt(p, n + 1) = BeginsAt(o, n) + 1
  <2>1. BeginSet(p, n + 1) = BeginSet(o, n) \cup {n + 1}
    BY <1>1, <1>5 DEF BeginSet
  <2>2. n + 1 \notin BeginSet(o, n) /\ IsFiniteSet(BeginSet(o, n))
    BY <1>1, <1>3 DEF BeginSet
  <2>3. QED
    BY <2>1, <2>2, FS_AddElement DEF BeginsAt
<1>6. ASSUME m.kind # "begin" PROVE BeginsAt(p, n + 1) = BeginsAt(o, n)
  <2>1. BeginSet(p, n + 1) = BeginSet(o, n)
    BY <1>1, <1>6 DEF BeginSet
  <2>2. QED
    BY <2>1 DEF BeginsAt
<1>7. QED
  BY <1>1, <1>4, <1>5, <1>6 DEF p, n

(* A begin goes with a new round that is not sent. *)
LEMMA MatchBegin ==
    ASSUME NEW o \in Seq(Message), NEW v \in Seq(Vote), NEW w \in Seq(Vote), Matches(o, v),
           Len(w) = Len(v) + 1, ~w[Len(v) + 1].sent, \A r \in 1..Len(v) : w[r] = v[r]
    PROVE  Matches(Append(o, [kind |-> "begin"]), w)
<1> DEFINE m == [kind |-> "begin"]
           p == Append(o, m)
<1>1. m \in Message /\ m.kind = "begin" /\ m.kind # "vote"
  BY DEF Message
<1>2. /\ Len(p) = Len(o) + 1 /\ p[Len(o) + 1] = m /\ Len(o) \in Nat
      /\ \A i \in 1..Len(o) : p[i] = o[i]
      /\ \A i \in 0..Len(o) : BeginsAt(p, i) = BeginsAt(o, i)
      /\ BeginsAt(p, Len(p)) = BeginsAt(o, Len(o)) + 1
  <2> HIDE DEF m
  <2>1. QED
    BY <1>1, BeginsAppend
<1> HIDE DEF p
<1>3. VotesIn(p) = VotesIn(o) /\ VotesIn(o) \subseteq 1..Len(o)
  BY <1>1, <1>2 DEF VotesIn
<1>4. SentIn(w) = SentIn(v) /\ SentIn(v) \subseteq 1..Len(v)
  <2>1. Len(v) \in Nat
    OBVIOUS
  <2>2. QED
    BY <2>1 DEF SentIn
<1>5. \A i \in VotesIn(o) : BeginsAt(p, i) = BeginsAt(o, i) /\ BeginsAt(o, i) \in SentIn(v)
  BY <1>2, <1>3 DEF Matches
<1>6. {BeginsAt(p, i) : i \in VotesIn(p)} = SentIn(w)
  BY <1>3, <1>4, <1>5 DEF Matches
<1>7. \A i \in VotesIn(p) : p[i] = VoteMessage(w[BeginsAt(p, i)])
  BY <1>2, <1>3, <1>4, <1>5 DEF Matches
<1>8. BeginsAt(p, Len(p)) = Len(w) /\ Cardinality(VotesIn(p)) = Cardinality(SentIn(w))
  BY <1>2, <1>3, <1>4 DEF Matches
<1>9. Matches(p, w)
  BY <1>6, <1>7, <1>8 DEF Matches
<1>10. QED
  BY <1>9 DEF p

(* A vote message goes with the current round, sent now. *)
LEMMA MatchSend ==
    ASSUME NEW o \in Seq(Message), NEW v \in Seq(Vote), NEW w \in Seq(Vote), Matches(o, v),
           Len(w) = Len(v), Len(v) >= 1, ~v[Len(v)].sent,
           \A r \in 1..Len(v) : /\ w[r].users = v[r].users /\ w[r].reporters = v[r].reporters
                                /\ w[r].sent <=> (v[r].sent \/ r = Len(v))
    PROVE  Matches(Append(o, VoteMessage(v[Len(v)])), w)
<1> DEFINE n == Len(v)
           m == VoteMessage(v[n])
           p == Append(o, m)
           k == Len(o) + 1
<1>1. n \in Nat /\ n \in 1..n /\ v[n] \in Vote
  OBVIOUS
<1>2. m \in Message /\ m.kind = "vote" /\ m.kind # "begin"
  BY <1>1 DEF VoteMessage, Message, Vote
<1>3. /\ Len(p) = k /\ p[k] = m /\ Len(o) \in Nat
      /\ \A i \in 1..Len(o) : p[i] = o[i]
      /\ \A i \in 0..Len(o) : BeginsAt(p, i) = BeginsAt(o, i)
      /\ BeginsAt(p, k) = BeginsAt(o, Len(o))
  <2> HIDE DEF m
  <2>1. QED
    BY <1>2, BeginsAppend
<1>4. BeginsAt(p, k) = n
  BY <1>3 DEF Matches
<1>5. \A r \in 1..n : VoteMessage(w[r]) = VoteMessage(v[r])
  BY DEF VoteMessage
<1> HIDE DEF p
<1>6. VotesIn(p) = VotesIn(o) \cup {k} /\ k \notin VotesIn(o) /\ VotesIn(o) \subseteq 1..Len(o)
  <2> HIDE DEF m
  <2>1. QED
    BY <1>2, <1>3 DEF VotesIn
<1>7. SentIn(w) = SentIn(v) \cup {n} /\ n \notin SentIn(v) /\ SentIn(v) \subseteq 1..n
  BY <1>1 DEF SentIn
<1>8. \A i \in VotesIn(o) : BeginsAt(p, i) = BeginsAt(o, i) /\ BeginsAt(o, i) \in SentIn(v)
  BY <1>3, <1>6 DEF Matches
<1> HIDE DEF n, k
<1>9. {BeginsAt(p, i) : i \in VotesIn(p)} = SentIn(w)
  <2>1. {BeginsAt(p, i) : i \in VotesIn(p)} = {BeginsAt(p, i) : i \in VotesIn(o)} \cup {BeginsAt(p, k)}
    BY <1>6
  <2>2. {BeginsAt(p, i) : i \in VotesIn(o)} = SentIn(v)
    BY <1>8 DEF Matches
  <2>3. QED
    BY <1>4, <1>7, <2>1, <2>2
<1>10. ASSUME NEW i \in VotesIn(p) PROVE p[i] = VoteMessage(w[BeginsAt(p, i)])
  <2>1. CASE i = k
    BY <1>1, <1>3, <1>4, <1>5, <2>1
  <2>2. CASE i \in VotesIn(o)
    <3>1. o[i] = VoteMessage(v[BeginsAt(o, i)]) /\ p[i] = o[i]
      BY <1>3, <1>6, <2>2 DEF Matches
    <3>2. BeginsAt(p, i) = BeginsAt(o, i) /\ BeginsAt(o, i) \in 1..n
      BY <1>7, <1>8, <2>2
    <3>3. QED
      BY <1>5, <3>1, <3>2
  <2>3. QED
    BY <1>6, <2>1, <2>2
<1>11. Cardinality(VotesIn(p)) = Cardinality(SentIn(w))
  <2>1. IsFiniteSet(VotesIn(o))
    <3>1. IsFiniteSet(1..Len(o))
      BY <1>3, FS_Interval
    <3>2. QED
      BY <1>6, <3>1, FS_Subset
  <2>2. IsFiniteSet(SentIn(v))
    <3>1. IsFiniteSet(1..n)
      BY <1>1, FS_Interval
    <3>2. QED
      BY <1>7, <3>1, FS_Subset
  <2>3. Cardinality(VotesIn(o) \cup {k}) = Cardinality(VotesIn(o)) + 1
    BY <1>6, <2>1, FS_AddElement
  <2>4. Cardinality(SentIn(v) \cup {n}) = Cardinality(SentIn(v)) + 1
    BY <1>7, <2>2, FS_AddElement
  <2>5. Cardinality(VotesIn(o)) = Cardinality(SentIn(v))
    BY DEF Matches
  <2>6. QED
    BY <1>6, <1>7, <2>3, <2>4, <2>5
<1>12. BeginsAt(p, Len(p)) = Len(w)
  BY <1>3, <1>4 DEF n, k
<1>13. Matches(p, w)
  BY <1>9, <1>10, <1>11, <1>12 DEF Matches
<1>14. QED
  BY <1>13 DEF p, n

(* Rounds may change while their votes are not sent. *)
LEMMA MatchKept ==
    ASSUME NEW o, NEW v, NEW w, Matches(o, v), Len(w) = Len(v),
           \A r \in 1..Len(v) : /\ w[r].sent <=> v[r].sent
                                /\ v[r].sent => /\ w[r].users = v[r].users
                                                /\ w[r].reporters = v[r].reporters
    PROVE  Matches(o, w)
<1>1. SentIn(w) = SentIn(v)
  BY DEF SentIn
<1>2. \A r \in SentIn(v) : VoteMessage(w[r]) = VoteMessage(v[r])
  BY DEF VoteMessage, SentIn
<1>3. \A i \in VotesIn(o) : BeginsAt(o, i) \in SentIn(v)
  BY DEF Matches
<1>4. QED
  BY <1>1, <1>2, <1>3 DEF Matches

(* A dispute that does not exist yet has no message and no round. *)
LEMMA MatchNone == Matches(<<>>, <<>>)
<1>1. BeginSet(<<>>, Len(<<>>)) = {} /\ VotesIn(<<>>) = {} /\ SentIn(<<>>) = {}
  BY DEF BeginSet, VotesIn, SentIn
<1>2. BeginsAt(<<>>, Len(<<>>)) = 0
  BY <1>1, FS_EmptySet DEF BeginsAt
<1>3. {BeginsAt(<<>>, i) : i \in VotesIn(<<>>)} = SentIn(<<>>)
  BY <1>1
<1>4. QED
  BY <1>1, <1>2, <1>3 DEF Matches

(* Opening a round tells the governance contract. *)
LEMMA OpenMatches ==
    ASSUME GovInv, NEW a \in Account, NEW d \in DisputeId, NEW fee \in Nat, OpenRound(a, d, fee),
           \A e \in DOMAIN voteInfo : Matches(outbox[e], voteInfo[e])
    PROVE  \A e \in DOMAIN voteInfo' : Matches(outbox'[e], voteInfo'[e])
<1> DEFINE m == [kind |-> "begin"]
<1>1. Opened(a, d, fee)
  BY OpenTypes
<1>2. outbox' = Put(outbox, d, IF VoteRounds(d) = 0 THEN <<m>> ELSE Append(outbox[d], m))
  BY DEF OpenRound
<1>3. outbox \in [DOMAIN voteInfo -> Seq(Message)]
  BY DEF GovInv, GovTypeOK
<1> HIDE DEF m
<1>4. ASSUME NEW e \in DOMAIN voteInfo \ {d} PROVE Matches(outbox'[e], voteInfo'[e])
  <2>1. outbox'[e] = outbox[e] /\ voteInfo'[e] = voteInfo[e]
    BY <1>1, <1>2, <1>3 DEF Put, Opened
  <2>2. QED
    BY <2>1
<1>5. Matches(outbox'[d], voteInfo'[d])
  <2>1. PICK o \in Seq(Message), v \in Seq(Vote) :
           /\ Matches(o, v) /\ Len(v) = VoteRounds(d)
           /\ \A r \in 1..Len(v) : voteInfo[d][r] = v[r]
           /\ outbox'[d] = Append(o, m)
    <3>1. outbox'[d] = IF VoteRounds(d) = 0 THEN <<m>> ELSE Append(outbox[d], m)
      BY <1>2 DEF Put
    <3>2. CASE d \in DOMAIN voteInfo
      <4>1. outbox[d] \in Seq(Message) /\ voteInfo[d] \in Seq(Vote) /\ Len(voteInfo[d]) = VoteRounds(d)
        BY <1>3, <3>2, DisputeFacts
      <4>2. VoteRounds(d) # 0
        BY <3>2, DisputeFacts
      <4>3. Matches(outbox[d], voteInfo[d])
        BY <3>2
      <4>4. QED
        BY <3>1, <4>1, <4>2, <4>3
    <3>3. CASE d \notin DOMAIN voteInfo
      <4>1. VoteRounds(d) = 0
        BY <3>3 DEF VoteRounds
      <4>2. <<>> \in Seq(Message) /\ <<>> \in Seq(Vote) /\ Len(<<>>) = 0 /\ Append(<<>>, m) = <<m>>
        OBVIOUS
      <4> DEFINE none == <<>>
      <4>3. outbox'[d] = Append(none, m)
        BY <3>1, <4>1, <4>2
      <4>4. none \in Seq(Message) /\ none \in Seq(Vote) /\ Len(none) = VoteRounds(d) /\ Matches(none, none)
        BY <4>1, <4>2, MatchNone
      <4>5. \A r \in 1..Len(none) : voteInfo[d][r] = none[r]
        OBVIOUS
      <4> HIDE DEF none
      <4>6. QED
        BY <4>3, <4>4, <4>5
    <3>4. QED
      BY <3>2, <3>3
  <2>2. /\ voteInfo'[d] \in Seq(Vote) /\ Len(voteInfo'[d]) = Len(v) + 1
        /\ ~voteInfo'[d][Len(v) + 1].sent
    BY <1>1, <2>1 DEF Opened, NewVote
  <2>3. \A r \in 1..Len(v) : voteInfo'[d][r] = v[r]
    BY <1>1, <2>1 DEF Opened
  <2>4. Matches(Append(o, m), voteInfo'[d])
    BY <2>1, <2>2, <2>3, MatchBegin DEF m
  <2>5. QED
    BY <2>1, <2>4
<1>6. DOMAIN voteInfo' = DOMAIN voteInfo \cup {d}
  BY <1>1 DEF Opened
<1>7. QED
  BY <1>4, <1>5, <1>6

(* A vote changes no round that was sent. *)
LEMMA VoteKeepsSent ==
    ASSUME GovInv, NEW a, NEW ballots, VoteOnMultipleDisputes(a, ballots),
           NEW d \in DOMAIN voteInfo, NEW r \in 1..Len(voteInfo[d]), voteInfo[d][r].sent
    PROVE  voteInfo'[d][r] = voteInfo[d][r]
<1>1. DOMAIN voteInfo[d] = 1..Len(voteInfo[d])
  BY DisputeFacts
<1>2. d \in DOMAIN ballots => r # Len(voteInfo[d])
  BY DEF VoteOnMultipleDisputes, MayVote, CurrentVote
<1>3. QED
  BY <1>1, <1>2 DEF VoteOnMultipleDisputes

(* Sending a batch sends, for each dispute of it, the votes of the round   *)
(* whose begin was the last message.                                       *)
LEMMA SendMatches ==
    ASSUME GovInv, NEW accepted \in SUBSET Due, SendBatch(accepted), NEW d \in DOMAIN voteInfo,
           Matches(outbox[d], voteInfo[d])
    PROVE  Matches(outbox'[d], voteInfo'[d])
<1>1. /\ RoundsKept
      /\ \A r \in 1..Len(voteInfo[d]) :
            /\ voteInfo'[d][r].users = voteInfo[d][r].users
            /\ voteInfo'[d][r].reporters = voteInfo[d][r].reporters
            /\ voteInfo'[d][r].sent <=> \/ voteInfo[d][r].sent
                                        \/ d \in Sent(accepted) /\ r = pendingVotes[d].round
  BY SendEffect DEF GovInv
<1>2. /\ voteInfo[d] \in Seq(Vote) /\ Len(voteInfo[d]) >= 1
      /\ voteInfo'[d] \in Seq(Vote) /\ Len(voteInfo'[d]) = Len(voteInfo[d])
      /\ outbox \in [DOMAIN voteInfo -> Seq(Message)]
  BY <1>1, DisputeFacts DEF RoundsKept, GovInv, GovTypeOK
<1>3. outbox'[d] = IF d \in Sent(accepted)
                   THEN Append(outbox[d], VoteMessage(voteInfo[d][pendingVotes[d].round]))
                   ELSE outbox[d]
  BY <1>2 DEF SendBatch, Sent
<1>4. CASE d \in Sent(accepted)
  <2>1. pendingVotes[d].round = Len(voteInfo[d]) /\ ~voteInfo[d][Len(voteInfo[d])].sent
    <3>1. d \in DOMAIN pendingVotes
      BY <1>4 DEF Sent, Due
    <3>2. QED
      BY <3>1, DisputeFacts DEF GovInv, PendingIffUnsent
  <2>2. outbox'[d] = Append(outbox[d], VoteMessage(voteInfo[d][Len(voteInfo[d])]))
    BY <1>3, <1>4, <2>1
  <2>3. outbox[d] \in Seq(Message)
    BY <1>2
  <2>4. \A r \in 1..Len(voteInfo[d]) :
           /\ voteInfo'[d][r].users = voteInfo[d][r].users
           /\ voteInfo'[d][r].reporters = voteInfo[d][r].reporters
           /\ voteInfo'[d][r].sent <=> (voteInfo[d][r].sent \/ r = Len(voteInfo[d]))
    BY <1>1, <1>4, <2>1
  <2>5. Matches(Append(outbox[d], VoteMessage(voteInfo[d][Len(voteInfo[d])])), voteInfo'[d])
    BY <1>2, <2>1, <2>3, <2>4, MatchSend
  <2>6. QED
    BY <2>2, <2>5
<1>5. CASE d \notin Sent(accepted)
  <2>1. outbox'[d] = outbox[d]
    BY <1>3, <1>5
  <2>2. \A r \in 1..Len(voteInfo[d]) :
           /\ voteInfo'[d][r].users = voteInfo[d][r].users
           /\ voteInfo'[d][r].reporters = voteInfo[d][r].reporters
           /\ voteInfo'[d][r].sent <=> voteInfo[d][r].sent
    BY <1>1, <1>5
  <2>3. Matches(outbox[d], voteInfo'[d])
    BY <1>2, <2>2, MatchKept
  <2>4. QED
    BY <2>1, <2>3
<1>6. QED
  BY <1>4, <1>5

(* Every step keeps messages and rounds matched. *)
LEMMA MatchStep == GovInv /\ VoteMessagesMatchRounds /\ [GovNext]_vars => VoteMessagesMatchRounds'
<1> SUFFICES ASSUME GovInv, VoteMessagesMatchRounds, [GovNext]_vars
             PROVE  \A d \in DOMAIN voteInfo' : Matches(outbox'[d], voteInfo'[d])
  BY MatchesPointwise
<1>1. \A d \in DOMAIN voteInfo : Matches(outbox[d], voteInfo[d])
  BY MatchesPointwise
<1>2. CASE Submit \/ UNCHANGED vars
  BY <1>1, <1>2 DEF Submit, vars, govVars
<1>3. CASE \E a \in Account, q \in QueryId : \E t \in DOMAIN reports[q] : BeginDispute(a, q, t)
  <2>1. PICK a \in Account, q \in QueryId : \E t \in DOMAIN reports[q] : BeginDispute(a, q, t)
    BY <1>3
  <2>2. PICK t \in DOMAIN reports[q] : BeginDispute(a, q, t)
    BY <2>1
  <2> DEFINE d == <<q, t>>
             fee == RoundFee(openDisputes[q])
  <2>3. fee \in Nat
    BY <2>2, BeginFacts
  <2>4. OpenRound(a, d, fee)
    BY <2>2 DEF BeginDispute
  <2>5. d \in DisputeId
    BY DEF DisputeId, GovInv, GovTypeOK, ReportsTypeOK
  <2> HIDE DEF d, fee
  <2>6. QED
    BY <1>1, <2>3, <2>4, <2>5, OpenMatches
<1>4. CASE \E a \in Account, d \in DOMAIN voteInfo : BeginNextRound(a, d)
  <2>1. PICK a \in Account, d \in DOMAIN voteInfo : BeginNextRound(a, d)
    BY <1>4
  <2> DEFINE fee == RoundFee(VoteRounds(d))
  <2>2. fee \in Nat
    BY <2>1, NextRoundFacts
  <2>3. OpenRound(a, d, fee) /\ d \in DisputeId
    BY <2>1, DisputeFacts DEF BeginNextRound
  <2> HIDE DEF fee
  <2>4. QED
    BY <1>1, <2>2, <2>3, OpenMatches
<1>5. CASE Voting
  <2>1. PICK a, ballots :
           /\ a \in Account
           /\ \A d \in DOMAIN ballots : ballots[d] \in Choice
           /\ VoteOnMultipleDisputes(a, ballots)
    BY <1>5, VotingBallots
  <2>2. \A d \in DOMAIN voteInfo : Len(voteInfo[d]) >= 1
    BY DisputeFacts
  <2>3. /\ RoundsKept
        /\ \A d \in DOMAIN voteInfo : \A r \in 1..Len(voteInfo[d]) :
              voteInfo'[d][r].sent = voteInfo[d][r].sent
    BY <2>1, <2>2, VoteEffect DEF GovInv
  <2>4. UNCHANGED outbox
    BY <2>1 DEF VoteOnMultipleDisputes
  <2>5. ASSUME NEW d \in DOMAIN voteInfo PROVE Matches(outbox[d], voteInfo'[d])
    <3>1. \A r \in 1..Len(voteInfo[d]) : voteInfo[d][r].sent => voteInfo'[d][r] = voteInfo[d][r]
      BY <2>1, VoteKeepsSent
    <3>2. Len(voteInfo'[d]) = Len(voteInfo[d])
      BY <2>3 DEF RoundsKept
    <3>3. \A r \in 1..Len(voteInfo[d]) :
             /\ voteInfo'[d][r].sent <=> voteInfo[d][r].sent
             /\ voteInfo[d][r].sent => /\ voteInfo'[d][r].users = voteInfo[d][r].users
                                       /\ voteInfo'[d][r].reporters = voteInfo[d][r].reporters
      BY <2>3, <3>1
    <3>4. QED
      BY <1>1, <3>2, <3>3, MatchKept
  <2>6. QED
    BY <2>3, <2>4, <2>5 DEF RoundsKept
<1>6. CASE Sending \/ Block
  <2>1. PICK accepted \in SUBSET Due : SendBatch(accepted)
    BY <1>6, SendingBatch
  <2>2. DOMAIN voteInfo' = DOMAIN voteInfo
    BY <2>1, SendEffect DEF GovInv, RoundsKept
  <2>3. QED
    BY <1>1, <2>1, <2>2, SendMatches
<1>7. CASE Controller
  <2>1. PICK d \in DOMAIN voteInfo :
           \/ \E result \in VoteResult : ReportVoteTallied(d, result)
           \/ ReportVoteExecuted(d)
    BY <1>7 DEF Controller
  <2>2. PICK v \in Vote : /\ Replaced(d, v) /\ v.users = CurrentVote(d).users
                          /\ v.reporters = CurrentVote(d).reporters /\ v.sent = CurrentVote(d).sent
    <3>1. CurrentVote(d) \in Vote /\ Len(voteInfo[d]) >= 1
      BY DisputeFacts
    <3>2. ASSUME NEW result \in VoteResult, ReportVoteTallied(d, result)
          PROVE  LET v == TalliedVote(d, result)
                 IN /\ v \in Vote /\ Replaced(d, v) /\ v.users = CurrentVote(d).users
                    /\ v.reporters = CurrentVote(d).reporters /\ v.sent = CurrentVote(d).sent
      <4>1. TalliedVote(d, result) \in Vote /\ Replaced(d, TalliedVote(d, result))
        BY <3>1, <3>2, TallyEffect DEF GovInv
      <4>2. QED
        BY <3>1, <4>1 DEF TalliedVote, Vote
    <3>3. ASSUME ReportVoteExecuted(d)
          PROVE  LET v == ExecutedVote(d)
                 IN /\ v \in Vote /\ Replaced(d, v) /\ v.users = CurrentVote(d).users
                    /\ v.reporters = CurrentVote(d).reporters /\ v.sent = CurrentVote(d).sent
      <4>1. ExecutedVote(d) \in Vote /\ Replaced(d, ExecutedVote(d))
        BY <3>1, <3>3, ExecuteEffect DEF GovInv
      <4>2. QED
        BY <3>1, <4>1 DEF ExecutedVote, Vote
    <3>4. QED
      BY <2>1, <3>2, <3>3
  <2>3. UNCHANGED outbox
    BY <2>1 DEF ReportVoteTallied, ReportVoteExecuted
  <2>4. ASSUME NEW e \in DOMAIN voteInfo PROVE Matches(outbox[e], voteInfo'[e])
    <3>1. CASE e # d
      BY <1>1, <2>2, <3>1 DEF Replaced
    <3>2. CASE e = d
      <4>1. Len(voteInfo'[d]) = Len(voteInfo[d])
        BY <2>2 DEF Replaced
      <4>2. \A r \in 1..Len(voteInfo[d]) :
               /\ voteInfo'[d][r].sent <=> voteInfo[d][r].sent
               /\ voteInfo[d][r].sent => /\ voteInfo'[d][r].users = voteInfo[d][r].users
                                         /\ voteInfo'[d][r].reporters = voteInfo[d][r].reporters
        BY <2>2 DEF Replaced, CurrentVote
      <4>3. Matches(outbox[d], voteInfo'[d])
        BY <1>1, <4>1, <4>2, MatchKept
      <4>4. QED
        BY <3>2, <4>3
    <3>3. QED
      BY <3>1, <3>2
  <2>5. QED
    BY <2>2, <2>3, <2>4 DEF Replaced
<1>8. QED
  BY <1>2, <1>3, <1>4, <1>5, <1>6, <1>7 DEF GovNext, Dispute

(* The vote messages the governance contract receives belong to the rounds *)
(* it was told of last, and carry their final votes, though the messages   *)
(* do not name the round.                                                  *)
THEOREM MessagesCorrect == GovSpec => []VoteMessagesMatchRounds
<1>1. GovInit => VoteMessagesMatchRounds
  BY MatchesPointwise DEF GovInit
<1>2. QED
  BY <1>1, MatchStep, GovernanceInvariant, PTL DEF GovSpec
=============================================================================
