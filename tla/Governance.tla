----------------------------- MODULE Governance -----------------------------
(***************************************************************************)
(* Disputes and their votes.  A dispute is begun on a fresh report, is     *)
(* voted on in rounds, and each round's aggregate votes are sent over XCM  *)
(* to the governance contract on the controller chain, which reports the   *)
(* tally and the execution back.  A round's fee is held by the dispute     *)
(* fees sub-account until the dispute is executed.                         *)
(*                                                                         *)
(* The controller's messages (report_vote_tallied, report_vote_executed)   *)
(* may arrive at any time, late, repeated or never.  An XCM send may fail: *)
(* begin_dispute then fails as a whole, do_send_votes leaves that vote     *)
(* pending.  A dispute identifier, the hash of query identifier and        *)
(* timestamp, is that pair.                                                *)
(***************************************************************************)
EXTENDS Reports, Sequences, FiniteSetsExt

CONSTANTS
    Day,                 \* DAYS
    SendDelay,           \* 11 * HOURS: votes are sent this long after a round starts
    MaxVotingPeriod,     \* 6 * DAYS: cap of a round's voting period
    MaxVoteRounds,       \* MAX_VOTE_ROUNDS
    MaxVotesPerBlock,    \* MAX_AGGREGATE_VOTES_SENT_PER_BLOCK
    SendVotesInputs,     \* values of max_votes explored for send_votes
    DisputeFees,         \* values DisputeFee may take
    UserTips,            \* UserTipsTotal of each account
    ExistentialDeposit,  \* Asset::minimum_balance()
    InitialBalance,      \* balance of each account at the start
    Voters               \* bound: the accounts that cast votes

ASSUME GovernanceAssumption ==
    /\ Day \in Nat \ {0} /\ Day <= StartTime
    /\ SendDelay \in Nat
    /\ MaxVotingPeriod \in Nat
    /\ MaxVoteRounds \in Nat
    /\ MaxVotesPerBlock \in Nat
    /\ SendVotesInputs \subseteq Nat
    /\ DisputeFees \subseteq Nat /\ DisputeFees # {}
    /\ UserTips \in [Account -> Nat]
    /\ ExistentialDeposit \in Nat
    /\ InitialBalance \in Nat
    /\ Voters \subseteq Account
    /\ None \notin {"Passed", "Failed", "Invalid"}

VARIABLES
    voteInfo,      \* VoteInfo: the sequence of a dispute's vote rounds
    disputeInfo,   \* DisputeInfo: the disputed reporter
    openDisputes,  \* OpenDisputesOnId
    pendingVotes,  \* PendingVotes
    voteCount,     \* VoteCount
    voteTally,     \* VoteTallyByAddress
    disputeFee,    \* DisputeFee
    balance,       \* free balance of each account
    feesBalance,   \* balance of the dispute fees sub-account
    outbox         \* messages about a dispute handed to XCM, in order

govVars == <<voteInfo, disputeInfo, openDisputes, pendingVotes, voteCount, voteTally,
             disputeFee, balance, feesBalance, outbox>>
vars == <<reportsVars, govVars>>

DisputeId == QueryId \X Timestamp
VoteResult == {"Passed", "Failed", "Invalid"}
Choice == {"does_support", "against", "invalid_query"}
Tally == [Choice -> Nat]
NoVotes == [c \in Choice |-> 0]

Vote == [initiator : Account, fee : Nat, start_date : Timestamp, tally_date : Timestamp,
         users : Tally, reporters : Tally, voters : SUBSET Account,
         sent : BOOLEAN, executed : BOOLEAN, result : VoteResult \cup {None}]

Pending == [round : Nat, scheduled : Timestamp]

(* The vote message carries the aggregate votes but not the round. *)
Message == [kind : {"begin"}] \cup [kind : {"vote"}, users : Tally, reporters : Tally]

VoteRounds(d) == IF d \in DOMAIN voteInfo THEN Len(voteInfo[d]) ELSE 0
CurrentVote(d) == voteInfo[d][Len(voteInfo[d])]

Put(f, d, v) == [e \in DOMAIN f \cup {d} |-> IF e = d THEN v ELSE f[e]]

-----------------------------------------------------------------------------
(* The pallet after `register` has endowed its sub-accounts. *)
GovInit ==
    /\ ReportsInit
    /\ voteInfo = [d \in {} |-> <<>>]
    /\ disputeInfo = [d \in {} |-> None]
    /\ openDisputes = [q \in QueryId |-> 0]
    /\ pendingVotes = [d \in {} |-> None]
    /\ voteCount = 0
    /\ voteTally = [a \in Account |-> 0]
    /\ disputeFee \in DisputeFees
    /\ balance = [a \in Account |-> InitialBalance]
    /\ feesBalance = ExistentialDeposit
    /\ outbox = [d \in {} |-> <<>>]

(* 2^n *)
TwoToThe[n \in Nat] == IF n = 0 THEN 1 ELSE 2 * TwoToThe[n - 1]

(* The fee doubles with each open dispute on the query identifier in the   *)
(* first round and with each further round, up to ten times the base fee.  *)
RoundFee(doublings) == Min({disputeFee * TwoToThe[doublings], disputeFee * 10})

NewVote(a, fee) ==
    [initiator |-> a, fee |-> fee, start_date |-> now, tally_date |-> 0,
     users |-> NoVotes, reporters |-> NoVotes, voters |-> {},
     sent |-> FALSE, executed |-> FALSE, result |-> None]

(* Variant: the base fee is taken instead of the round's. *)
TakeBaseFee(a, fee) ==
    /\ balance[a] >= disputeFee + ExistentialDeposit
    /\ balance' = [balance EXCEPT ![a] = @ - disputeFee]
    /\ feesBalance' = feesBalance + disputeFee

(* The transfer of a round's fee, which must leave the initiator alive. *)
TakeFee(a, fee) ==
    /\ balance[a] >= fee + ExistentialDeposit
    /\ balance' = [balance EXCEPT ![a] = @ - fee]
    /\ feesBalance' = feesBalance + fee

(* The end of begin_dispute, common to all rounds: count the vote, take    *)
(* the fee, schedule the sending of the votes in place of the previous     *)
(* round's, store the round and tell the governance contract.              *)
OpenRound(a, d, fee) ==
    /\ TakeFee(a, fee)
    /\ voteCount' = voteCount + 1
    /\ pendingVotes' = Put(pendingVotes, d, [round |-> VoteRounds(d) + 1,
                                             scheduled |-> now + SendDelay])
    /\ voteInfo' = Put(voteInfo, d, IF VoteRounds(d) = 0 THEN <<NewVote(a, fee)>>
                                    ELSE Append(voteInfo[d], NewVote(a, fee)))
    /\ outbox' = Put(outbox, d, IF VoteRounds(d) = 0 THEN <<[kind |-> "begin"]>>
                                ELSE Append(outbox[d], [kind |-> "begin"]))

(* Variant: the dispute's details are not stored. *)
RecordDisputeCountOnly(q, t) ==
    /\ openDisputes' = [openDisputes EXCEPT ![q] = @ + 1]
    /\ UNCHANGED disputeInfo

(* Variant: the open dispute is not counted. *)
RecordDisputeUncounted(q, t) ==
    /\ disputeInfo' = Put(disputeInfo, <<q, t>>, reports[q][t].reporter)
    /\ UNCHANGED openDisputes

(* A first round counts as an open dispute and stores the dispute. *)
RecordDispute(q, t) ==
    /\ openDisputes' = [openDisputes EXCEPT ![q] = @ + 1]
    /\ disputeInfo' = Put(disputeInfo, <<q, t>>, reports[q][t].reporter)

(* Variant: no check of the dispute period. *)
BeginDisputeLate(a, q, t) ==
    /\ VoteRounds(<<q, t>>) = 0
    /\ 1 <= MaxVoteRounds
    /\ t \in values[q]
    /\ RecordDispute(q, t)
    /\ RemoveValue(q, t)
    /\ OpenRound(a, <<q, t>>, RoundFee(openDisputes[q]))
    /\ UNCHANGED <<now, stakerVars, voteTally, disputeFee>>

(* begin_dispute, first round.  The beneficiary is given by the caller. *)
BeginDispute(a, q, t) ==
    /\ t \in DOMAIN reports[q]
    /\ VoteRounds(<<q, t>>) = 0
    /\ 1 <= MaxVoteRounds
    /\ WithinDisputePeriod(t)
    /\ t \in values[q]
    /\ RecordDispute(q, t)
    /\ RemoveValue(q, t)
    /\ OpenRound(a, <<q, t>>, RoundFee(openDisputes[q]))
    /\ UNCHANGED <<now, stakerVars, voteTally, disputeFee>>

(* Variant: the time of the previous tally is not checked. *)
MayAppealAnytime(d) == ~CurrentVote(d).executed

(* A further round may be begun within a day of the current one's tally.   *)
(* An untallied round has tally_date 0, which is over a day ago.           *)
MayAppeal(d) == now - CurrentVote(d).tally_date < Day /\ ~CurrentVote(d).executed

(* begin_dispute, a further round. *)
BeginNextRound(a, d) ==
    /\ d \in DOMAIN voteInfo
    /\ VoteRounds(d) + 1 <= MaxVoteRounds
    /\ MayAppeal(d)
    /\ OpenRound(a, d, RoundFee(VoteRounds(d)))
    /\ UNCHANGED <<reportsVars, openDisputes, disputeInfo, voteTally, disputeFee>>

(* Variant: votes are accepted after the round's votes were sent. *)
MayVoteAfterSending(a, d) ==
    /\ d \in DOMAIN disputeInfo
    /\ CurrentVote(d).tally_date = 0
    /\ a \notin CurrentVote(d).voters

(* do_vote's guards: the current round is neither tallied nor sent, and    *)
(* the caller has not voted in it.                                         *)
MayVote(a, d) ==
    /\ d \in DOMAIN disputeInfo
    /\ CurrentVote(d).tally_date = 0
    /\ a \notin CurrentVote(d).voters
    /\ ~CurrentVote(d).sent

(* A round with a's vote added, weighted by a's reports and tips. *)
WithVote(v, a, choice) ==
    [v EXCEPT !.voters = @ \cup {a},
              !.reporters[choice] = @ + submitted[a],
              !.users[choice] = @ + UserTips[a]]

(* vote_on_multiple_disputes: all of the ballots are cast or none is. *)
VoteOnMultipleDisputes(a, ballots) ==
    /\ \A d \in DOMAIN ballots : MayVote(a, d)
    /\ voteInfo' = [d \in DOMAIN voteInfo |->
                      IF d \in DOMAIN ballots
                      THEN [voteInfo[d] EXCEPT ![Len(voteInfo[d])] = WithVote(@, a, ballots[d])]
                      ELSE voteInfo[d]]
    /\ voteTally' = [voteTally EXCEPT ![a] = @ + Cardinality(DOMAIN ballots)]
    /\ UNCHANGED <<reportsVars, disputeInfo, openDisputes, pendingVotes, voteCount,
                   disputeFee, balance, feesBalance, outbox>>

(* vote: a single ballot. *)
CastVote(a, d, choice) == VoteOnMultipleDisputes(a, [e \in {d} |-> choice])

(* The pending votes do_send_votes takes: those due, at most `max`, the    *)
(* earliest scheduled first; ties are taken in storage order.              *)
Due == {d \in DOMAIN pendingVotes : now >= pendingVotes[d].scheduled}

IsBatch(S, max) ==
    /\ S \subseteq Due
    /\ Cardinality(S) = Min({max, Cardinality(Due)})
    /\ \A d \in S, e \in Due \ S : pendingVotes[d].scheduled <= pendingVotes[e].scheduled

(* The voting period of a round: a day per round, up to the cap. *)
VotingPeriod(round) == Min({round * Day, MaxVotingPeriod})

(* Variant: a vote whose voting period has elapsed is skipped. *)
SendableInTime(d) ==
    LET round == pendingVotes[d].round
    IN /\ d \in DOMAIN voteInfo /\ round \in 1..Len(voteInfo[d]) /\ ~voteInfo[d][round].sent
       /\ now - voteInfo[d][round].start_date < VotingPeriod(round)

(* The closure of do_send_votes fails unless the round is stored and       *)
(* unsent; the voting period is not looked at.                             *)
Sendable(d) ==
    LET round == pendingVotes[d].round
    IN d \in DOMAIN voteInfo /\ round \in 1..Len(voteInfo[d]) /\ ~voteInfo[d][round].sent

VoteMessage(v) == [kind |-> "vote", users |-> v.users, reporters |-> v.reporters]

(* Variant: a vote that was sent stays queued. *)
SendBatchStaysQueued(accepted) ==
    LET sent == {d \in accepted : Sendable(d)}
    IN /\ voteInfo' = [d \in DOMAIN voteInfo |->
                         IF d \in sent
                         THEN [voteInfo[d] EXCEPT ![pendingVotes[d].round].sent = TRUE]
                         ELSE voteInfo[d]]
       /\ outbox' = [d \in DOMAIN outbox |->
                       IF d \in sent
                       THEN Append(outbox[d], VoteMessage(voteInfo[d][pendingVotes[d].round]))
                       ELSE outbox[d]]
       /\ UNCHANGED pendingVotes

(* do_send_votes for a batch of which XCM accepts `accepted`: a vote not   *)
(* sent stays pending.                                                     *)
SendBatch(accepted) ==
    LET sent == {d \in accepted : Sendable(d)}
    IN /\ voteInfo' = [d \in DOMAIN voteInfo |->
                         IF d \in sent
                         THEN [voteInfo[d] EXCEPT ![pendingVotes[d].round].sent = TRUE]
                         ELSE voteInfo[d]]
       /\ outbox' = [d \in DOMAIN outbox |->
                       IF d \in sent
                       THEN Append(outbox[d], VoteMessage(voteInfo[d][pendingVotes[d].round]))
                       ELSE outbox[d]]
       /\ pendingVotes' = [d \in DOMAIN pendingVotes \ sent |-> pendingVotes[d]]

(* send_votes *)
SendVotes(max, accepted) ==
    /\ \E batch \in SUBSET Due : IsBatch(batch, max) /\ accepted \subseteq batch
    /\ SendBatch(accepted)
    /\ UNCHANGED <<reportsVars, disputeInfo, openDisputes, voteCount, voteTally, disputeFee,
                   balance, feesBalance>>

(* on_initialize of a block, which still sees the previous block's time,   *)
(* then the block's own timestamp.  The dispute fee update may leave any   *)
(* price-dependent fee behind, or none.                                    *)
NewBlock(t, accepted) ==
    /\ \E batch \in SUBSET Due : IsBatch(batch, MaxVotesPerBlock) /\ accepted \subseteq batch
    /\ SendBatch(accepted)
    /\ disputeFee' \in DisputeFees
    /\ AdvanceTime(t)
    /\ UNCHANGED <<storeVars, stakerVars, disputeInfo, openDisputes, voteCount, voteTally,
                   balance, feesBalance>>

(* Variant: a second tally is accepted. *)
MayTallyAgain(d) ==
    /\ ~CurrentVote(d).executed
    /\ now - CurrentVote(d).start_date >= VotingPeriod(VoteRounds(d))

(* tally_votes' guards: once, and after the voting period. *)
MayTally(d) ==
    /\ ~CurrentVote(d).executed
    /\ CurrentVote(d).tally_date = 0
    /\ now - CurrentVote(d).start_date >= VotingPeriod(VoteRounds(d))

(* report_vote_tallied *)
ReportVoteTallied(d, result) ==
    /\ d \in DOMAIN voteInfo
    /\ MayTally(d)
    /\ voteInfo' = [voteInfo EXCEPT ![d][VoteRounds(d)].result = result,
                                    ![d][VoteRounds(d)].tally_date = now]
    /\ UNCHANGED <<reportsVars, disputeInfo, openDisputes, pendingVotes, voteCount, voteTally,
                   disputeFee, balance, feesBalance, outbox>>

(* Variant: the initiator is always refunded. *)
FeeRefunded(d, round) == voteInfo[d][round].initiator

(* Who receives the fee of a round when the dispute is executed. *)
FeeRecipient(d, round) ==
    IF CurrentVote(d).result = "Failed" THEN disputeInfo[d] ELSE voteInfo[d][round].initiator

FeesOf(d, rounds) == SumFunction([r \in rounds |-> voteInfo[d][r].fee])

(* report_vote_executed: a day after the tally, pays out every round's fee *)
(* of the dispute.                                                         *)
ReportVoteExecuted(d) ==
    /\ d \in DOMAIN disputeInfo
    /\ ~CurrentVote(d).executed
    /\ CurrentVote(d).tally_date > 0
    /\ now - CurrentVote(d).tally_date >= Day
    /\ feesBalance - FeesOf(d, 1..VoteRounds(d)) >= ExistentialDeposit
    /\ voteInfo' = [voteInfo EXCEPT ![d][VoteRounds(d)].executed = TRUE]
    /\ openDisputes' = [openDisputes EXCEPT ![d[1]] = IF @ = 0 THEN 0 ELSE @ - 1]
    /\ feesBalance' = feesBalance - FeesOf(d, 1..VoteRounds(d))
    /\ balance' = [a \in Account |->
                     balance[a] + FeesOf(d, {r \in 1..VoteRounds(d) : FeeRecipient(d, r) = a})]
    /\ UNCHANGED <<reportsVars, disputeInfo, pendingVotes, voteCount, voteTally, disputeFee, outbox>>

-----------------------------------------------------------------------------
Submit ==
    /\ SubmitValueStep
    /\ UNCHANGED govVars

Dispute ==
    \/ \E a \in Account, q \in QueryId : \E t \in DOMAIN reports[q] : BeginDispute(a, q, t)
    \/ \E a \in Account, d \in DOMAIN voteInfo : BeginNextRound(a, d)

Voting ==
    \/ \E a \in Voters, d \in DOMAIN voteInfo, choice \in Choice : CastVote(a, d, choice)
    \/ \E a \in Voters, S \in SUBSET DOMAIN voteInfo :
          \E ballots \in [S -> Choice] : VoteOnMultipleDisputes(a, ballots)

Sending == \E max \in SendVotesInputs, accepted \in SUBSET Due : SendVotes(max, accepted)

Block == \E t \in now..MaxTime, accepted \in SUBSET Due : NewBlock(t, accepted)

Controller ==
    \/ \E d \in DOMAIN voteInfo, result \in VoteResult : ReportVoteTallied(d, result)
    \/ \E d \in DOMAIN voteInfo : ReportVoteExecuted(d)

GovNext == Submit \/ Dispute \/ Voting \/ Sending \/ Block \/ Controller

GovSpec == GovInit /\ [][GovNext]_vars

(* Blocks keep coming, and among them blocks during which XCM accepts what *)
(* on_initialize sends.                                                    *)
HealthyBlock ==
    \E t \in now..MaxTime, batch \in SUBSET Due :
        IsBatch(batch, MaxVotesPerBlock) /\ NewBlock(t, batch)

FairGovSpec == GovSpec /\ WF_vars(HealthyBlock)

-----------------------------------------------------------------------------
(* Every stored item has its type. *)
GovTypeOK ==
    /\ ReportsTypeOK
    /\ DOMAIN voteInfo \subseteq DisputeId
    /\ voteInfo \in [DOMAIN voteInfo -> Seq(Vote)]
    /\ disputeInfo \in [DOMAIN voteInfo -> Account]
    /\ openDisputes \in [QueryId -> Nat]
    /\ DOMAIN pendingVotes \subseteq DOMAIN voteInfo
    /\ pendingVotes \in [DOMAIN pendingVotes -> Pending]
    /\ voteCount \in Nat
    /\ voteTally \in [Account -> Nat]
    /\ disputeFee \in DisputeFees
    /\ balance \in [Account -> Nat]
    /\ feesBalance \in Nat
    /\ outbox \in [DOMAIN voteInfo -> Seq(Message)]

(* A report is marked disputed exactly when a dispute on it has a vote     *)
(* round, and the dispute names that report's reporter: no value is lost   *)
(* without a vote and no vote is about a live value.                       *)
DisputedIffVoted ==
    /\ DOMAIN voteInfo = UNION {{<<q, t>> : t \in DOMAIN reports[q] \ Undisputed(q)} : q \in QueryId}
    /\ \A d \in DOMAIN voteInfo : /\ VoteRounds(d) >= 1
                                 /\ disputeInfo[d] = reports[d[1]][d[2]].reporter

(* The rounds of a dispute follow one another: a further round was begun   *)
(* within a day after the previous one's tally, a round is tallied only    *)
(* after its voting period, and only the last round is ever executed, a    *)
(* full day after its tally.                                               *)
RoundsInOrder ==
    \A d \in DOMAIN voteInfo : \A r \in 1..Len(voteInfo[d]) :
        LET v == voteInfo[d][r]
        IN /\ v.tally_date > 0 <=> v.result # None
           /\ v.tally_date > 0 => /\ v.tally_date <= now
                                  /\ v.tally_date - v.start_date >= VotingPeriod(r)
           /\ v.executed => /\ r = Len(voteInfo[d])
                            /\ v.tally_date > 0 /\ now - v.tally_date >= Day
           /\ r < Len(voteInfo[d]) =>
                 /\ v.tally_date > 0
                 /\ voteInfo[d][r + 1].start_date >= v.tally_date
                 /\ voteInfo[d][r + 1].start_date - v.tally_date < Day

(* The votes of the latest round are queued until they are sent and then   *)
(* never again: that round is not stranded in VoteInfo unsent and          *)
(* unqueued, and nothing stale (sent, or of an earlier round) can block    *)
(* the queue.  An earlier round that begin_dispute superseded before its   *)
(* votes were sent stays unsent for good; VoteMessagesMatchRounds says     *)
(* that no message of it follows.                                          *)
PendingIffUnsent ==
    \A d \in DOMAIN voteInfo :
        /\ d \in DOMAIN pendingVotes <=> ~CurrentVote(d).sent
        /\ d \in DOMAIN pendingVotes =>
              /\ pendingVotes[d].round = VoteRounds(d)
              /\ pendingVotes[d].scheduled = CurrentVote(d).start_date + SendDelay

(* What the governance contract receives about a dispute: one begin per    *)
(* round and after it at most one vote message, which carries that round's *)
(* final aggregate votes.  The message names no round, so a vote message   *)
(* after the next begin would be counted for the wrong round.              *)
VoteMessagesMatchRounds ==
    \A d \in DOMAIN voteInfo :
        LET Begins(i) == Cardinality({j \in 1..i : outbox[d][j].kind = "begin"})
            sent == {r \in 1..Len(voteInfo[d]) : voteInfo[d][r].sent}
            messages == {i \in 1..Len(outbox[d]) : outbox[d][i].kind = "vote"}
        IN /\ Begins(Len(outbox[d])) = Len(voteInfo[d])
           /\ {Begins(i) : i \in messages} = sent
           /\ Cardinality(messages) = Cardinality(sent)
           /\ \A i \in messages : outbox[d][i] = VoteMessage(voteInfo[d][Begins(i)])

IsOpen(d) == ~CurrentVote(d).executed
Failed(d) == CurrentVote(d).result = "Failed"

(* OpenDisputesOnId, which sets the fee of the next dispute, is the number *)
(* of disputes of the query identifier not yet executed.                   *)
OpenDisputesCounted ==
    \A q \in QueryId :
        openDisputes[q] = Cardinality({d \in DOMAIN voteInfo : d[1] = q /\ IsOpen(d)})

(* The dispute fees sub-account holds its endowment and the fees of every  *)
(* round of every open dispute, so that an execution can always be paid.   *)
FeesHeld ==
    feesBalance = ExistentialDeposit
                  + SumFunction([d \in {e \in DOMAIN voteInfo : IsOpen(e)} |->
                                    FeesOf(d, 1..VoteRounds(d))])

(* Every account's balance is explained by the disputes: it has paid the   *)
(* fee of each round it began, got it back if that dispute was executed as *)
(* passed or invalid, and received all fees of each dispute about its own  *)
(* reports that failed.                                                    *)
FeesSettled ==
    \A a \in Account :
        balance[a] = InitialBalance
          - SumFunction([d \in {e \in DOMAIN voteInfo : IsOpen(e) \/ Failed(e)} |->
                            FeesOf(d, {r \in 1..VoteRounds(d) : voteInfo[d][r].initiator = a})])
          + SumFunction([d \in {e \in DOMAIN voteInfo : /\ ~IsOpen(e) /\ Failed(e)
                                                        /\ disputeInfo[e] = a} |->
                            FeesOf(d, 1..VoteRounds(d))])

(* The abstract life of disputes over the stored rounds. *)
Lifecycle ==
    INSTANCE DisputeLifecycle WITH
        Outcome <- VoteResult,
        MaxRounds <- MaxVoteRounds,
        rounds <- [d \in DOMAIN voteInfo |->
                     [r \in 1..Len(voteInfo[d]) |-> voteInfo[d][r].result]],
        executed <- {d \in DOMAIN voteInfo : CurrentVote(d).executed}

(* Whatever late, repeated or reordered message arrives, a dispute goes    *)
(* through the promised life: a round is decided once, an appeal follows a *)
(* decided round, and once executed a dispute gets no further round, tally *)
(* or execution.                                                           *)
DisputesFollowLifecycle == Lifecycle!Spec

(* A vote that is due is eventually sent, unless a further round replaces  *)
(* it, however many votes compete for the places in a block and however    *)
(* often XCM fails before.  A vote that fails for ever while others are    *)
(* accepted is excluded by the fairness of HealthyBlock.                   *)
DueVotesAreSent ==
    \A q \in QueryId, t \in StartTime..MaxTime, r \in 1..MaxVoteRounds :
        (<<q, t>> \in Due /\ pendingVotes[<<q, t>>].round = r)
            ~> \/ VoteRounds(<<q, t>>) > r
               \/ VoteRounds(<<q, t>>) = r /\ CurrentVote(<<q, t>>).sent

(* What the repository's README says of send_votes: votes are sent         *)
(* "provided the voting period hasn't elapsed".                            *)
VotesSentWithinVotingPeriod ==
    [][\A d \in DOMAIN voteInfo : \A r \in 1..Len(voteInfo[d]) :
          ~voteInfo[d][r].sent /\ voteInfo'[d][r].sent =>
              now - voteInfo[d][r].start_date < VotingPeriod(r)]_vars
=============================================================================
