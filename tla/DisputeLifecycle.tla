-------------------------- MODULE DisputeLifecycle --------------------------
(***************************************************************************)
(* What governance promises of a dispute, without votes, messages, fees or *)
(* clocks: it passes through a bounded number of rounds, each of which is  *)
(* decided once and only after the previous one was; the outcome of the    *)
(* last is put into effect once, and nothing happens to it afterwards.     *)
(***************************************************************************)
EXTENDS Naturals, Sequences

CONSTANTS None, Outcome, MaxRounds

VARIABLES
    rounds,   \* the outcomes of each dispute's rounds, None while undecided
    executed  \* the disputes whose outcome is in effect

lifecycleVars == <<rounds, executed>>

Last(d) == rounds[d][Len(rounds[d])]
Decided(d) == Last(d) # None

Init == rounds = [d \in {} |-> <<>>] /\ executed = {}

(* The one dispute that is new has one undecided round. *)
Open ==
    /\ MaxRounds > 0
    /\ \E d \in DOMAIN rounds' \ DOMAIN rounds :
          rounds' = [e \in DOMAIN rounds \cup {d} |-> IF e = d THEN <<None>> ELSE rounds[e]]
    /\ UNCHANGED executed

Decide(d) ==
    /\ d \notin executed /\ ~Decided(d)
    /\ \E outcome \in Outcome : rounds' = [rounds EXCEPT ![d][Len(rounds[d])] = outcome]
    /\ UNCHANGED executed

Appeal(d) ==
    /\ d \notin executed /\ Decided(d)
    /\ Len(rounds[d]) < MaxRounds
    /\ rounds' = [rounds EXCEPT ![d] = Append(@, None)]
    /\ UNCHANGED executed

Execute(d) ==
    /\ d \notin executed /\ Decided(d)
    /\ executed' = executed \cup {d}
    /\ UNCHANGED rounds

Next == Open \/ \E d \in DOMAIN rounds : Decide(d) \/ Appeal(d) \/ Execute(d)

Spec == Init /\ [][Next]_lifecycleVars
=============================================================================
