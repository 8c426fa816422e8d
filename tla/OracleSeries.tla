---------------------------- MODULE OracleSeries ----------------------------
(***************************************************************************)
(* What the oracle promises a consumer, without indices, back pointers or  *)
(* reporters: each query identifier has a growing set of times at which a  *)
(* value was reported, the ones among them that can be read, and a current *)
(* one.  A value disappears only within the dispute period after its       *)
(* report, for good, and the current value is then the latest of the rest. *)
(***************************************************************************)
EXTENDS Naturals

CONSTANTS QueryId, None, DisputePeriod

VARIABLES
    now,       \* the time consumers see
    seen,      \* times at which a value was ever reported
    readable,  \* those whose value can be read
    current    \* the time of the current value

oracleVars == <<now, seen, readable, current>>

IsCurrent(c, S) == IF c = None THEN S = {} ELSE c \in S /\ \A s \in S : s <= c

Init ==
    /\ now \in Nat
    /\ seen = [q \in QueryId |-> {}]
    /\ readable = [q \in QueryId |-> {}]
    /\ current = [q \in QueryId |-> None]

(* A value later than every other of its query becomes the current one. *)
Report(q) ==
    /\ \A s \in seen[q] : s < now
    /\ seen' = [seen EXCEPT ![q] = @ \cup {now}]
    /\ readable' = [readable EXCEPT ![q] = @ \cup {now}]
    /\ current' = [current EXCEPT ![q] = now]
    /\ UNCHANGED now

(* A value is taken back within the dispute period. *)
Retract(q, t) ==
    /\ t \in readable[q]
    /\ now - t < DisputePeriod
    /\ readable' = [readable EXCEPT ![q] = @ \ {t}]
    /\ \E c \in readable[q] \cup {None} :
          /\ IsCurrent(c, readable[q] \ {t})
          /\ current' = [current EXCEPT ![q] = c]
    /\ UNCHANGED <<now, seen>>

Tick == now' \in Nat /\ now' >= now /\ UNCHANGED <<seen, readable, current>>

Next ==
    \/ \E q \in QueryId : Report(q)
    \/ \E q \in QueryId : \E t \in readable[q] : Retract(q, t)
    \/ Tick

Spec == Init /\ [][Next]_oracleVars
=============================================================================
