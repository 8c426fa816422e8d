----------------------------- MODULE UsingTellor -----------------------------
(***************************************************************************)
(* The sample pallet using-tellor, a consumer on the same chain: it is     *)
(* configured with a query identifier and stores for each caller a number  *)
(* derived from the price reported there.  It reads with a delay and does  *)
(* not use old prices, and what it has stored it never revises, although   *)
(* the report behind it may still be disputed.                             *)
(***************************************************************************)
EXTENDS ReportLookup

CONSTANTS
    ReadDelay,      \* FIFTEEN_MINUTES
    OneDay,         \* ONE_DAY
    MaxU256,        \* where products saturate
    Factors,        \* the arguments of do_something explored
    NotNumbers      \* times at which the value reported is too long for a number

ASSUME UsingTellorAssumption ==
    /\ {ReadDelay, OneDay, MaxU256} \subseteq Nat
    /\ Factors \subseteq Nat
    /\ NotNumbers \subseteq Nat

VARIABLES
    configuration,  \* Configuration
    derived,        \* Values
    readAt          \* history: when a caller's value was stored

consumerVars == <<configuration, derived, readAt>>
usingVars == <<reportsVars, consumerVars>>

UsingInit ==
    /\ ReportsInit
    /\ configuration = None
    /\ derived = [a \in Account |-> None]
    /\ readAt = [a \in Account |-> None]

(* configure *)
Configure(q) ==
    /\ configuration' = q
    /\ UNCHANGED <<reportsVars, derived, readAt>>

(* bytes_to_uint of the value reported at t: values of different times     *)
(* differ, and some are longer than 32 bytes.                              *)
BytesToUint(t) == IF t \in NotNumbers THEN None ELSE t

SaturatingSub(m, n) == IF m > n THEN m - n ELSE 0

(* Variant: old prices are used. *)
GetPriceOfAnyAge(q) ==
    LET t == GetDataBefore(q, SaturatingSub(now, ReadDelay))
    IN IF t = None THEN None ELSE BytesToUint(t)

(* get_price *)
GetPrice(q) ==
    LET t == GetDataBefore(q, SaturatingSub(now, ReadDelay))
    IN IF t = None THEN None
       ELSE IF SaturatingSub(now, t) < OneDay THEN BytesToUint(t) ELSE None

Derived(price, factor) == IF price * factor > MaxU256 THEN MaxU256 ELSE price * factor

(* do_something: without a price it succeeds and stores nothing. *)
DoSomething(a, factor) ==
    LET price == GetPrice(configuration)
    IN /\ configuration # None
       /\ price # None
       /\ derived' = [derived EXCEPT ![a] = Derived(price, factor)]
       /\ readAt' = [readAt EXCEPT ![a] = now]
       /\ UNCHANGED <<reportsVars, configuration>>

-----------------------------------------------------------------------------
Consume ==
    \/ \E q \in QueryId : Configure(q)
    \/ \E a \in Account, factor \in Factors : DoSomething(a, factor)

StoreStep == ReportsNext /\ UNCHANGED consumerVars

UsingSpec == UsingInit /\ [][Consume \/ StoreStep]_usingVars

-----------------------------------------------------------------------------
(* What a stored number rests on, however reports, disputes and callers    *)
(* interleave: a report that was older than the delay and younger than a   *)
(* day when it was read, with only disputed reports between it and the     *)
(* delay.  It is undisputed to this day if it was as old as the reporting  *)
(* lock; the delay alone does not protect the consumer from a later        *)
(* dispute.                                                                *)
DerivedFromLatest ==
    \A a \in Account : derived[a] # None =>
        \E q \in QueryId, factor \in Factors : \E t \in DOMAIN reports[q] \ NotNumbers :
            LET age == readAt[a] - t
                between == {s \in DOMAIN reports[q] : t < s /\ s < readAt[a] - ReadDelay}
            IN /\ derived[a] = Derived(t, factor)
               /\ ReadDelay < age /\ age < OneDay
               /\ between \cap Undisputed(q) = {}
               /\ age >= ReportingLock => t \in Undisputed(q)
=============================================================================
