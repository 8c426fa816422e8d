---------------------------- MODULE TokenDecimals ----------------------------
(* Amounts of the staking token in units of the local token. *)
EXTENDS Integers

CONSTANTS DECIMALS, Decimals    \* of the staking token, and of the local one

ASSUME DecimalsAssumption == DECIMALS \in Nat /\ Decimals \in Nat

TenToThe[n \in Nat] == IF n = 0 THEN 1 ELSE 10 * TenToThe[n - 1]

(* convert_to_decimals, to the local decimals. *)
Convert(amount) ==
    IF DECIMALS > Decimals THEN amount \div TenToThe[DECIMALS - Decimals]
    ELSE amount * TenToThe[Decimals - DECIMALS]

Unit == TenToThe[Decimals]
=============================================================================
