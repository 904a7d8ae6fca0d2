----------------------------- MODULE QuoteBook -----------------------------
(***************************************************************************)
(* The vault as whoever quotes on it sees it: one place for one price.      *)
(*                                                                          *)
(* This is the abstract specification of the on-chain program              *)
(* (programs/propamm-vault), without its money: a price is put up only by   *)
(* the key in authority, only while the vault is not halted, and dated with *)
(* the slot it landed in; it comes down by that key's hand or by an act of  *)
(* the owner; and it changes in no other way.  Module Vault implements it.  *)
(***************************************************************************)
EXTENDS Naturals

CONSTANTS
    Keys,    \* keys that can hold the pricing authority
    NoKey,   \* the authority of a vault not yet deployed
    Terms,   \* the prices that can be put up
    Ages,    \* the age limits the owner can set; never zero
    NoBook   \* no price is up

VARIABLES
    book,    \* NoBook, or the price that is up and the slot it landed in
    key,     \* the pricing authority
    halted,  \* the emergency stop
    max_age, \* how many slots a price may be used for
    now      \* the chain's slot

vars == <<book, key, halted, max_age, now>>

Posted == [terms : Terms, slot : Nat]

TypeOK ==
    /\ book \in Posted \union {NoBook}
    /\ key \in Keys \union {NoKey}
    /\ halted \in BOOLEAN
    /\ max_age \in Ages \union {0}
    /\ now \in Nat

Init ==
    /\ book = NoBook
    /\ key = NoKey
    /\ halted = FALSE
    /\ max_age = 0
    /\ now \in Nat

Deploy(k, age) ==
    /\ key = NoKey
    /\ key' = k
    /\ max_age' = age
    /\ UNCHANGED <<book, halted, now>>

Post(k, terms) ==
    /\ k = key
    /\ ~halted
    /\ book' = [terms |-> terms, slot |-> now]
    /\ UNCHANGED <<key, halted, max_age, now>>

\* By the pricing authority, or as the side effect of the owner's withdrawal.
TakeDown ==
    /\ book' = NoBook
    /\ UNCHANGED <<key, halted, max_age, now>>

\* A new authority never inherits the old one's price.
Rekey(k) ==
    /\ key # NoKey
    /\ key' = k
    /\ book' = NoBook
    /\ UNCHANGED <<halted, max_age, now>>

SetMaxAge(age) ==
    /\ key # NoKey
    /\ max_age' = age
    /\ UNCHANGED <<book, key, halted, now>>

SetHalted(flag) ==
    /\ key # NoKey
    /\ halted' = flag
    /\ UNCHANGED <<book, key, max_age, now>>

Tick ==
    /\ now' = now + 1
    /\ UNCHANGED <<book, key, halted, max_age>>

Next ==
    \/ \E k \in Keys : Rekey(k)
    \/ \E k \in Keys, age \in Ages : Deploy(k, age)
    \/ \E k \in Keys, terms \in Terms : Post(k, terms)
    \/ TakeDown
    \/ \E age \in Ages : SetMaxAge(age)
    \/ \E flag \in BOOLEAN : SetHalted(flag)
    \/ Tick

Spec == Init /\ [][Next]_vars
=============================================================================
