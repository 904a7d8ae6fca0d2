------------------------------- MODULE Deadman -------------------------------
(***************************************************************************)
(* What the engine promises of a quote while the feed may fall silent at    *)
(* any moment (feed.rs, "Silence: withdrawing the quote", FR-014): a switch *)
(* that is held up by usable prices only, and is down before the last of    *)
(* them is older than a limit.                                              *)
(***************************************************************************)
EXTENDS Integers

CONSTANT Limit

VARIABLES
    up,   \* a quote may be on the book
    age   \* of the last usable price; Limit + 1 is none

Init == up = TRUE /\ age = 0

Price == age' = 0 /\ up' \in {up, FALSE}
Raise == age <= Limit /\ up' = TRUE /\ age' = age
Lower == up' = FALSE /\ age' \in {age, Limit + 1}
Elapse == age' = age + 1 /\ (up => age' <= Limit) /\ up' = up

Next == Price \/ Raise \/ Lower \/ Elapse

Spec == Init /\ [][Next]_<<up, age>>
=============================================================================
