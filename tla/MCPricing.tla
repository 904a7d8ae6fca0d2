----------------------------- MODULE MCPricing -----------------------------
(* Pricing over a scaled-down fixed point, small enough to enumerate.       *)
EXTENDS SpreadSkew

\* Skews from "cancels the mid" to its mirror image; TLC's cfg has no negative literal.
MCSkews == -4..3

Model(base, max, shift_, fraction) ==
    [base_spread_bps |-> base, max_spread_bps |-> max,
     max_skew_shift_bps |-> shift_, size_fraction_bps |-> fraction]

\* Every configuration of whole basis points.
MCModels ==
    {Model(base, max, shift_, fraction) : base, max, shift_ \in 0..4, fraction \in {0, 1, 4}}

\* A half-spread of 5% that widens to 25%, and a shift of 21%.
MCWide == {Model(5, 25, 21, 50)}
=============================================================================
