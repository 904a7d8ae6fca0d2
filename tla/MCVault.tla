------------------------------ MODULE MCVault ------------------------------
(* A vault with a scaled-down fixed point and small treasuries.             *)
EXTENDS Vault, TLC

CONSTANTS k1, k2, plain, meta, fee

\* Two mints that may trade and one whose transfers lose a unit to a fee.
MCExtensions ==
    (plain :> {}) @@ (meta :> {"MetadataPointer"}) @@ (fee :> {"TransferFeeConfig"})

Price(mid, spread, skew, size) ==
    [mid_e9 |-> mid, spread_bps |-> spread, skew_bps |-> skew, max_size_base |-> size]

\* Two good prices, one biased toward buying base, and one each update_quote must
\* refuse: a spread of 100% and a size of zero.
MCQuotes ==
    {Price(2, 1, 0, 2), Price(3, 0, 1, 7), Price(2, 4, 0, 2), Price(2, 1, 0, 0)}

Limit(age, bound) == [max_quote_age_slots |-> age, max_skew_bps |-> bound]

\* Two good limits, and an age of zero, which is refused.
MCLimits == {Limit(1, 1), Limit(2, 3), Limit(0, 1)}

Symmetry == Permutations({k1, k2})
=============================================================================
