------------------------------- MODULE MCDesk -------------------------------
(* A project on a vault with a scaled-down fixed point and two keys.        *)
EXTENDS Desk, TLC

CONSTANTS owner, engine, baseMint, quoteMint

MCExtensions == (baseMint :> {}) @@ (quoteMint :> {})

\* The base mint has one decimal place and the quote mint none.
MCDecimals == (baseMint :> 1) @@ (quoteMint :> 0)

Number(mantissa, scale) == [mantissa |-> mantissa, scale |-> scale]

\* One amount that is whole units, and one finer than the quote mint's unit.
MCFunds == {[side |-> "base", amount |-> Number(1, 1)],
            [side |-> "quote", amount |-> Number(1, 0)],
            [side |-> "quote", amount |-> Number(1, 1)]}

Set(how, mid, size, spread, skew) ==
    [mid_how |-> how, mid |-> mid, size_how |-> how, size |-> size,
     spread_bps |-> spread, skew_bps |-> skew]

\* A typed price that converts exactly, one that does not, and one given in
\* raw units whose spread takes the whole price.
MCSets == {Set("human", Number(2, 0), Number(1, 0), 1, 0),
           Set("human", Number(5, 1), Number(1, 0), 0, 1),
           Set("raw", Number(2, 0), Number(2, 0), 4, 0)}

MCLimits == [max_quote_age_slots |-> 1, max_skew_bps |-> 3]

MCPrice == [mid_e9 |-> 2, spread_bps |-> 1, skew_bps |-> 0, max_size_base |-> 2]

MCPosted == [mid_e9 |-> 2, spread_bps |-> 1, skew_bps |-> 0, max_size_base |-> 2,
             quote_slot |-> 0]

Holding(base, quote_) == [base |-> base, quote |-> quote_]

Bounds(c, u, r, o) == [commands |-> c, reads |-> u, routes |-> r, others |-> o]

\* An empty directory on an empty chain.
Empty(bounds_) ==
    [files |-> {}, deployed |-> FALSE, wallet |-> Holding(2, 2),
     treasury |-> Holding(0, 0), quote |-> NoQuote, bounds |-> bounds_,
     pool |-> Holding(4, 4)]

\* A vault that trades.
Trading(bounds_) ==
    [files |-> {"propamm.toml"}, deployed |-> TRUE, wallet |-> Holding(2, 2),
     treasury |-> Holding(2, 2), quote |-> MCPosted, bounds |-> bounds_,
     pool |-> Holding(4, 4)]

MCStarts ==
    {Empty(Bounds(3, 0, 0, 0)), Trading(Bounds(2, 0, 0, 1)),
     Trading(Bounds(1, 1, 1, 0)), Trading(Bounds(0, 2, 1, 1))}

\* One command, to look at one report.
MCStatusStarts == {Trading(Bounds(1, 0, 0, 0))}

MCQuoteInputs == {MCPrice}

MCLimitInputs == {[max_quote_age_slots |-> 2, max_skew_bps |-> 3]}

MCPools == {Holding(4, 4), Holding(6, 2)}

Take(side, amount, slippage) == [side |-> side, amount |-> amount, slippage_bps |-> slippage]

MCOrders == {Take(BaseToQuote, 2, 1), Take(QuoteToBase, 2, 0), Take(QuoteToBase, 2, 5)}
=============================================================================
