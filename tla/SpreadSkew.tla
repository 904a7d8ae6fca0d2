----------------------------- MODULE SpreadSkew -----------------------------
(***************************************************************************)
(* The built-in pricing model (propamm-engine/src/model/spread_skew.rs): a  *)
(* spread that widens and a mid that shifts with the inventory.  A pure     *)
(* function of the market state, asked over the quotes and treasuries of    *)
(* Pricing, whose params carry the mid and the owner's skew bound.          *)
(***************************************************************************)
EXTENDS Pricing

CONSTANT Models  \* configurations asked about, workable or not

ModelConfig ==
    [base_spread_bps : Nat, max_spread_bps : Nat,
     max_skew_shift_bps : Nat, size_fraction_bps : Nat]

ASSUME ModelAssumption == Models \subseteq ModelConfig

Widening(m) == m.max_spread_bps - m.base_spread_bps

\* A slip: a widening as large as the shift let through.
CheckedLoosely(m) ==
    /\ m.max_spread_bps < BPS_DENOM
    /\ m.base_spread_bps <= m.max_spread_bps
    /\ m.max_skew_shift_bps < BPS_DENOM
    /\ m.size_fraction_bps \in 1..BPS_DENOM

\* The configurations the engine starts with.
checked(m) ==
    /\ m.max_spread_bps < BPS_DENOM
    /\ m.base_spread_bps <= m.max_spread_bps
    /\ m.max_skew_shift_bps < BPS_DENOM
    /\ m.max_skew_shift_bps > Widening(m)
    /\ m.size_fraction_bps \in 1..BPS_DENOM

-----------------------------------------------------------------------------
\* How far the inventory has travelled toward the hard bound, past it no farther.
load(skew, bound) ==
    ((IF Abs(skew) < bound THEN Abs(skew) ELSE bound) * BPS_DENOM) \div bound

spread(m, l) == m.base_spread_bps + (Widening(m) * l) \div BPS_DENOM

\* Against the skew: too much base lowers both sides.
shift(m, skew, l) ==
    LET size == (m.max_skew_shift_bps * l) \div BPS_DENOM
    IN  IF skew > 0 THEN -size ELSE size

quote_as_base(inv, mid) == (inv.quote * PRICE_SCALE) \div mid

Payable(inv, mid) ==
    IF inv.base < quote_as_base(inv, mid) THEN inv.base ELSE quote_as_base(inv, mid)

\* A share of the side the vault would run out of first, cut at a u64.
size(m, inv, mid) ==
    LET share == (Payable(inv, mid) * m.size_fraction_bps) \div BPS_DENOM
    IN  IF FitsU64(share) THEN share ELSE U64Max

QuoteVerdict(inv, mid, bound) ==
    IF mid = 0 THEN "QuoteNotSet"
    ELSE IF bound = 0 THEN "InvalidParams"
    ELSE IF SkewOverflows(inv, mid) THEN "Overflow"
    ELSE "Ok"

\* SpreadSkewModel::quote at a given inventory skew.
QuoteAt(m, skew) ==
    LET l == load(skew, params.max_skew_bps)
    IN  [mid_e9 |-> params.mid_e9, spread_bps |-> spread(m, l),
         skew_bps |-> shift(m, skew, l), max_size_base |-> size(m, inventory, params.mid_e9)]

model_quote(m) == QuoteAt(m, inventory_skew_bps(inventory, params.mid_e9))

-----------------------------------------------------------------------------
(* Properties.                                                              *)

Priced == QuoteVerdict(inventory, params.mid_e9, params.max_skew_bps) = "Ok"

Factor(q, side) == (BPS_DENOM + q.skew_bps) * Sided(q, side)

\* Whatever configuration the engine starts with and whatever the treasury holds,
\* the model's numbers are ones the program and the router accept (SC-006): both
\* sides in their domain, and no order it admits larger than the base or the value of
\* the quote behind it.  And a treasury at the bound or past it with too much base
\* is offered strictly cheaper than a balanced one, the widest spread included
\* (FR-013).
ModelSteersBack ==
    Priced => \A m \in Models : checked(m) =>
        LET q == model_quote(m)
            skew == inventory_skew_bps(inventory, params.mid_e9)
        IN  /\ FactorInDomain(q)
            /\ q.max_size_base <= inventory.base
            /\ q.max_size_base * params.mid_e9 <= QuoteValue(inventory)
            /\ skew >= params.max_skew_bps =>
                   Factor(q, QuoteToBase) < Factor(QuoteAt(m, 0), QuoteToBase)

\* The same of a treasury with too little base, which unwinds by buying at the bid:
\* at the bound the bid is better for the trader than at balance.
BidSteersBack ==
    Priced => \A m \in Models : checked(m) =>
        LET skew == inventory_skew_bps(inventory, params.mid_e9)
        IN  skew <= -params.max_skew_bps =>
                Factor(model_quote(m), BaseToQuote) > Factor(QuoteAt(m, 0), BaseToQuote)
=============================================================================
