------------------------------ MODULE Pricing ------------------------------
(***************************************************************************)
(* What the arithmetic of QuoteMath promises to both sides of a trade, over *)
(* every quote and treasury of a bounded space.  The functions are pure, so *)
(* a state is one question put to them, a quote and a treasury, and no      *)
(* question leads to another.                                               *)
(***************************************************************************)
EXTENDS QuoteMath

CONSTANTS
    Mids, Spreads, Skews, Sizes,  \* the quotes asked about
    Ages, SkewBounds,             \* and the risk limits they stand under
    Holdings,                     \* what the treasury may hold of either asset
    Amounts                       \* the inputs and result bounds of orders

ASSUME PricingAssumption ==
    /\ Mids \subseteq Nat
    /\ Spreads \subseteq Nat
    /\ Skews \subseteq Int
    /\ Sizes \subseteq Nat
    /\ Ages \subseteq Nat
    /\ SkewBounds \subseteq Nat
    /\ Holdings \subseteq 0..U64Max  \* what a token account can hold
    /\ Amounts \subseteq Nat

VARIABLES params, inventory

vars == <<params, inventory>>

Init ==
    /\ \E mid \in Mids, spread \in Spreads, skew \in Skews, size \in Sizes,
          age \in Ages, bound \in SkewBounds :
           params = [mid_e9 |-> mid, spread_bps |-> spread, skew_bps |-> skew,
                     max_size_base |-> size, quote_slot |-> 0,
                     max_quote_age_slots |-> age, max_skew_bps |-> bound]
    /\ inventory \in [base : Holdings, quote : Holdings]

Next == UNCHANGED vars

Spec == Init /\ [][Next]_vars

TypeOK == params \in QuoteParams /\ inventory \in Inventory

-----------------------------------------------------------------------------
\* The quote prices both directions, which is what update_quote asks of it.
Postable == \A side \in Sides : PriceVerdict(params, side) = "Ok"

Order(side, in, least) ==
    [side |-> side, amount_in |-> in, min_amount_out |-> least]

Out(side, in) == AmountOut(params, Order(side, in, 0))

Opposite(side) == IF side = BaseToQuote THEN QuoteToBase ELSE BaseToQuote

\* Selling and buying straight back at one quote never returns more than was put
\* in, whichever leg is first and whatever the spread: the three roundings
\* (bid down, ask up, result down) all go the vault's way.
RoundTripNeverProfits ==
    Postable => \A side \in Sides, in \in Amounts :
                    Out(Opposite(side), Out(side, in)) <= in

\* An order cut in two at one quote never pays more than the order whole, so a
\* router gains nothing by splitting.
SplittingNeverPays ==
    Postable => \A side \in Sides, in1, in2 \in Amounts :
                    Out(side, in1) + Out(side, in2) <= Out(side, in1 + in2)

\* A side price is exact up to one unit of its scale and the unit is the
\* vault's: the bid is the largest integer not above mid * factor / BPS^2, the ask
\* the smallest not below it, and so the bid never crosses the ask.
PricesAreTight ==
    Postable =>
        LET bid == side_price_e9(params, BaseToQuote)
            ask == side_price_e9(params, QuoteToBase)
            exact(side) == params.mid_e9 * side_factor(params, side)
        IN  /\ bid * FACTOR_DENOM <= exact(BaseToQuote)
            /\ exact(BaseToQuote) < (bid + 1) * FACTOR_DENOM
            /\ exact(QuoteToBase) <= ask * FACTOR_DENOM
            /\ (ask - 1) * FACTOR_DENOM < exact(QuoteToBase)
            /\ 0 < ask /\ bid <= ask

\* The skew is a share: it stays within 100%, and a treasury and its mirror
\* image (the legs' values exchanged) are equally far from balance, so a bound
\* on its size treats both directions alike.  Rounding down instead of toward
\* zero would break the mirror.
SkewIsSymmetricShare ==
    LET skew == inventory_skew_bps(inventory, params.mid_e9)
        mirror == [base |-> QuoteValue(inventory),
                   quote |-> BaseValue(inventory, params.mid_e9)]
        mirrored == inventory_skew_bps(mirror, PRICE_SCALE)
    IN  /\ Abs(skew) <= BPS_DENOM
        /\ mirrored = -skew

\* The router asks with no result bound and then sends the answer as the bound
\* (SC-006): what was quoted is executable with min_amount_out equal to the
\* quoted output and with no larger one, whatever else the order meets.
QuotedIsExecutable ==
    \A side \in Sides, in \in Amounts :
        SwapAllowed(params, inventory, Order(side, in, 0), 0) =>
            \A least \in Amounts :
                SwapVerdict(params, inventory, Order(side, in, least), 0)
                    = IF least <= Out(side, in) THEN "Ok" ELSE "SlippageExceeded"

\* An accepted order leaves a treasury the token accounts can hold, no emptier than
\* zero, and never farther from balance than both the bound and where it was.
AcceptedOrdersAreSafe ==
    \A side \in Sides, in \in Amounts :
        LET order == Order(side, in, 0)
            after == InventoryAfter(inventory, order, Out(side, in))
        IN  SwapAllowed(params, inventory, order, 0) =>
                /\ after.base \in 0..U64Max /\ after.quote \in 0..U64Max
                /\ \/ Abs(inventory_skew_bps(after, params.mid_e9))
                          <= params.max_skew_bps
                   \/ Abs(inventory_skew_bps(after, params.mid_e9))
                          <= Abs(inventory_skew_bps(inventory, params.mid_e9))
=============================================================================
