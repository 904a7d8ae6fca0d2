----------------------------- MODULE QuoteMath -----------------------------
(***************************************************************************)
(* The arithmetic of a swap (crates/propamm-quote/src/lib.rs): the one      *)
(* function that prices an order, shared by the on-chain program, which     *)
(* executes at its answer, and by the router adapter, which quotes it.      *)
(*                                                                          *)
(* Amounts, prices and slots are natural numbers; the widths of the Rust    *)
(* integers are the constants U64Max, U128Max and I128Max, and wherever the *)
(* code uses a checked operation the model has the refusal "Overflow".      *)
(* Bounds scale with the constants, so a small instance reaches the same    *)
(* edges the 64- and 128-bit build has.                                     *)
(*                                                                          *)
(* Names follow the source, e.g. side_price_e9.  A Rust Result is split in  *)
(* two operators: the verdict ("Ok", or the first error on the code's path) *)
(* and the value, which is meant only where the verdict is "Ok".            *)
(***************************************************************************)
EXTENDS Integers

CONSTANTS
    BPS_DENOM,    \* basis-point denominator, 10 000 in the source
    PRICE_SCALE,  \* fixed-point scale of a price, 10^9 in the source
    U64Max,       \* largest u64
    U128Max,      \* largest u128
    I128Max       \* largest i128

ASSUME MathAssumption ==
    /\ BPS_DENOM \in Nat \ {0}
    /\ PRICE_SCALE \in Nat \ {0}
    /\ U64Max \in Nat
    /\ U128Max \in Nat
    /\ I128Max \in Nat

FACTOR_DENOM == BPS_DENOM * BPS_DENOM

BaseToQuote == "BaseToQuote"
QuoteToBase == "QuoteToBase"
Sides == {BaseToQuote, QuoteToBase}

\* What a quote carries into the arithmetic (struct QuoteParams).
QuoteParams ==
    [mid_e9 : Nat, spread_bps : Nat, skew_bps : Int, max_size_base : Nat,
     quote_slot : Nat, max_quote_age_slots : Nat, max_skew_bps : Nat]

Inventory == [base : Nat, quote : Nat]

SwapRequest == [side : Sides, amount_in : Nat, min_amount_out : Nat]

FitsU64(x) == x <= U64Max
FitsU128(x) == x <= U128Max
FitsI128(x) == x \in -(I128Max + 1)..I128Max

Abs(x) == IF x < 0 THEN -x ELSE x

\* Rust's integer division, which rounds toward zero where \div rounds down.
TruncDiv(a, b) == IF a < 0 THEN -((-a) \div b) ELSE a \div b

\* saturating_sub
Monus(a, b) == IF a > b THEN a - b ELSE 0

-----------------------------------------------------------------------------
(* Prices *)

\* The limit itself is still fresh, and a slot before quote_slot is an age of zero.
is_fresh(p, now) == Monus(now, p.quote_slot) <= p.max_quote_age_slots

Skewed(p) == BPS_DENOM + p.skew_bps

Sided(p, side) ==
    IF side = BaseToQuote THEN BPS_DENOM - p.spread_bps
                          ELSE BPS_DENOM + p.spread_bps

\* Both factors positive: the skew must not cancel the mid, nor the spread reach 100%.
FactorInDomain(p) == Skewed(p) > 0 /\ p.spread_bps < BPS_DENOM

side_factor(p, side) == Skewed(p) * Sided(p, side)

mul_div_floor(a, b, d) == (a * b) \div d

\* A slip: the rounding bump forgotten.
CeilWithoutBump(a, b, d) == (a * b) \div d

mul_div_ceil(a, b, d) == (a * b + (d - 1)) \div d

\* The bid is rounded down and the ask up: both in the vault's favour.
side_price_e9(p, side) ==
    IF side = BaseToQuote
    THEN mul_div_floor(p.mid_e9, side_factor(p, side), FACTOR_DENOM)
    ELSE mul_div_ceil(p.mid_e9, side_factor(p, side), FACTOR_DENOM)

\* The product each side forms before it divides; the ask's carries the rounding bump.
PriceProduct(p, side) ==
    p.mid_e9 * side_factor(p, side)
        + IF side = BaseToQuote THEN 0 ELSE FACTOR_DENOM - 1

PriceVerdict(p, side) ==
    IF p.mid_e9 = 0 THEN "QuoteNotSet"
    ELSE IF ~FactorInDomain(p) THEN "InvalidParams"
    ELSE IF ~FitsU128(PriceProduct(p, side)) THEN "Overflow"
    ELSE "Ok"

-----------------------------------------------------------------------------
(* Inventory skew *)

BaseValue(inv, mid) == inv.base * mid
QuoteValue(inv) == inv.quote * PRICE_SCALE

SkewOverflows(inv, mid) ==
    LET b == BaseValue(inv, mid)
        q == QuoteValue(inv)
    IN  \/ ~FitsU128(b + q)
        \/ /\ b + q # 0
           /\ ~FitsI128(b + q) \/ ~FitsI128((b - q) * BPS_DENOM)

\* A slip: division that rounds down where Rust's rounds toward zero.
SkewRoundedDown(inv, mid) ==
    LET b == BaseValue(inv, mid)
        q == QuoteValue(inv)
    IN  IF b + q = 0 THEN 0 ELSE ((b - q) * BPS_DENOM) \div (b + q)

\* Positive: too much base; negative: too much quote; an empty treasury is balanced.
inventory_skew_bps(inv, mid) ==
    LET b == BaseValue(inv, mid)
        q == QuoteValue(inv)
    IN  IF b + q = 0 THEN 0 ELSE TruncDiv((b - q) * BPS_DENOM, b + q)

\* A slip: only an excess of base held against the bound.
BoundOnBaseOnly(before, after, max_skew) ==
    after > max_skew /\ Abs(after) > Abs(before)

\* The bound limits swaps, not states: a swap is refused only if it goes both past
\* the bound and past where the inventory already was.
exceeds_inventory_bound(before, after, max_skew) ==
    Abs(after) > max_skew /\ Abs(after) > Abs(before)

-----------------------------------------------------------------------------
(* The swap *)

\* A slip: the result rounded to the trader.
OutRoundedUp(p, req) ==
    LET price == side_price_e9(p, req.side)
    IN  IF req.side = BaseToQuote
        THEN mul_div_ceil(req.amount_in, price, PRICE_SCALE)
        ELSE mul_div_ceil(req.amount_in, PRICE_SCALE, price)

AmountOut(p, req) ==
    LET price == side_price_e9(p, req.side)
    IN  IF req.side = BaseToQuote
        THEN mul_div_floor(req.amount_in, price, PRICE_SCALE)
        ELSE mul_div_floor(req.amount_in, PRICE_SCALE, price)

\* The product AmountOut divides, checked as a u128.
OutProduct(p, req) ==
    req.amount_in * IF req.side = BaseToQuote THEN side_price_e9(p, req.side)
                                              ELSE PRICE_SCALE

\* The size limit is declared in the base asset, so the base leg is measured.
BaseLeg(req, out) == IF req.side = BaseToQuote THEN req.amount_in ELSE out

InventoryAfter(inv, req, out) ==
    IF req.side = BaseToQuote
    THEN [base |-> inv.base + req.amount_in, quote |-> inv.quote - out]
    ELSE [base |-> inv.base - out, quote |-> inv.quote + req.amount_in]

\* A slip: unchecked updates.
InventoryUnchecked(inv, req, out) == "Ok"

\* The checked updates of the two holdings, base first as the code writes them.
InventoryVerdict(inv, req, out) ==
    IF req.side = BaseToQuote
    THEN IF ~FitsU64(inv.base + req.amount_in) THEN "Overflow"
         ELSE IF inv.quote < out THEN "InsufficientLiquidity" ELSE "Ok"
    ELSE IF inv.base < out THEN "InsufficientLiquidity"
         ELSE IF ~FitsU64(inv.quote + req.amount_in) THEN "Overflow" ELSE "Ok"

\* A slip: a result equal to the declared bound refused.
LimitStrict(p, inv, req, out) ==
    IF out <= req.min_amount_out THEN "SlippageExceeded" ELSE "Ok"

\* The result bound and the inventory bound, for an order the treasury can pay.
LimitVerdict(p, inv, req, out) ==
    LET after == InventoryAfter(inv, req, out)
    IN  IF out < req.min_amount_out THEN "SlippageExceeded"
        ELSE IF SkewOverflows(inv, p.mid_e9) \/ SkewOverflows(after, p.mid_e9)
             THEN "Overflow"
        ELSE IF exceeds_inventory_bound(inventory_skew_bps(inv, p.mid_e9),
                                        inventory_skew_bps(after, p.mid_e9),
                                        p.max_skew_bps)
             THEN "InventoryBound"
        ELSE "Ok"

\* compute_swap's early returns in the order it makes them.
SwapVerdict(p, inv, req, now) ==
    LET out == AmountOut(p, req)
    IN  IF PriceVerdict(p, req.side) # "Ok" THEN PriceVerdict(p, req.side)
        ELSE IF ~is_fresh(p, now) THEN "QuoteStale"
        ELSE IF req.amount_in = 0 THEN "AmountTooSmall"
        ELSE IF ~FitsU128(OutProduct(p, req)) \/ ~FitsU64(out) THEN "Overflow"
        ELSE IF BaseLeg(req, out) > p.max_size_base THEN "SizeExceeded"
        ELSE IF out = 0 THEN "AmountTooSmall"
        ELSE IF InventoryVerdict(inv, req, out) # "Ok"
             THEN InventoryVerdict(inv, req, out)
        ELSE LimitVerdict(p, inv, req, out)

SwapAllowed(p, inv, req, now) == SwapVerdict(p, inv, req, now) = "Ok"
=============================================================================
