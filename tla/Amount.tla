------------------------------- MODULE Amount -------------------------------
(***************************************************************************)
(* From the numbers a person types to the raw units of the chain and back   *)
(* (crates/propamm-cli/src/amount.rs).  The program reads no decimals, so   *)
(* nothing on the chain stands behind this conversion.                      *)
(*                                                                          *)
(* A number is the pair the parser makes of it, mantissa / RADIX^scale; the *)
(* way back is the number a reader of the printed text sees, so two texts   *)
(* that show one number are one value.  As in QuoteMath a Result is split   *)
(* into a verdict and a value, which is meant only where the verdict is     *)
(* "Ok".                                                                    *)
(***************************************************************************)
EXTENDS QuoteMath

INSTANCE FiniteSetsExt

CONSTANTS
    RADIX,            \* 10 in the source
    PRICE_SCALE_POW,  \* 9 in the source: PRICE_SCALE as a power of the radix
    MAX_SCALE         \* decimal places accepted in a typed number, 30 in the source

Decimal == [mantissa : Nat, scale : Nat]

\* What FromStr takes: neither a longer tail nor a mantissa wider than u128.
from_str(d) == d.scale <= MAX_SCALE /\ FitsU128(d.mantissa)

\* The powers of the radix, by the multiplications that make them.
powers[exponent \in Nat] == IF exponent = 0 THEN 1 ELSE RADIX * powers[exponent - 1]

pow10(exponent) == powers[exponent]

ASSUME AmountAssumption ==
    /\ RADIX \in Nat /\ RADIX > 1
    /\ PRICE_SCALE_POW \in Nat
    /\ PRICE_SCALE = pow10(PRICE_SCALE_POW)
    /\ MAX_SCALE \in Nat

\* Trailing zeros stripped: zero loses its whole scale.
normalized(d) ==
    LET zeros == Max({k \in 0..d.scale : d.mantissa % pow10(k) = 0})
    IN  [mantissa |-> d.mantissa \div pow10(zeros), scale |-> d.scale - zeros]

-----------------------------------------------------------------------------
(* Amounts *)

to_raw(d, decimals) ==
    LET value == normalized(d)
    IN  value.mantissa * pow10(decimals - value.scale)

\* Refused, never rounded: an amount finer than the smallest unit is a mistake.
ToRawVerdict(d, decimals) ==
    IF normalized(d).scale > decimals THEN "TooFine"
    ELSE IF ~FitsU64(to_raw(d, decimals)) THEN "TooLarge"
    ELSE IF to_raw(d, decimals) = 0 THEN "Zero"
    ELSE "Ok"

-----------------------------------------------------------------------------
(* Prices: raw units of quote per raw unit of base, times PRICE_SCALE. *)

MidNumerator(d, quote_decimals) ==
    normalized(d).mantissa * pow10(quote_decimals + PRICE_SCALE_POW)

\* A slip: the decimals of the base mint forgotten.
BaseDecimalsForgotten(d, base_decimals) == pow10(normalized(d).scale)

MidDenominator(d, base_decimals) == pow10(normalized(d).scale + base_decimals)

to_mid_e9(d, base_decimals, quote_decimals) ==
    MidNumerator(d, quote_decimals) \div MidDenominator(d, base_decimals)

\* Cannot refuse what does not divide, so it says whether the division came out even.
exact(d, base_decimals, quote_decimals) ==
    MidNumerator(d, quote_decimals) % MidDenominator(d, base_decimals) = 0

ToMidVerdict(d, base_decimals, quote_decimals) ==
    IF \/ ~FitsU128(MidNumerator(d, quote_decimals))
       \/ ~FitsU128(MidDenominator(d, base_decimals))
    THEN "TooLarge"
    ELSE IF to_mid_e9(d, base_decimals, quote_decimals) = 0 THEN "Zero"
    ELSE "Ok"

-----------------------------------------------------------------------------
(* The same price from the engine's side (propamm-engine/src/feed.rs): two prices *)
(* in a reference currency, mantissa * RADIX^expo each.                           *)

NoFeed == [mantissa |-> 1, expo |-> 0]  \* the quote asset taken at par

ScalePower(base, quote, base_decimals, quote_decimals) ==
    base.expo - quote.expo + quote_decimals - base_decimals + PRICE_SCALE_POW

ScaleProduct(mantissa, power) == mantissa * pow10(IF power > 0 THEN power ELSE 0)

feed_mid_e9(base, quote, base_decimals, quote_decimals) ==
    LET power == ScalePower(base, quote, base_decimals, quote_decimals)
    IN  ScaleProduct(base.mantissa, power) \div ScaleProduct(quote.mantissa, -power)

ScaleVerdict(base, quote, base_decimals, quote_decimals) ==
    LET power == ScalePower(base, quote, base_decimals, quote_decimals)
    IN  IF \/ ~FitsU128(ScaleProduct(base.mantissa, power))
           \/ ~FitsU128(ScaleProduct(quote.mantissa, -power))
        THEN "Overflow"
        ELSE IF feed_mid_e9(base, quote, base_decimals, quote_decimals) = 0 THEN "Zero"
        ELSE "Ok"

-----------------------------------------------------------------------------
(* What is printed *)

\* value / RADIX^scale, without trailing zeros.
render(value, scale) == normalized([mantissa |-> value, scale |-> scale])

format_raw(raw, decimals) == render(raw, decimals)

\* A price too large for this form is printed raw instead; that fallback is left out.
format_mid_e9(mid_e9, base_decimals, quote_decimals) ==
    render(mid_e9 * pow10(base_decimals), PRICE_SCALE_POW + quote_decimals)
=============================================================================
