-------------------------- MODULE QuoteMathProofs --------------------------
(***************************************************************************)
(* Lemmas about the operators of QuoteMath, for every value of its          *)
(* constants: what floor and ceiling division return, and what follows for  *)
(* the prices, the output of an order and the skew.                         *)
(***************************************************************************)
EXTENDS QuoteMath, TLAPS

\* Floor division: the quotient of naturals is the largest natural not above the ratio.
LEMMA FloorBounds ==
    ASSUME NEW x \in Nat, NEW d \in Nat \ {0}
    PROVE  /\ x \div d \in Nat
           /\ (x \div d) * d <= x
           /\ x < ((x \div d) + 1) * d
  BY SMT

\* A quotient is below any bound whose multiple reaches the dividend.
LEMMA FloorLeast ==
    ASSUME NEW x \in Nat, NEW d \in Nat \ {0}, NEW n \in Nat, x <= n * d
    PROVE  x \div d <= n
  <1> DEFINE k == x \div d
  <1>1. k \in Nat /\ k * d <= x
    BY FloorBounds
  <1> HIDE DEF k
  <1>2. ASSUME k > n PROVE FALSE
    <2>1. (n + 1) * d <= k * d
      BY <1>1, <1>2, SMT
    <2>2. (n + 1) * d = n * d + d
      BY SMT
    <2> QED
      BY <1>1, <2>1, <2>2, SMT
  <1>3. k <= n
    BY <1>1, <1>2, SMT
  <1> QED
    BY <1>3 DEF k

\* A quotient reaches any natural whose multiple stays within the dividend.
LEMMA FloorGreatest ==
    ASSUME NEW x \in Nat, NEW d \in Nat \ {0}, NEW n \in Nat, n * d <= x
    PROVE  n <= x \div d
  <1> DEFINE k == x \div d
  <1>1. k \in Nat /\ x < (k + 1) * d
    BY FloorBounds
  <1> HIDE DEF k
  <1>2. ASSUME k < n PROVE FALSE
    <2>1. (k + 1) * d <= n * d
      BY <1>1, <1>2, SMT
    <2> QED
      BY <1>1, <2>1, SMT
  <1>3. n <= k
    BY <1>1, <1>2, SMT
  <1> QED
    BY <1>3 DEF k

\* Products of naturals are monotone.
LEMMA ProductMonotone ==
    ASSUME NEW a \in Nat, NEW b \in Nat, NEW c \in Nat, a <= b
    PROVE  a * c <= b * c /\ c * a <= c * b
  BY SMT

\* Ceiling division, as mul_div_ceil writes it: the smallest natural not below the ratio.
LEMMA CeilBounds ==
    ASSUME NEW x \in Nat, NEW d \in Nat \ {0}
    PROVE  LET c == (x + (d - 1)) \div d
           IN  c \in Nat /\ x <= c * d /\ (c - 1) * d < x
  <1> DEFINE c == (x + (d - 1)) \div d
  <1>1. x + (d - 1) \in Nat
    BY SMT
  <1>2. c \in Nat /\ c * d <= x + (d - 1) /\ x + (d - 1) < (c + 1) * d
    BY <1>1, FloorBounds
  <1> HIDE DEF c
  <1>3. (c + 1) * d = c * d + d /\ (c - 1) * d = c * d - d
    BY <1>2, SMT
  <1>4. c \in Nat /\ x <= c * d /\ (c - 1) * d < x
    BY <1>2, <1>3, SMT
  <1> QED
    BY <1>4 DEF c

\* The denominator of the two bps factors is positive.
LEMMA FactorDenomPositive == FACTOR_DENOM \in Nat \ {0}
  BY MathAssumption, SMT DEF FACTOR_DENOM

\* Inside the domain the bid's factor is positive and not above the ask's.
LEMMA FactorsOrdered ==
    ASSUME NEW p \in QuoteParams, FactorInDomain(p)
    PROVE  /\ side_factor(p, BaseToQuote) \in Nat \ {0}
           /\ side_factor(p, QuoteToBase) \in Nat \ {0}
           /\ side_factor(p, BaseToQuote) <= side_factor(p, QuoteToBase)
  <1> DEFINE k == Skewed(p)
             lo == Sided(p, BaseToQuote)
             hi == Sided(p, QuoteToBase)
  <1>1. k \in Nat \ {0} /\ lo \in Nat \ {0} /\ hi \in Nat \ {0} /\ lo <= hi
    BY MathAssumption, SMT
       DEF FactorInDomain, QuoteParams, Skewed, Sided, BaseToQuote, QuoteToBase
  <1>2. /\ side_factor(p, BaseToQuote) = k * lo
        /\ side_factor(p, QuoteToBase) = k * hi
    BY DEF side_factor
  <1> HIDE DEF k, lo, hi
  <1>3. k * lo \in Nat \ {0} /\ k * hi \in Nat \ {0} /\ k * lo <= k * hi
    BY <1>1, SMT
  <1> QED
    BY <1>2, <1>3

\* Each side price brackets the exact ratio on the vault's side of it.
LEMMA PricesBracket ==
    ASSUME NEW p \in QuoteParams, FactorInDomain(p), p.mid_e9 # 0
    PROVE  LET bid == side_price_e9(p, BaseToQuote)
               ask == side_price_e9(p, QuoteToBase)
               low == p.mid_e9 * side_factor(p, BaseToQuote)
               high == p.mid_e9 * side_factor(p, QuoteToBase)
           IN  /\ low \in Nat /\ high \in Nat \ {0} /\ low <= high
               /\ bid \in Nat /\ bid * FACTOR_DENOM <= low
               /\ low < (bid + 1) * FACTOR_DENOM
               /\ ask \in Nat /\ high <= ask * FACTOR_DENOM
               /\ (ask - 1) * FACTOR_DENOM < high
  <1> DEFINE m == p.mid_e9
             f == side_factor(p, BaseToQuote)
             g == side_factor(p, QuoteToBase)
             D == FACTOR_DENOM
             low == m * f
             high == m * g
             bid == side_price_e9(p, BaseToQuote)
             ask == side_price_e9(p, QuoteToBase)
  <1>1. m \in Nat \ {0} /\ f \in Nat \ {0} /\ g \in Nat \ {0} /\ f <= g
    BY FactorsOrdered DEF QuoteParams
  <1>2. D \in Nat \ {0}
    BY FactorDenomPositive
  <1>3. bid = low \div D
    BY DEF side_price_e9, mul_div_floor
  <1>4. ask = (high + (D - 1)) \div D
    BY DEF side_price_e9, mul_div_ceil, BaseToQuote, QuoteToBase
  <1> HIDE DEF m, f, g, D, bid, ask
  <1>5. low \in Nat /\ high \in Nat \ {0} /\ low <= high
    BY <1>1, SMT
  <1> HIDE DEF low, high
  <1>6. bid \in Nat /\ bid * D <= low /\ low < (bid + 1) * D
    BY <1>2, <1>3, <1>5, FloorBounds
  <1>7. ask \in Nat /\ high <= ask * D /\ (ask - 1) * D < high
    BY <1>2, <1>4, <1>5, CeilBounds
  <1> QED
    BY <1>5, <1>6, <1>7 DEF m, f, g, D, low, high, bid, ask

\* The ask is positive, so the division by it is defined, and the bid does not cross it.
LEMMA BidNotAboveAsk ==
    ASSUME NEW p \in QuoteParams, FactorInDomain(p), p.mid_e9 # 0
    PROVE  /\ side_price_e9(p, BaseToQuote) \in Nat
           /\ side_price_e9(p, QuoteToBase) \in Nat \ {0}
           /\ side_price_e9(p, BaseToQuote) <= side_price_e9(p, QuoteToBase)
  <1> DEFINE bid == side_price_e9(p, BaseToQuote)
             ask == side_price_e9(p, QuoteToBase)
             low == p.mid_e9 * side_factor(p, BaseToQuote)
             high == p.mid_e9 * side_factor(p, QuoteToBase)
             D == FACTOR_DENOM
  <1>1. /\ low \in Nat /\ high \in Nat \ {0} /\ low <= high
        /\ bid \in Nat /\ bid * D <= low
        /\ ask \in Nat /\ high <= ask * D
    BY PricesBracket
  <1>2. D \in Nat \ {0}
    BY FactorDenomPositive
  <1> HIDE DEF bid, ask, low, high, D
  <1>3. ask # 0
    BY <1>1, <1>2, SMT
  <1>4. bid * D <= ask * D
    BY <1>1, <1>2, SMT
  <1>5. bid <= ask
    BY <1>1, <1>2, <1>4, SMT
  <1> QED
    BY <1>1, <1>3, <1>5 DEF bid, ask

\* What an order pays is a natural, and its worth at the side price is not above the input's.
LEMMA OutBounds ==
    ASSUME NEW p \in QuoteParams, FactorInDomain(p), p.mid_e9 # 0,
           NEW req \in SwapRequest
    PROVE  LET out == AmountOut(p, req)
               price == side_price_e9(p, req.side)
           IN  /\ out \in Nat
               /\ req.side = BaseToQuote => out * PRICE_SCALE <= req.amount_in * price
               /\ req.side = QuoteToBase => out * price <= req.amount_in * PRICE_SCALE
  <1> DEFINE out == AmountOut(p, req)
             price == side_price_e9(p, req.side)
             in == req.amount_in
  <1>1. in \in Nat /\ req.side \in Sides /\ PRICE_SCALE \in Nat \ {0}
    BY MathAssumption DEF SwapRequest
  <1>2. CASE req.side = BaseToQuote
    <2>1. price \in Nat
      BY <1>2, BidNotAboveAsk
    <2>2. out = (in * price) \div PRICE_SCALE
      BY <1>2 DEF AmountOut, mul_div_floor
    <2> HIDE DEF out, price, in
    <2>3. in * price \in Nat
      BY <1>1, <2>1, SMT
    <2>4. out \in Nat /\ out * PRICE_SCALE <= in * price
      BY <1>1, <2>2, <2>3, FloorBounds
    <2> QED
      BY <1>2, <2>4 DEF out, price, in, BaseToQuote, QuoteToBase
  <1>3. CASE req.side = QuoteToBase
    <2>1. price \in Nat \ {0}
      BY <1>3, BidNotAboveAsk
    <2>2. out = (in * PRICE_SCALE) \div price
      BY <1>3 DEF AmountOut, mul_div_floor, BaseToQuote, QuoteToBase
    <2> HIDE DEF out, price, in
    <2>3. in * PRICE_SCALE \in Nat
      BY <1>1, SMT
    <2>4. out \in Nat /\ out * price <= in * PRICE_SCALE
      BY <2>1, <2>2, <2>3, FloorBounds
    <2> QED
      BY <1>3, <2>4 DEF out, price, in, BaseToQuote, QuoteToBase
  <1> QED
    BY <1>1, <1>2, <1>3 DEF Sides

\* Scaling dividend and divisor alike leaves the quotient alone.
LEMMA FloorScales ==
    ASSUME NEW x \in Nat, NEW d \in Nat \ {0}, NEW k \in Nat \ {0}
    PROVE  (k * x) \div (k * d) = x \div d
  <1> DEFINE q == x \div d
  <1>1. q \in Nat /\ q * d <= x /\ x < (q + 1) * d
    BY FloorBounds
  <1> HIDE DEF q
  <1>2. k * x \in Nat /\ k * d \in Nat \ {0}
    BY SMT
  <1>3. q * (k * d) <= k * x
    <2>1. k * (q * d) <= k * x
      BY <1>1, SMT
    <2>2. k * (q * d) = q * (k * d)
      BY <1>1, SMT
    <2> QED
      BY <2>1, <2>2
  <1>4. k * x < (q + 1) * (k * d)
    <2>1. k * x < k * ((q + 1) * d)
      BY <1>1, SMT
    <2>2. k * ((q + 1) * d) = (q + 1) * (k * d)
      BY <1>1, SMT
    <2> QED
      BY <2>1, <2>2
  <1> DEFINE r == (k * x) \div (k * d)
  <1>5. r \in Nat /\ r * (k * d) <= k * x /\ k * x < (r + 1) * (k * d)
    BY <1>2, FloorBounds
  <1>6. q <= r
    BY <1>1, <1>2, <1>3, FloorGreatest
  <1> HIDE DEF r
  <1>7. ASSUME r > q PROVE FALSE
    <2>1. (q + 1) * (k * d) <= r * (k * d)
      BY <1>1, <1>2, <1>5, <1>7, SMT
    <2> QED
      BY <1>1, <1>2, <1>4, <1>5, <2>1, SMT
  <1>8. r = q
    BY <1>1, <1>5, <1>6, <1>7, SMT
  <1> QED
    BY <1>8 DEF q, r

\* A share rounded toward zero stays within 100%, and changes sign with its numerator.
LEMMA TruncatedShare ==
    ASSUME NEW b \in Nat, NEW q \in Nat, b + q # 0
    PROVE  LET share == TruncDiv((b - q) * BPS_DENOM, b + q)
           IN  /\ share \in Int /\ Abs(share) <= BPS_DENOM
               /\ TruncDiv((q - b) * BPS_DENOM, q + b) = -share
  <1> DEFINE B == BPS_DENOM
             t == b + q
  <1>1. B \in Nat \ {0} /\ t \in Nat \ {0} /\ q + b = t
    BY MathAssumption
  <1>2. ASSUME NEW n \in Nat, n <= t
        PROVE  /\ n * B \in Nat
               /\ (n * B) \div t \in Nat
               /\ (n * B) \div t <= B
    <2> HIDE DEF t, B
    <2>1. n * B \in Nat
      BY <1>1, SMT
    <2>2. n * B <= B * t
      BY <1>1, <1>2, SMT
    <2> QED
      BY <1>1, <2>1, <2>2, FloorBounds, FloorLeast
  <1>3. CASE b >= q
    <2> DEFINE n == b - q
    <2>1. n \in Nat /\ n <= t
      BY <1>3
    <2>2. (b - q) * B = n * B /\ (q - b) * B = -(n * B)
      BY <1>1, <2>1
    <2>3. /\ n * B \in Nat
          /\ (n * B) \div t \in Nat
          /\ (n * B) \div t <= B
      BY <1>2, <2>1
    <2>4. TruncDiv((b - q) * B, t) = (n * B) \div t
      BY <2>2, <2>3 DEF TruncDiv
    <2>5. TruncDiv((q - b) * B, t) = -((n * B) \div t)
      <3>1. CASE n * B = 0
        <4>1. 0 \div t = 0
          BY <1>1, SMT
        <4> QED
          BY <2>2, <3>1, <4>1 DEF TruncDiv
      <3>2. CASE n * B # 0
        <4> HIDE DEF n, B, t
        <4>1. (q - b) * B < 0 /\ -((q - b) * B) = n * B
          BY <2>2, <2>3, <3>2
        <4> QED
          BY <4>1 DEF TruncDiv
      <3> QED
        BY <3>1, <3>2
    <2> HIDE DEF n, B
    <2> QED
      BY <1>1, <2>3, <2>4, <2>5 DEF Abs, B
  <1>4. CASE b < q
    <2> DEFINE n == q - b
    <2>1. n \in Nat /\ n <= t /\ n # 0
      BY <1>4
    <2>2. (q - b) * B = n * B /\ (b - q) * B = -(n * B)
      BY <1>1, <2>1
    <2>3. /\ n * B \in Nat
          /\ (n * B) \div t \in Nat
          /\ (n * B) \div t <= B
      BY <1>2, <2>1
    <2>4. n * B # 0
      <3> HIDE DEF n, B
      <3> QED
        BY <1>1, <2>1, SMT
    <2>5. TruncDiv((q - b) * B, t) = (n * B) \div t
      BY <2>2, <2>3 DEF TruncDiv
    <2>6. TruncDiv((b - q) * B, t) = -((n * B) \div t)
      <3> HIDE DEF n, B, t
      <3>1. (b - q) * B < 0 /\ -((b - q) * B) = n * B
        BY <2>2, <2>3, <2>4
      <3> QED
        BY <3>1 DEF TruncDiv
    <2> HIDE DEF n, B
    <2> QED
      BY <1>1, <2>3, <2>5, <2>6 DEF Abs, B
  <1> QED
    BY <1>3, <1>4

\* The skew of a treasury is an integer share of at most 100% either way.
LEMMA SkewBounded ==
    ASSUME NEW inv \in Inventory, NEW mid \in Nat
    PROVE  /\ inventory_skew_bps(inv, mid) \in Int
           /\ Abs(inventory_skew_bps(inv, mid)) <= BPS_DENOM
  <1> DEFINE b == BaseValue(inv, mid)
             q == QuoteValue(inv)
  <1>1. b \in Nat /\ q \in Nat
    BY MathAssumption, SMT DEF Inventory, BaseValue, QuoteValue
  <1>2. inventory_skew_bps(inv, mid)
            = IF b + q = 0 THEN 0 ELSE TruncDiv((b - q) * BPS_DENOM, b + q)
    BY DEF inventory_skew_bps
  <1> HIDE DEF b, q
  <1> QED
    BY <1>1, <1>2, TruncatedShare, MathAssumption DEF Abs
=============================================================================
