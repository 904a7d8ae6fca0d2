--------------------------- MODULE PricingProofs ---------------------------
(***************************************************************************)
(* The promises of Pricing for every scale, width, quote, treasury and      *)
(* order.  The module has no steps of its own, so each theorem says that    *)
(* the property holds of every typed quote and treasury.                    *)
(*                                                                          *)
(* And those of the built-in model, for every configuration it accepts: its *)
(* numbers are a quote, and too much base is offered cheaper at the bound   *)
(* than at balance.  The converse of too little base does not hold, and the *)
(* steering run shows an instance.                                          *)
(***************************************************************************)
EXTENDS SpreadSkew, QuoteMathProofs

LEMMA InitTyped == Init => TypeOK
  <1> SUFFICES ASSUME Init PROVE TypeOK
    OBVIOUS
  <1>1. params \in QuoteParams
    BY PricingAssumption, SMT DEF Init, QuoteParams
  <1>2. inventory \in Inventory
    <2>1. Holdings \subseteq Nat
      BY PricingAssumption, MathAssumption, SMT
    <2> QED
      BY <2>1 DEF Init, Inventory
  <1> QED
    BY <1>1, <1>2 DEF TypeOK

\* The quotes and treasuries asked about are always of the types the code declares.
THEOREM PricingTyped == Spec => []TypeOK
  <1>1. TypeOK /\ [Next]_vars => TypeOK'
    BY DEF TypeOK, Next, vars
  <1> QED
    BY InitTyped, <1>1, PTL DEF Spec

\* A postable quote is inside the factors' domain and has a mid.
LEMMA PostableDomain ==
    ASSUME Postable
    PROVE  params.mid_e9 # 0 /\ FactorInDomain(params)
  <1>1. PriceVerdict(params, BaseToQuote) = "Ok"
    BY DEF Postable, Sides
  <1> QED
    BY <1>1 DEF PriceVerdict

\* The prices bracket their exact ratios and the bid never crosses the ask.
THEOREM PricesTight == Spec => []PricesAreTight
  <1>1. TypeOK => PricesAreTight
    <2> SUFFICES ASSUME TypeOK, Postable PROVE PricesAreTight
      BY DEF PricesAreTight
    <2>1. params \in QuoteParams /\ FactorInDomain(params) /\ params.mid_e9 # 0
      BY PostableDomain DEF TypeOK
    <2>2. /\ side_price_e9(params, BaseToQuote) \in Nat
          /\ side_price_e9(params, QuoteToBase) \in Nat \ {0}
          /\ side_price_e9(params, BaseToQuote) <= side_price_e9(params, QuoteToBase)
      BY <2>1, BidNotAboveAsk
    <2>3. 0 < side_price_e9(params, QuoteToBase)
      BY <2>2
    <2> QED
      BY <2>1, <2>2, <2>3, PricesBracket DEF PricesAreTight
  <1> QED
    BY <1>1, PricingTyped, PTL

\* No order followed by its opposite at the same quote returns more than it put in.
THEOREM NoRoundTripProfit == Spec => []RoundTripNeverProfits
  <1>1. TypeOK => RoundTripNeverProfits
    <2> SUFFICES ASSUME TypeOK, Postable, NEW side \in Sides, NEW in \in Amounts
                 PROVE  Out(Opposite(side), Out(side, in)) <= in
      BY DEF RoundTripNeverProfits
    <2> DEFINE bid == side_price_e9(params, BaseToQuote)
               ask == side_price_e9(params, QuoteToBase)
               S == PRICE_SCALE
    <2>1. params \in QuoteParams /\ FactorInDomain(params) /\ params.mid_e9 # 0
      BY PostableDomain DEF TypeOK
    <2>2. bid \in Nat /\ ask \in Nat \ {0} /\ bid <= ask
      BY <2>1, BidNotAboveAsk
    <2>3. S \in Nat \ {0} /\ in \in Nat
      BY MathAssumption, PricingAssumption
    <2>4. ASSUME NEW x \in Nat
          PROVE  /\ Out(BaseToQuote, x) = (x * bid) \div S
                 /\ Out(QuoteToBase, x) = (x * S) \div ask
      BY DEF Out, Order, AmountOut, mul_div_floor, BaseToQuote, QuoteToBase
    <2> HIDE DEF bid, ask, S
    <2>5. ASSUME NEW x \in Nat PROVE x * bid \in Nat /\ x * S \in Nat
      BY <2>2, <2>3, SMT
    <2>6. CASE side = BaseToQuote
      <3> DEFINE q == (in * bid) \div S
      <3>1. q \in Nat /\ q * S <= in * bid
        BY <2>3, <2>5, FloorBounds
      <3>2. Out(Opposite(side), Out(side, in)) = (q * S) \div ask
        BY <2>3, <2>4, <2>6, <3>1 DEF Opposite
      <3> HIDE DEF q
      <3>3. q * S <= in * ask
        <4>1. in * bid <= in * ask
          BY <2>2, <2>3, SMT
        <4> QED
          BY <2>2, <2>3, <2>5, <3>1, <4>1, SMT
      <3> QED
        BY <2>2, <2>3, <2>5, <3>1, <3>2, <3>3, FloorLeast
    <2>7. CASE side = QuoteToBase
      <3> DEFINE b == (in * S) \div ask
      <3>1. b \in Nat /\ b * ask <= in * S
        BY <2>2, <2>3, <2>5, FloorBounds
      <3>2. Out(Opposite(side), Out(side, in)) = (b * bid) \div S
        BY <2>3, <2>4, <2>7, <3>1 DEF Opposite, BaseToQuote, QuoteToBase
      <3> HIDE DEF b
      <3>3. b * bid <= in * S
        <4>1. b * bid <= b * ask
          BY <2>2, <3>1, SMT
        <4> QED
          BY <2>2, <2>3, <2>5, <3>1, <4>1, SMT
      <3> QED
        BY <2>2, <2>3, <2>5, <3>1, <3>2, <3>3, FloorLeast
    <2> QED
      BY <2>6, <2>7 DEF Sides
  <1> QED
    BY <1>1, PricingTyped, PTL

\* Floors of a sum dominate the sum of floors.
LEMMA FloorsAdd ==
    ASSUME NEW x \in Nat, NEW y \in Nat, NEW d \in Nat \ {0}
    PROVE  (x \div d) + (y \div d) <= (x + y) \div d
  <1> DEFINE j == x \div d
             k == y \div d
  <1>1. j \in Nat /\ k \in Nat /\ j * d <= x /\ k * d <= y
    BY FloorBounds
  <1> HIDE DEF j, k
  <1>2. (j + k) * d <= x + y
    <2>1. (j + k) * d = j * d + k * d
      BY <1>1, SMT
    <2> QED
      BY <1>1, <2>1, SMT
  <1>3. j + k \in Nat /\ x + y \in Nat
    BY <1>1
  <1>4. j + k <= (x + y) \div d
    BY <1>2, <1>3, FloorGreatest
  <1> QED
    BY <1>4 DEF j, k

\* Cutting an order in two never pays more than the order whole.
THEOREM NoSplittingGain == Spec => []SplittingNeverPays
  <1>1. TypeOK => SplittingNeverPays
    <2> SUFFICES ASSUME TypeOK, Postable, NEW side \in Sides,
                        NEW in1 \in Amounts, NEW in2 \in Amounts
                 PROVE  Out(side, in1) + Out(side, in2) <= Out(side, in1 + in2)
      BY DEF SplittingNeverPays
    <2> DEFINE price == side_price_e9(params, side)
               num == IF side = BaseToQuote THEN price ELSE PRICE_SCALE
               den == IF side = BaseToQuote THEN PRICE_SCALE ELSE price
    <2>1. params \in QuoteParams /\ FactorInDomain(params) /\ params.mid_e9 # 0
      BY PostableDomain DEF TypeOK
    <2>2. num \in Nat /\ den \in Nat \ {0}
      BY <2>1, BidNotAboveAsk, MathAssumption DEF Sides
    <2>3. ASSUME NEW x \in Nat PROVE Out(side, x) = (x * num) \div den
      BY DEF Out, Order, AmountOut, mul_div_floor
    <2>4. in1 \in Nat /\ in2 \in Nat /\ in1 + in2 \in Nat
      BY PricingAssumption
    <2> HIDE DEF num, den
    <2>5. /\ in1 * num \in Nat /\ in2 * num \in Nat
          /\ (in1 + in2) * num = in1 * num + in2 * num
      BY <2>2, <2>4, SMT
    <2> QED
      BY <2>2, <2>3, <2>4, <2>5, FloorsAdd
  <1> QED
    BY <1>1, PricingTyped, PTL

\* The skew is a share of at most 100%, and mirrored legs give the opposite share.
THEOREM SkewSymmetric == Spec => []SkewIsSymmetricShare
  <1>1. TypeOK => SkewIsSymmetricShare
    <2> SUFFICES ASSUME TypeOK PROVE SkewIsSymmetricShare
      OBVIOUS
    <2> DEFINE b == BaseValue(inventory, params.mid_e9)
               q == QuoteValue(inventory)
               S == PRICE_SCALE
               B == BPS_DENOM
               mirror == [base |-> q, quote |-> b]
    <2>1. /\ b \in Nat /\ q \in Nat /\ S \in Nat \ {0} /\ B \in Nat \ {0}
      BY MathAssumption, SMT
         DEF TypeOK, Inventory, QuoteParams, BaseValue, QuoteValue
    <2>2. Abs(inventory_skew_bps(inventory, params.mid_e9)) <= BPS_DENOM
      BY SkewBounded DEF TypeOK, QuoteParams
    <2>3. inventory_skew_bps(inventory, params.mid_e9)
              = IF b + q = 0 THEN 0 ELSE TruncDiv((b - q) * B, b + q)
      BY DEF inventory_skew_bps
    <2>4. inventory_skew_bps(mirror, S)
              = IF q * S + b * S = 0 THEN 0
                ELSE TruncDiv((q * S - b * S) * B, q * S + b * S)
      BY DEF inventory_skew_bps, BaseValue, QuoteValue
    <2> HIDE DEF b, q, S, B
    <2>5. (b + q = 0) <=> (q * S + b * S = 0)
      BY <2>1, SMT
    <2>6. CASE b + q = 0
      BY <2>2, <2>3, <2>4, <2>5, <2>6 DEF SkewIsSymmetricShare, mirror, b, q, S
    <2>7. CASE b + q # 0
      <3>1. TruncDiv((q - b) * B, q + b) = -TruncDiv((b - q) * B, b + q)
        BY <2>1, <2>7, TruncatedShare DEF B
      <3>2. TruncDiv((q * S - b * S) * B, q * S + b * S) = TruncDiv((q - b) * B, q + b)
        <4> DEFINE n == (q - b) * B
        <4>1. n \in Int /\ q + b \in Nat \ {0} /\ q * S + b * S = S * (q + b)
          BY <2>1, <2>7, SMT
        <4>2. (q * S - b * S) * B = S * n
          BY <2>1, SMT
        <4> HIDE DEF n
        <4>3. TruncDiv(S * n, S * (q + b)) = TruncDiv(n, q + b)
          <5>1. CASE n >= 0
            <6>1. n \in Nat /\ S * n \in Nat
              BY <2>1, <4>1, <5>1, SMT
            <6>2. (S * n) \div (S * (q + b)) = n \div (q + b)
              BY <2>1, <4>1, <6>1, FloorScales
            <6> QED
              BY <6>1, <6>2 DEF TruncDiv
          <5>2. CASE n < 0
            <6>1. -n \in Nat /\ S * n < 0 /\ -(S * n) = S * (-n)
              BY <2>1, <4>1, <5>2, SMT
            <6>2. (S * (-n)) \div (S * (q + b)) = (-n) \div (q + b)
              BY <2>1, <4>1, <6>1, FloorScales
            <6> QED
              BY <5>2, <6>1, <6>2 DEF TruncDiv
          <5> QED
            BY <4>1, <5>1, <5>2
        <4> QED
          BY <4>1, <4>2, <4>3 DEF n
      <3>3. inventory_skew_bps(mirror, S)
                = -inventory_skew_bps(inventory, params.mid_e9)
        BY <2>3, <2>4, <2>5, <2>7, <3>1, <3>2
      <3> QED
        BY <2>2, <3>3 DEF SkewIsSymmetricShare, mirror, b, q, S
    <2> QED
      BY <2>6, <2>7
  <1> QED
    BY <1>1, PricingTyped, PTL

\* What the verdict on an allowed order says of its parts.
LEMMA AllowedParts ==
    ASSUME TypeOK, NEW side \in Sides, NEW in \in Amounts,
           SwapAllowed(params, inventory, Order(side, in, 0), 0)
    PROVE  /\ PriceVerdict(params, side) = "Ok"
           /\ Out(side, in) \in Nat
           /\ InventoryVerdict(inventory, Order(side, in, 0), Out(side, in)) = "Ok"
           /\ LimitVerdict(params, inventory, Order(side, in, 0), Out(side, in)) = "Ok"
  <1>1. Order(side, in, 0).side = side
    BY DEF Order
  <1>2. SwapVerdict(params, inventory, Order(side, in, 0), 0) = "Ok"
    BY DEF SwapAllowed
  <1>3. /\ PriceVerdict(params, side) = "Ok"
        /\ InventoryVerdict(inventory, Order(side, in, 0), Out(side, in)) = "Ok"
        /\ LimitVerdict(params, inventory, Order(side, in, 0), Out(side, in)) = "Ok"
    BY <1>1, <1>2 DEF SwapVerdict, Out
  <1>4. params.mid_e9 # 0 /\ FactorInDomain(params)
    BY <1>3 DEF PriceVerdict
  <1>5. Order(side, in, 0) \in SwapRequest
    BY PricingAssumption DEF Order, SwapRequest
  <1>6. Out(side, in) \in Nat
    BY <1>4, <1>5, OutBounds DEF TypeOK, Out
  <1> QED
    BY <1>3, <1>6

\* The bound a trader sets is the only thing that tells two orders of one size apart.
THEOREM QuotesExecute == Spec => []QuotedIsExecutable
  <1>1. TypeOK => QuotedIsExecutable
    <2> SUFFICES ASSUME TypeOK, NEW side \in Sides, NEW in \in Amounts, NEW least \in Amounts,
                        SwapAllowed(params, inventory, Order(side, in, 0), 0)
                 PROVE  SwapVerdict(params, inventory, Order(side, in, least), 0)
                            = IF least <= Out(side, in) THEN "Ok" ELSE "SlippageExceeded"
      BY DEF QuotedIsExecutable
    <2> DEFINE asked == Order(side, in, 0)
               sent == Order(side, in, least)
               out == Out(side, in)
    <2>1. /\ sent.side = asked.side /\ sent.amount_in = asked.amount_in
          /\ sent.min_amount_out = least /\ asked.min_amount_out = 0
      BY DEF Order
    <2>2. out \in Nat /\ least \in Nat
      BY AllowedParts, PricingAssumption
    <2>3. /\ AmountOut(params, asked) = out /\ AmountOut(params, sent) = out
          /\ OutProduct(params, sent) = OutProduct(params, asked)
          /\ BaseLeg(sent, out) = BaseLeg(asked, out)
          /\ InventoryAfter(inventory, sent, out) = InventoryAfter(inventory, asked, out)
          /\ InventoryVerdict(inventory, sent, out) = InventoryVerdict(inventory, asked, out)
      BY <2>1 DEF Out, AmountOut, OutProduct, BaseLeg, InventoryAfter, InventoryVerdict
    <2>4. SwapVerdict(params, inventory, asked, 0) = "Ok"
      BY DEF SwapAllowed
    <2>5. SwapVerdict(params, inventory, sent, 0) = LimitVerdict(params, inventory, sent, out)
      BY <2>1, <2>3, <2>4 DEF SwapVerdict
    <2>6. LimitVerdict(params, inventory, asked, out) = "Ok"
      BY AllowedParts
    <2>7. LimitVerdict(params, inventory, sent, out)
              = IF out < least THEN "SlippageExceeded" ELSE "Ok"
      <3>1. ~(out < 0)
        BY <2>2, SMT
      <3> HIDE DEF out, asked, sent
      <3> QED
        BY <2>1, <2>3, <2>6, <3>1 DEF LimitVerdict
    <2> HIDE DEF out, sent
    <2>8. (least <= out) <=> ~(out < least)
      BY <2>2, SMT
    <2> QED
      BY <2>5, <2>7, <2>8 DEF out, sent
  <1> QED
    BY <1>1, PricingTyped, PTL

\* An accepted order leaves holdings that fit, and keeps to the inventory bound.
THEOREM AcceptedSafe == Spec => []AcceptedOrdersAreSafe
  <1> DEFINE Fits == inventory \in [base : 0..U64Max, quote : 0..U64Max]
  <1>1. Init => Fits
    BY PricingAssumption DEF Init
  <1>2. Fits /\ [Next]_vars => Fits'
    BY DEF Next, vars
  <1>3. TypeOK /\ Fits => AcceptedOrdersAreSafe
    <2> SUFFICES ASSUME TypeOK, Fits, NEW side \in Sides, NEW in \in Amounts,
                        SwapAllowed(params, inventory, Order(side, in, 0), 0)
                 PROVE  LET after == InventoryAfter(inventory, Order(side, in, 0),
                                                    Out(side, in))
                        IN  /\ after.base \in 0..U64Max /\ after.quote \in 0..U64Max
                            /\ \/ Abs(inventory_skew_bps(after, params.mid_e9))
                                      <= params.max_skew_bps
                               \/ Abs(inventory_skew_bps(after, params.mid_e9))
                                      <= Abs(inventory_skew_bps(inventory, params.mid_e9))
      BY DEF AcceptedOrdersAreSafe
    <2> DEFINE order == Order(side, in, 0)
               out == Out(side, in)
               after == InventoryAfter(inventory, order, out)
               was == inventory_skew_bps(inventory, params.mid_e9)
               is == inventory_skew_bps(after, params.mid_e9)
    <2>1. /\ out \in Nat
          /\ InventoryVerdict(inventory, order, out) = "Ok"
          /\ LimitVerdict(params, inventory, order, out) = "Ok"
      BY AllowedParts
    <2>2. order.side = side /\ order.amount_in = in /\ in \in Nat
      BY PricingAssumption DEF Order
    <2>3. /\ inventory.base \in 0..U64Max /\ inventory.quote \in 0..U64Max
          /\ U64Max \in Nat
      BY MathAssumption
    <2>4. after.base \in 0..U64Max /\ after.quote \in 0..U64Max
      <3> HIDE DEF order, out
      <3>1. CASE side = BaseToQuote
        <4>1. inventory.base + in <= U64Max /\ out <= inventory.quote
          BY <2>1, <2>2, <2>3, <3>1, SMT DEF InventoryVerdict, FitsU64
        <4>2. after = [base |-> inventory.base + in, quote |-> inventory.quote - out]
          BY <2>2, <3>1 DEF InventoryAfter
        <4> QED
          BY <2>1, <2>2, <2>3, <4>1, <4>2, SMT
      <3>2. CASE side = QuoteToBase
        <4>1. inventory.quote + in <= U64Max /\ out <= inventory.base
          BY <2>1, <2>2, <2>3, <3>2, SMT
             DEF InventoryVerdict, FitsU64, BaseToQuote, QuoteToBase
        <4>2. after = [base |-> inventory.base - out, quote |-> inventory.quote + in]
          BY <2>2, <3>2 DEF InventoryAfter, BaseToQuote, QuoteToBase
        <4> QED
          BY <2>1, <2>2, <2>3, <4>1, <4>2, SMT
      <3> QED
        BY <3>1, <3>2 DEF Sides
    <2>5. ~exceeds_inventory_bound(was, is, params.max_skew_bps)
      BY <2>1 DEF LimitVerdict
    <2>6. was \in Int /\ is \in Int /\ params.max_skew_bps \in Nat
      <3>1. after \in [base : 0..U64Max, quote : 0..U64Max]
        BY <2>4 DEF InventoryAfter
      <3>2. inventory \in Inventory /\ after \in Inventory /\ params.mid_e9 \in Nat
        BY <2>3, <3>1 DEF TypeOK, Inventory, QuoteParams
      <3> QED
        BY <3>2, SkewBounded DEF TypeOK, QuoteParams
    <2> HIDE DEF was, is
    <2>7. Abs(is) <= params.max_skew_bps \/ Abs(is) <= Abs(was)
      BY <2>5, <2>6, SMT DEF exceeds_inventory_bound, Abs
    <2> QED
      BY <2>4, <2>7 DEF was, is
  <1> QED
    BY <1>1, <1>2, <1>3, PricingTyped, PTL DEF Spec
-----------------------------------------------------------------------------
(* The built-in model.                                                      *)

\* The distance travelled is a share.
LEMMA LoadIsShare ==
    ASSUME NEW skew \in Int, NEW bound \in Nat \ {0}
    PROVE  load(skew, bound) \in 0..BPS_DENOM
  <1> DEFINE a == IF Abs(skew) < bound THEN Abs(skew) ELSE bound
             B == BPS_DENOM
  <1>1. B \in Nat \ {0} /\ a \in Nat /\ a <= bound
    BY MathAssumption, SMT DEF Abs
  <1>2. load(skew, bound) = (a * B) \div bound
    BY DEF load
  <1> HIDE DEF a, B
  <1>3. a * B \in Nat /\ a * B <= B * bound
    <2>1. a * B <= bound * B
      BY <1>1, ProductMonotone
    <2> QED
      BY <1>1, <2>1, SMT
  <1>4. (a * B) \div bound \in Nat /\ (a * B) \div bound <= B
    BY <1>1, <1>3, FloorBounds, FloorLeast
  <1> QED
    BY <1>2, <1>4, SMT DEF B

\* At the bound and past it on the side of the base, the way is travelled whole.
LEMMA LoadAtBound ==
    ASSUME NEW skew \in Int, NEW bound \in Nat \ {0}, skew >= bound
    PROVE  load(skew, bound) = BPS_DENOM
  <1> DEFINE B == BPS_DENOM
  <1>1. B \in Nat \ {0}
    BY MathAssumption
  <1>2. load(skew, bound) = (bound * B) \div bound
    BY SMT DEF load, Abs
  <1> HIDE DEF B
  <1>3. bound * B \in Nat /\ bound * B = B * bound
    BY <1>1, SMT
  <1>4. (bound * B) \div bound = B
    <2> DEFINE k == (bound * B) \div bound
    <2>1. k \in Nat /\ k <= B /\ B <= k
      BY <1>1, <1>3, FloorBounds, FloorLeast, FloorGreatest
    <2> QED
      BY <1>1, <2>1, SMT
  <1> QED
    BY <1>2, <1>4 DEF B

\* A balanced treasury has not set out.
LEMMA LoadAtBalance ==
    ASSUME NEW bound \in Nat \ {0}
    PROVE  load(0, bound) = 0
  <1>1. load(0, bound) = (0 * BPS_DENOM) \div bound
    BY SMT DEF load, Abs
  <1>2. 0 * BPS_DENOM = 0 /\ 0 \div bound = 0
    BY MathAssumption, SMT
  <1> QED
    BY <1>1, <1>2

\* A share of a length is no longer than the length, and is the length for the whole.
LEMMA ShareOf ==
    ASSUME NEW w \in Nat, NEW l \in 0..BPS_DENOM
    PROVE  /\ (w * l) \div BPS_DENOM \in 0..w
           /\ l = BPS_DENOM => (w * l) \div BPS_DENOM = w
           /\ l = 0 => (w * l) \div BPS_DENOM = 0
  <1> DEFINE B == BPS_DENOM
             k == (w * l) \div B
  <1>1. B \in Nat \ {0} /\ l \in Nat /\ l <= B
    BY MathAssumption, SMT
  <1> HIDE DEF B
  <1>2. w * l \in Nat /\ w * l <= w * B
    BY <1>1, ProductMonotone, SMT
  <1>3. k \in Nat /\ k <= w
    BY <1>1, <1>2, FloorBounds, FloorLeast
  <1>4. l = B => w <= k
    BY <1>1, <1>2, FloorGreatest
  <1>5. l = 0 => k <= 0
    <2> SUFFICES ASSUME l = 0 PROVE k <= 0
      OBVIOUS
    <2>1. w * l = 0 /\ 0 * B = 0
      BY <1>1, SMT
    <2> QED
      BY <1>1, <1>2, <2>1, FloorLeast
  <1> HIDE DEF k
  <1>6. k \in 0..w /\ (l = B => k = w) /\ (l = 0 => k = 0)
    BY <1>3, <1>4, <1>5, SMT
  <1> QED
    BY <1>6 DEF k, B

\* Once the half-spread has widened by all of w, a shift greater than w still lowers the ask.
LEMMA ShiftBeatsWidening ==
    ASSUME NEW D \in Nat \ {0}, NEW b \in Nat, NEW w \in Nat, NEW s \in Nat, w < s
    PROVE  (D - s) * (D + (b + w)) < D * (D + b)
  <1>1. (D - s) * (D + (b + w)) = D * (D + b) + D * w - s * (D + (b + w))
    BY SMT
  <1>2. (w + 1) * (D + (b + w)) <= s * (D + (b + w))
    <2>1. w + 1 \in Nat /\ w + 1 <= s /\ D + (b + w) \in Nat
      BY SMT
    <2> QED
      BY <2>1, ProductMonotone
  <1>3. (w + 1) * (D + (b + w)) = w * D + w * (b + w) + D + (b + w)
    BY SMT
  <1>4. w * (b + w) \in Nat /\ w * D = D * w
    BY SMT
  <1> QED
    BY <1>1, <1>2, <1>3, <1>4, SMT

\* The order offered is no larger than either leg can back.
LEMMA SizeIsBacked ==
    ASSUME NEW m \in ModelConfig, m.size_fraction_bps \in 1..BPS_DENOM,
           NEW inv \in Inventory, NEW mid \in Nat \ {0}
    PROVE  /\ size(m, inv, mid) \in Nat
           /\ size(m, inv, mid) <= inv.base
           /\ size(m, inv, mid) * mid <= QuoteValue(inv)
  <1> DEFINE p == Payable(inv, mid)
             v == quote_as_base(inv, mid)
             share == (p * m.size_fraction_bps) \div BPS_DENOM
             n == size(m, inv, mid)
  <1>1. inv.base \in Nat /\ QuoteValue(inv) \in Nat
    BY MathAssumption, SMT DEF Inventory, QuoteValue
  <1>2. v \in Nat /\ v * mid <= QuoteValue(inv)
    BY <1>1, FloorBounds DEF quote_as_base, QuoteValue
  <1>3. p \in Nat /\ p <= inv.base /\ p <= v
    <2>1. p = IF inv.base < v THEN inv.base ELSE v
      BY DEF Payable
    <2> HIDE DEF v, p
    <2> QED
      BY <1>1, <1>2, <2>1, SMT
  <1>4. share \in 0..p
    <2>1. m.size_fraction_bps \in 0..BPS_DENOM
      BY MathAssumption, SMT
    <2> HIDE DEF p
    <2> QED
      BY <1>3, <2>1, ShareOf
  <1>5. n \in Nat /\ n <= p
    <2>1. n = IF FitsU64(share) THEN share ELSE U64Max
      BY DEF size
    <2> HIDE DEF share, p, n
    <2> QED
      BY <1>3, <1>4, <2>1, MathAssumption, SMT DEF FitsU64
  <1> HIDE DEF n, p, v, share
  <1>6. n <= inv.base /\ n <= v
    BY <1>1, <1>2, <1>3, <1>5, SMT
  <1>7. n * mid <= v * mid
    BY <1>2, <1>5, <1>6, ProductMonotone
  <1>8. n * mid \in Nat /\ v * mid \in Nat
    BY <1>2, <1>5, SMT
  <1>9. n * mid <= QuoteValue(inv)
    BY <1>1, <1>2, <1>7, <1>8, SMT
  <1> QED
    BY <1>5, <1>6, <1>9 DEF n

\* Whatever configuration the engine starts with, its quotes are in the domain of the
\* program, their orders are backed, and too much base is sold cheaper at the bound.
THEOREM ModelSteers == Spec => []ModelSteersBack
  <1>1. TypeOK => ModelSteersBack
    <2> DEFINE mid == params.mid_e9
               bound == params.max_skew_bps
               skew == inventory_skew_bps(inventory, mid)
               l == load(skew, bound)
               D == BPS_DENOM
    <2> SUFFICES ASSUME TypeOK, Priced, NEW m \in Models, checked(m)
                 PROVE  /\ FactorInDomain(model_quote(m))
                        /\ model_quote(m).max_size_base <= inventory.base
                        /\ model_quote(m).max_size_base * mid <= QuoteValue(inventory)
                        /\ skew >= bound =>
                              Factor(model_quote(m), QuoteToBase)
                                  < Factor(QuoteAt(m, 0), QuoteToBase)
      BY DEF ModelSteersBack
    <2> DEFINE w == Widening(m)
               b == m.base_spread_bps
               s == m.max_skew_shift_bps
               q == model_quote(m)
               balanced == QuoteAt(m, 0)
    <2>1. /\ inventory \in Inventory
          /\ mid \in Nat \ {0} /\ bound \in Nat \ {0}
      <3>1. params \in QuoteParams /\ inventory \in Inventory
        BY DEF TypeOK
      <3>2. mid \in Nat /\ bound \in Nat
        BY <3>1 DEF QuoteParams
      <3>3. mid # 0 /\ bound # 0
        BY DEF Priced, QuoteVerdict
      <3> QED
        BY <3>1, <3>2, <3>3
    <2>2. /\ D \in Nat \ {0} /\ m \in ModelConfig
          /\ b \in Nat /\ w \in Nat /\ s \in Nat
          /\ b + w < D /\ s < D /\ w < s
          /\ m.size_fraction_bps \in 1..BPS_DENOM
      BY MathAssumption, ModelAssumption, SMT DEF checked, Widening, ModelConfig
    <2>3. skew \in Int
      BY <2>1, SkewBounded
    <2>4. l \in 0..D
      BY <2>1, <2>3, LoadIsShare
    <2>5. /\ q.spread_bps = b + (w * l) \div D
          /\ q.skew_bps = IF skew > 0 THEN -((s * l) \div D) ELSE (s * l) \div D
          /\ q.max_size_base = size(m, inventory, mid)
      BY DEF model_quote, QuoteAt, spread, shift
    <2>6. /\ balanced.spread_bps = b
          /\ balanced.skew_bps = 0
      <3> DEFINE z == load(0, bound)
      <3>1. z = 0
        BY <2>1, LoadAtBalance
      <3>2. /\ balanced.spread_bps = b + (w * z) \div D
            /\ balanced.skew_bps = IF 0 > 0 THEN -((s * z) \div D) ELSE (s * z) \div D
        BY DEF QuoteAt, spread, shift
      <3>3. z \in 0..BPS_DENOM
        BY <3>1, MathAssumption, SMT
      <3> HIDE DEF z, w, s, b, balanced
      <3>4. (w * z) \div D = 0 /\ (s * z) \div D = 0
        BY <2>2, <3>1, <3>3, ShareOf
      <3> QED
        BY <2>2, <3>2, <3>4, SMT
    <2> HIDE DEF l, w, s, b, q, balanced, skew
    <2>7. (w * l) \div D \in 0..w /\ (s * l) \div D \in 0..s
      BY <2>2, <2>4, ShareOf
    <2>8. FactorInDomain(q)
      BY <2>2, <2>5, <2>7, SMT DEF FactorInDomain, Skewed
    <2>9. q.max_size_base <= inventory.base /\ q.max_size_base * mid <= QuoteValue(inventory)
      BY <2>1, <2>2, <2>5, SizeIsBacked
    <2>10. ASSUME skew >= bound
           PROVE  Factor(q, QuoteToBase) < Factor(balanced, QuoteToBase)
      <3>1. l = D
        BY <2>1, <2>3, <2>10, LoadAtBound DEF l
      <3>2. (w * l) \div D = w /\ (s * l) \div D = s
        BY <2>2, <2>4, <3>1, ShareOf
      <3>3. skew > 0
        BY <2>1, <2>3, <2>10, SMT
      <3>4. q.spread_bps = b + w /\ q.skew_bps = -s
        BY <2>5, <3>2, <3>3
      <3>5. BaseToQuote # QuoteToBase
        BY DEF BaseToQuote, QuoteToBase
      <3>6. Factor(q, QuoteToBase) = (D - s) * (D + (b + w))
        <4>1. Factor(q, QuoteToBase) = (D + (-s)) * (D + (b + w))
          BY <3>4, <3>5 DEF Factor, Sided
        <4> QED
          BY <2>2, <4>1, SMT
      <3>7. Factor(balanced, QuoteToBase) = D * (D + b)
        <4>1. Factor(balanced, QuoteToBase) = (D + 0) * (D + b)
          BY <2>6, <3>5 DEF Factor, Sided
        <4> QED
          BY <2>2, <4>1, SMT
      <3> QED
        BY <2>2, <3>6, <3>7, ShiftBeatsWidening
    <2> QED
      BY <2>8, <2>9, <2>10 DEF q, balanced, skew
  <1> QED
    BY PricingTyped, <1>1, PTL
=============================================================================
