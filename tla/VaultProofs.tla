---------------------------- MODULE VaultProofs ----------------------------
(***************************************************************************)
(* The properties of Vault for every set of keys, mints, prices, limits and *)
(* amounts and every integer width.                                         *)
(*                                                                          *)
(* TypeOK is inductive by itself.  The other invariants lean on it and, for *)
(* the event stream, on Screened: once deployed, a vault's two mints have   *)
(* passed mint_guard, so what a transfer delivers is what was sent.         *)
(*                                                                          *)
(* Everything is proved of AnyStep, the instructions with any arguments, so *)
(* that it holds as well of the vault that DeskProofs puts among its users. *)
(***************************************************************************)
EXTENDS Vault, QuoteMathProofs

-----------------------------------------------------------------------------
(* Steps with any arguments.                                                *)

\* The instructions of Vault with limits and prices of two sets, and every other argument
\* anything of its type.
StepOf(ls, qs) ==
    \/ \E owner \in Keys, base, qte \in Mints, pricing, halting \in Keys,
          l \in ls :
           initialize_vault(owner, base, qte, pricing, halting, l)
    \/ \E s, k \in Keys : set_pricing_authority(s, k)
    \/ \E s, k \in Keys : set_halt_authority(s, k)
    \/ \E s \in Keys, l \in ls : set_risk_limits(s, l)
    \/ \E flag \in BOOLEAN : SetHalted(flag)
    \/ \E s \in Keys, side \in TreasurySides, amount \in Nat :
           deposit(s, side, amount)
    \/ \E s \in Keys, side \in TreasurySides, amount \in Nat :
           withdraw(s, side, amount)
    \/ \E s \in Keys, q \in qs : update_quote(s, q)
    \/ \E s \in Keys : clear_quote_ix(s)
    \/ \E req \in SwapRequest : swap(req)
    \/ \E side \in TreasurySides, amount \in Nat : Gift(side, amount)
    \/ Tick

\* What the program keeps does not depend on what it is asked, so the invariants are
\* proved of these steps; a module that composes the vault with its callers can use
\* them as they are.
AnyStep == StepOf(RiskLimits, QuoteUpdate)

\* Every step of the vault on its own is one of these.
LEMMA NextIsStep == [Next]_vars => [StepOf(LimitInputs, QuoteInputs)]_vars
  <1>1. /\ LimitInputs \subseteq RiskLimits /\ QuoteInputs \subseteq QuoteUpdate
        /\ Amounts \subseteq Nat /\ Gifts \subseteq Nat
    BY VaultAssumption
  <1>2. Orders \subseteq SwapRequest
    BY <1>1 DEF Orders, SwapRequest
  <1> QED
    BY <1>1, <1>2 DEF Next, StepOf

\* And so one of any arguments.
LEMMA NextIsAny == [Next]_vars => [AnyStep]_vars
  <1>1. LimitInputs \subseteq RiskLimits /\ QuoteInputs \subseteq QuoteUpdate
    BY VaultAssumption
  <1> QED
    BY <1>1, NextIsStep DEF AnyStep, StepOf

-----------------------------------------------------------------------------
(* Types.                                                                   *)

LEMMA MonusTyped ==
    ASSUME NEW a \in Nat, NEW b \in Nat
    PROVE  Monus(a, b) \in Nat /\ Monus(a, b) <= a
  BY SMT DEF Monus

\* A transfer delivers at most what was sent.
LEMMA DeliveredBounded ==
    ASSUME NEW mint, NEW amount \in Nat
    PROVE  Delivered(mint, amount) \in Nat /\ Delivered(mint, amount) <= amount
  BY MonusTyped DEF Delivered

LEMMA ParamsTyped ==
    ASSUME TypeOK
    PROVE  quote_params \in QuoteParams
  <1>1. /\ quote.mid_e9 \in Nat /\ quote.spread_bps \in Nat /\ quote.skew_bps \in Int
        /\ quote.max_size_base \in Nat /\ quote.quote_slot \in Nat
    BY DEF TypeOK, Quotes
  <1>2. limits.max_quote_age_slots \in Nat /\ limits.max_skew_bps \in Nat
    BY DEF TypeOK, RiskLimits
  <1> QED
    BY <1>1, <1>2 DEF quote_params, QuoteParams

\* What an allowed order tells about the price, the output and the holdings it leaves.
LEMMA AllowedOrder ==
    ASSUME TypeOK, NEW req \in SwapRequest,
           SwapAllowed(quote_params, treasury, req, slot)
    PROVE  /\ Posted
           /\ FactorInDomain(quote_params)
           /\ req \in SwapRequest
           /\ AmountOut(quote_params, req) \in Nat
           /\ InventoryVerdict(treasury, req, AmountOut(quote_params, req)) = "Ok"
           /\ LimitVerdict(quote_params, treasury, req, AmountOut(quote_params, req)) = "Ok"
  <1>1. req \in SwapRequest
    BY VaultAssumption DEF Orders, SwapRequest
  <1>2. SwapVerdict(quote_params, treasury, req, slot) = "Ok"
    BY DEF SwapAllowed
  <1>3. /\ PriceVerdict(quote_params, req.side) = "Ok"
        /\ InventoryVerdict(treasury, req, AmountOut(quote_params, req)) = "Ok"
        /\ LimitVerdict(quote_params, treasury, req, AmountOut(quote_params, req)) = "Ok"
    BY <1>2 DEF SwapVerdict
  <1>4. quote_params.mid_e9 # 0 /\ FactorInDomain(quote_params)
    BY <1>3 DEF PriceVerdict
  <1>5. AmountOut(quote_params, req) \in Nat
    BY <1>1, <1>4, ParamsTyped, OutBounds
  <1> QED
    BY <1>1, <1>3, <1>4, <1>5 DEF Posted, quote_params

\* The holdings a swap computes and the ones it leaves both fit the token accounts.
LEMMA SwapFits ==
    ASSUME TypeOK, NEW req \in SwapRequest,
           SwapAllowed(quote_params, treasury, req, slot)
    PROVE  LET out == AmountOut(quote_params, req)
           IN  /\ InventoryAfter(treasury, req, out) \in Holdings
               /\ TreasuryAfter(req, out) \in Holdings
  <1> DEFINE out == AmountOut(quote_params, req)
             got == Delivered(MintOf(IF req.side = BaseToQuote THEN "base" ELSE "quote"),
                              req.amount_in)
  <1>1. /\ out \in Nat /\ req \in SwapRequest
        /\ InventoryVerdict(treasury, req, out) = "Ok"
    BY AllowedOrder
  <1>2. req.amount_in \in Nat /\ req.side \in Sides
    BY <1>1 DEF SwapRequest
  <1>3. got \in Nat /\ got <= req.amount_in
    BY <1>2, DeliveredBounded
  <1>4. treasury.base \in 0..U64Max /\ treasury.quote \in 0..U64Max /\ U64Max \in Nat
    BY MathAssumption DEF TypeOK, Holdings
  <1>5. [req EXCEPT !.amount_in = got].amount_in = got
        /\ [req EXCEPT !.amount_in = got].side = req.side
    BY <1>1 DEF SwapRequest
  <1> HIDE DEF out, got
  <1>6. CASE req.side = BaseToQuote
    <2>1. treasury.base + req.amount_in <= U64Max /\ out <= treasury.quote
      BY <1>1, <1>2, <1>4, <1>6, SMT DEF InventoryVerdict, FitsU64
    <2>2. InventoryAfter(treasury, req, out)
              = [base |-> treasury.base + req.amount_in, quote |-> treasury.quote - out]
      BY <1>6 DEF InventoryAfter
    <2>3. TreasuryAfter(req, out)
              = [base |-> treasury.base + got, quote |-> treasury.quote - out]
      BY <1>5, <1>6 DEF TreasuryAfter, InventoryAfter, got
    <2> QED
      BY <1>1, <1>2, <1>3, <1>4, <2>1, <2>2, <2>3, SMT DEF Holdings, out
  <1>7. CASE req.side = QuoteToBase
    <2>1. treasury.quote + req.amount_in <= U64Max /\ out <= treasury.base
      BY <1>1, <1>2, <1>4, <1>7, SMT
         DEF InventoryVerdict, FitsU64, BaseToQuote, QuoteToBase
    <2>2. InventoryAfter(treasury, req, out)
              = [base |-> treasury.base - out, quote |-> treasury.quote + req.amount_in]
      BY <1>7 DEF InventoryAfter, BaseToQuote, QuoteToBase
    <2>3. TreasuryAfter(req, out)
              = [base |-> treasury.base - out, quote |-> treasury.quote + got]
      BY <1>5, <1>7 DEF TreasuryAfter, InventoryAfter, got, BaseToQuote, QuoteToBase
    <2> QED
      BY <1>1, <1>2, <1>3, <1>4, <2>1, <2>2, <2>3, SMT DEF Holdings, out
  <1> QED
    BY <1>2, <1>6, <1>7 DEF Sides

LEMMA ClearTyped ==
    ASSUME TypeOK, NEW t \in [quote : Quotes, holdings : Holdings, sound : BOOLEAN],
           clear_quote(t)
    PROVE  /\ quote' \in Quotes
           /\ told' \in [quote : Quotes, holdings : Holdings, sound : BOOLEAN]
           /\ signer' \in Keys \union {DefaultKey}
  <1>1. NoQuote \in Quotes
    BY DEF NoQuote, Quotes
  <1>2. QuoteCleared(t) \in [quote : Quotes, holdings : Holdings, sound : BOOLEAN]
    BY <1>1 DEF QuoteCleared
  <1> QED
    BY <1>1, <1>2 DEF clear_quote

LEMMA CapitalTyped ==
    ASSUME NEW t \in [quote : Quotes, holdings : Holdings, sound : BOOLEAN],
           NEW side \in TreasurySides, NEW n \in 0..U64Max
    PROVE  CapitalMoved(t, side, n) \in [quote : Quotes, holdings : Holdings, sound : BOOLEAN]
  BY DEF CapitalMoved, Holdings, TreasurySides

LEMMA InitTyped == Init => TypeOK
  <1> SUFFICES ASSUME Init PROVE TypeOK
    OBVIOUS
  <1>1. vault \in Vaults
    BY DEF Init, NoVault, Vaults
  <1>2. quote \in Quotes /\ limits \in RiskLimits
    BY DEF Init, NoQuote, Quotes, RiskLimits
  <1>3. Nothing \in Holdings /\ Nothing \in [base : Nat, quote : Nat]
    BY MathAssumption DEF Nothing, Holdings
  <1> QED
    BY <1>1, <1>2, <1>3 DEF Init, TypeOK

LEMMA TypedStep == TypeOK /\ [AnyStep]_vars => TypeOK'
  <1> SUFFICES ASSUME TypeOK, [AnyStep]_vars PROVE TypeOK'
    OBVIOUS
  <1> DEFINE Tolds == [quote : Quotes, holdings : Holdings, sound : BOOLEAN]
  <1>1. /\ vault \in Vaults /\ limits \in RiskLimits /\ quote \in Quotes
        /\ treasury \in Holdings /\ slot \in Nat /\ told \in Tolds
        /\ untold \in [base : Nat, quote : Nat] /\ signer \in Keys \union {DefaultKey}
    BY DEF TypeOK
  <1>2. ASSUME NEW owner \in Keys, NEW base \in Mints, NEW qte \in Mints,
               NEW pricing \in Keys, NEW halting \in Keys, NEW l \in RiskLimits,
               initialize_vault(owner, base, qte, pricing, halting, l)
        PROVE  TypeOK'
    <2>1. vault' \in Vaults
      BY <1>2 DEF initialize_vault, Vaults
    <2>2. quote' \in Quotes
      BY <1>2 DEF initialize_vault, NoQuote, Quotes
    <2>3. limits' \in RiskLimits
      BY <1>2, VaultAssumption DEF initialize_vault
    <2> QED
      BY <1>1, <1>2, <2>1, <2>2, <2>3 DEF initialize_vault, TypeOK
  <1>3. ASSUME NEW s \in Keys, NEW k \in Keys, set_pricing_authority(s, k)
        PROVE  TypeOK'
    <2>1. vault' \in Vaults
      BY <1>1, <1>3 DEF set_pricing_authority, Vaults
    <2>2. clear_quote(told)
      BY <1>3 DEF set_pricing_authority
    <2> QED
      BY <1>1, <1>3, <2>1, <2>2, ClearTyped DEF set_pricing_authority, TypeOK
  <1>4. ASSUME NEW s \in Keys, NEW k \in Keys, set_halt_authority(s, k)
        PROVE  TypeOK'
    <2>1. vault' \in Vaults
      BY <1>1, <1>4 DEF set_halt_authority, Vaults
    <2> QED
      BY <1>1, <1>4, <2>1 DEF set_halt_authority, TypeOK
  <1>5. ASSUME NEW s \in Keys, NEW l \in RiskLimits, set_risk_limits(s, l)
        PROVE  TypeOK'
    BY <1>1, <1>5, VaultAssumption DEF set_risk_limits, TypeOK
  <1>6. ASSUME NEW flag \in BOOLEAN, SetHalted(flag)
        PROVE  TypeOK'
    <2>1. vault' \in Vaults
      BY <1>1, <1>6 DEF SetHalted, Vaults
    <2> QED
      BY <1>1, <1>6, <2>1 DEF SetHalted, TypeOK
  <1>7. ASSUME NEW s \in Keys, NEW side \in TreasurySides, NEW amount \in Nat,
               deposit(s, side, amount)
        PROVE  TypeOK'
    <2>1. amount \in Nat /\ U64Max \in Nat /\ treasury[side] \in 0..U64Max
      BY <1>1, VaultAssumption, MathAssumption DEF Holdings, TreasurySides
    <2>2. treasury[side] + amount \in 0..U64Max
      BY <1>7, <2>1 DEF deposit, FitsU64
    <2>3. treasury[side] + Delivered(MintOf(side), amount) \in 0..U64Max
      BY <2>1, <2>2, DeliveredBounded
    <2>4. treasury' \in Holdings
      BY <1>1, <1>7, <2>3 DEF deposit, Holdings, TreasurySides
    <2>5. told' \in Tolds
      BY <1>1, <1>7, <2>2, CapitalTyped DEF deposit
    <2>6. untold' \in [base : Nat, quote : Nat]
      BY <1>1, <1>7 DEF deposit, TreasurySides
    <2> QED
      BY <1>1, <1>7, <2>4, <2>5, <2>6 DEF deposit, TypeOK
  <1>8. ASSUME NEW s \in Keys, NEW side \in TreasurySides, NEW amount \in Nat,
               withdraw(s, side, amount)
        PROVE  TypeOK'
    <2>1. amount \in Nat /\ U64Max \in Nat /\ treasury[side] \in 0..U64Max
      BY <1>1, VaultAssumption, MathAssumption DEF Holdings, TreasurySides
    <2>2. treasury[side] - amount \in 0..U64Max
      BY <1>8, <2>1 DEF withdraw
    <2>3. treasury' \in Holdings
      BY <1>1, <1>8, <2>2 DEF withdraw, Holdings, TreasurySides
    <2>4. CapitalMoved(told, side, treasury[side] - amount) \in Tolds
      BY <1>1, <2>2, CapitalTyped
    <2>5. clear_quote(CapitalMoved(told, side, treasury[side] - amount))
      BY <1>8 DEF withdraw
    <2>6. untold' \in [base : Nat, quote : Nat]
      BY <1>1, <1>8 DEF withdraw, TreasurySides
    <2> QED
      BY <1>1, <1>8, <2>3, <2>4, <2>5, <2>6, ClearTyped DEF withdraw, TypeOK
  <1>9. ASSUME NEW s \in Keys, NEW q \in QuoteUpdate, update_quote(s, q)
        PROVE  TypeOK'
    <2>1. q \in QuoteUpdate
      BY VaultAssumption
    <2>2. quote' \in Quotes
      BY <1>1, <1>9, <2>1 DEF update_quote, QuoteUpdate, Quotes
    <2>3. told' \in Tolds
      BY <1>1, <1>9, <2>2 DEF update_quote, QuoteUpdated
    <2> QED
      BY <1>1, <1>9, <2>2, <2>3 DEF update_quote, TypeOK
  <1>10. ASSUME NEW s \in Keys, clear_quote_ix(s)
         PROVE  TypeOK'
    BY <1>1, <1>10, ClearTyped DEF clear_quote_ix, TypeOK
  <1>11. ASSUME NEW req \in SwapRequest, swap(req)
         PROVE  TypeOK'
    <2> DEFINE out == AmountOut(quote_params, req)
    <2>1. /\ InventoryAfter(treasury, req, out) \in Holdings
          /\ TreasuryAfter(req, out) \in Holdings
      BY <1>11, SwapFits DEF swap
    <2>2. /\ treasury' = TreasuryAfter(req, out)
          /\ told' = Swapped(told, InventoryAfter(treasury, req, out))
          /\ untold' = Nothing
          /\ UNCHANGED <<vault, limits, quote, slot, signer>>
      BY <1>11 DEF swap
    <2> HIDE DEF out
    <2>3. told' \in Tolds
      BY <1>1, <2>1, <2>2 DEF Swapped
    <2>4. untold' \in [base : Nat, quote : Nat]
      BY <2>2 DEF Nothing
    <2> QED
      BY <1>1, <2>1, <2>2, <2>3, <2>4 DEF TypeOK
  <1>12. ASSUME NEW side \in TreasurySides, NEW amount \in Nat, Gift(side, amount)
         PROVE  TypeOK'
    <2>1. amount \in Nat /\ U64Max \in Nat /\ treasury[side] \in 0..U64Max
      BY <1>1, VaultAssumption, MathAssumption DEF Holdings, TreasurySides
    <2>2. treasury[side] + amount \in 0..U64Max /\ untold[side] + amount \in Nat
      BY <1>1, <1>12, <2>1 DEF Gift, FitsU64, TreasurySides
    <2>3. treasury' \in Holdings /\ untold' \in [base : Nat, quote : Nat]
      BY <1>1, <1>12, <2>2 DEF Gift, Holdings, TreasurySides
    <2> QED
      BY <1>1, <1>12, <2>3 DEF Gift, TypeOK
  <1>13. CASE Tick
    BY <1>1, <1>13 DEF Tick, TypeOK
  <1>14. CASE UNCHANGED vars
    BY <1>1, <1>14 DEF vars, TypeOK
  <1> QED
    BY <1>2, <1>3, <1>4, <1>5, <1>6, <1>7, <1>8, <1>9, <1>10, <1>11, <1>12, <1>13,
       <1>14 DEF AnyStep, StepOf

\* Every field stays in its declared type and both balances fit a u64, so no
\* sequence of instructions overdraws or overflows a treasury account.
THEOREM VaultTyped == Spec => []TypeOK
  BY InitTyped, NextIsAny, TypedStep, PTL DEF Spec

-----------------------------------------------------------------------------
(* The safety invariant.                                                    *)

\* Deployment screened both mints and named a key; before it there was nothing.
Screened ==
    IF Deployed
    THEN /\ vault.pricing_authority \in Keys
         /\ vault.base_mint \in Mints /\ ensure_transfer_is_faithful(vault.base_mint)
         /\ vault.quote_mint \in Mints /\ ensure_transfer_is_faithful(vault.quote_mint)
    ELSE vault = NoVault /\ ~Posted

IInv ==
    /\ TypeOK
    /\ Screened
    /\ PriceIsTheAuthoritys
    /\ PriceIsWhole
    /\ EventsTellTheState

LEMMA ScreenedDelivers ==
    ASSUME NEW mint, ensure_transfer_is_faithful(mint), NEW amount
    PROVE  Delivered(mint, amount) = amount
  <1>1. "TransferFeeConfig" \notin is_transfer_faithful
    BY DEF is_transfer_faithful
  <1> QED
    BY <1>1 DEF ensure_transfer_is_faithful, Delivered

\* The price verdict reads three fields and neither limit.
LEMMA VerdictOfPrice ==
    ASSUME NEW p, NEW r, NEW side,
           p.mid_e9 = r.mid_e9, p.spread_bps = r.spread_bps, p.skew_bps = r.skew_bps
    PROVE  PriceVerdict(p, side) = PriceVerdict(r, side)
  BY DEF PriceVerdict, FactorInDomain, Skewed, PriceProduct, side_factor, Sided

LEMMA WholeKept ==
    ASSUME PriceIsWhole, TypeOK, quote' = quote, slot' \in Nat, slot <= slot'
    PROVE  PriceIsWhole'
  <1>1. CASE Posted
    <2>1. ASSUME NEW side \in Sides
          PROVE  PriceVerdict(quote_params, side)' = "Ok"
      <3>1. PriceVerdict(quote_params, side) = "Ok"
        BY <1>1 DEF PriceIsWhole
      <3>2. PriceVerdict(quote_params', side) = PriceVerdict(quote_params, side)
        BY VerdictOfPrice DEF quote_params
      <3> QED
        BY <3>1, <3>2
    <2>2. quote.quote_slot <= slot'
      BY <1>1 DEF PriceIsWhole, TypeOK, Quotes
    <2> QED
      BY <1>1, <2>1, <2>2 DEF PriceIsWhole, Posted
  <1>2. CASE ~Posted
    BY <1>2 DEF PriceIsWhole, Posted
  <1> QED
    BY <1>1, <1>2

\* Taking the price down leaves the blank quote, nobody's signature and, if the
\* collector knew the price there was, a collector that knows there is none.
LEMMA ClearLeaves ==
    ASSUME NEW t \in [quote : Quotes, holdings : Holdings, sound : BOOLEAN],
           TypeOK, PriceIsWhole, t.sound, t.quote = quote, clear_quote(t)
    PROVE  /\ quote' = NoQuote /\ ~Posted' /\ PriceIsWhole' /\ signer' = DefaultKey
           /\ told'.sound /\ told'.quote = quote' /\ told'.holdings = t.holdings
  <1>1. quote' = NoQuote /\ ~Posted' /\ PriceIsWhole' /\ signer' = DefaultKey
    BY DEF clear_quote, Posted, NoQuote, PriceIsWhole
  <1>2. CASE quote.mid_e9 # 0
    <2>1. t.quote # NoQuote
      BY <1>2 DEF NoQuote
    <2>2. told' = QuoteCleared(t)
      BY <1>2 DEF clear_quote
    <2> QED
      BY <1>1, <2>1, <2>2 DEF QuoteCleared
  <1>3. CASE quote.mid_e9 = 0
    BY <1>1, <1>3 DEF clear_quote, PriceIsWhole, Posted
  <1> QED
    BY <1>1, <1>2, <1>3

LEMMA InitInv == Init => IInv
  <1> SUFFICES ASSUME Init PROVE IInv
    OBVIOUS
  <1>1. TypeOK
    BY InitTyped
  <1>2. ~Posted /\ ~Deployed
    BY DEF Init, Posted, NoQuote, Deployed, NoVault
  <1>3. EventsTellTheState
    BY DEF Init, EventsTellTheState, Nothing, TreasurySides
  <1> QED
    BY <1>1, <1>2, <1>3 DEF IInv, Screened, PriceIsTheAuthoritys, PriceIsWhole, Init

LEMMA InvStep == IInv /\ [AnyStep]_vars => IInv'
  <1> SUFFICES ASSUME IInv, [AnyStep]_vars PROVE IInv'
    OBVIOUS
  <1> DEFINE Tolds == [quote : Quotes, holdings : Holdings, sound : BOOLEAN]
  <1>1. TypeOK /\ TypeOK'
    BY TypedStep DEF IInv
  <1>2. /\ vault \in Vaults /\ limits \in RiskLimits /\ quote \in Quotes
        /\ treasury \in Holdings /\ slot \in Nat /\ told \in Tolds
        /\ untold \in [base : Nat, quote : Nat] /\ signer \in Keys \union {DefaultKey}
    BY <1>1 DEF TypeOK
  <1>3. Screened /\ PriceIsTheAuthoritys /\ PriceIsWhole /\ EventsTellTheState
    BY DEF IInv
  <1>4. /\ told.sound /\ told.quote = quote
        /\ treasury.base = told.holdings.base + untold.base
        /\ treasury.quote = told.holdings.quote + untold.quote
    BY <1>3 DEF EventsTellTheState, TreasurySides
  <1>5. ASSUME NEW owner \in Keys, NEW base \in Mints, NEW qte \in Mints,
               NEW pricing \in Keys, NEW halting \in Keys, NEW l \in RiskLimits,
               initialize_vault(owner, base, qte, pricing, halting, l)
        PROVE  IInv'
    <2>1. ~Posted /\ quote = NoQuote /\ signer = DefaultKey
      BY <1>3, <1>5 DEF initialize_vault, Screened, PriceIsWhole, PriceIsTheAuthoritys
    <2>2. quote' = quote /\ ~Posted' /\ UNCHANGED <<treasury, slot, told, untold, signer>>
      BY <1>5, <2>1 DEF initialize_vault, Posted
    <2>3. Screened'
      BY <1>5, <2>2, VaultAssumption
         DEF initialize_vault, Screened, Deployed, ensure_transfer_is_faithful
    <2> QED
      BY <1>1, <1>3, <2>1, <2>2, <2>3
         DEF IInv, PriceIsTheAuthoritys, PriceIsWhole, EventsTellTheState
  <1>6. ASSUME NEW s \in Keys, NEW k \in Keys, set_pricing_authority(s, k)
        PROVE  IInv'
    <2>1. clear_quote(told) /\ UNCHANGED <<limits, treasury, slot, untold>>
      BY <1>6 DEF set_pricing_authority
    <2>2. /\ vault'.owner = vault.owner /\ vault'.base_mint = vault.base_mint
          /\ vault'.quote_mint = vault.quote_mint
          /\ vault'.pricing_authority = k /\ Deployed
      BY <1>2, <1>6 DEF set_pricing_authority, Vaults, ByOwner
    <2>3. /\ quote' = NoQuote /\ ~Posted' /\ PriceIsWhole' /\ signer' = DefaultKey
          /\ told'.sound /\ told'.quote = quote' /\ told'.holdings = told.holdings
      BY <1>1, <1>2, <1>3, <1>4, <2>1, ClearLeaves
    <2>4. Screened'
      BY <1>3, <2>2, <2>3 DEF Screened, Deployed, ensure_transfer_is_faithful
    <2>5. EventsTellTheState'
      BY <1>4, <2>1, <2>3 DEF EventsTellTheState, TreasurySides
    <2> QED
      BY <1>1, <2>3, <2>4, <2>5 DEF IInv, PriceIsTheAuthoritys
  <1>7. ASSUME \/ \E s \in Keys, k \in Keys : set_halt_authority(s, k)
               \/ \E s \in Keys, l \in RiskLimits : set_risk_limits(s, l)
               \/ \E flag \in BOOLEAN : SetHalted(flag)
               \/ Tick
               \/ UNCHANGED vars
        PROVE  IInv'
    <2>1. /\ UNCHANGED <<quote, treasury, told, untold, signer>>
          /\ slot' \in Nat /\ slot <= slot'
      BY <1>2, <1>7
         DEF set_halt_authority, set_risk_limits, SetHalted, Tick, vars
    <2>2. /\ vault'.owner = vault.owner /\ vault'.base_mint = vault.base_mint
          /\ vault'.quote_mint = vault.quote_mint
          /\ vault'.pricing_authority = vault.pricing_authority
          /\ Deployed \/ vault' = vault
      <3>1. CASE UNCHANGED vault
        BY <3>1
      <3>2. ASSUME NEW s \in Keys, NEW k \in Keys, set_halt_authority(s, k)
            PROVE  <2>2
        BY <1>2, <3>2 DEF set_halt_authority, Vaults, ByOwner
      <3>3. ASSUME NEW flag \in BOOLEAN, SetHalted(flag)
            PROVE  <2>2
        BY <1>2, <3>3 DEF SetHalted, Vaults
      <3> QED
        BY <1>7, <3>1, <3>2, <3>3 DEF set_risk_limits, Tick, vars
    <2>3. PriceIsWhole'
      BY <1>1, <1>3, <2>1, WholeKept
    <2>4. Screened' /\ PriceIsTheAuthoritys' /\ EventsTellTheState'
      BY <1>3, <2>1, <2>2
         DEF Screened, Deployed, ensure_transfer_is_faithful, Posted,
             PriceIsTheAuthoritys, EventsTellTheState
    <2> QED
      BY <1>1, <2>3, <2>4 DEF IInv
  <1>8. ASSUME NEW s \in Keys, NEW side \in TreasurySides, NEW amount \in Nat,
               deposit(s, side, amount)
        PROVE  IInv'
    <2>1. /\ treasury' = [treasury EXCEPT ![side] = @ + Delivered(MintOf(side), amount)]
          /\ told' = CapitalMoved(told, side, treasury[side] + amount)
          /\ untold' = [untold EXCEPT ![side] = 0]
          /\ UNCHANGED <<vault, limits, quote, slot, signer>>
      BY <1>8 DEF deposit
    <2>2. Delivered(MintOf(side), amount) = amount
      <3>1. ensure_transfer_is_faithful(MintOf(side))
        BY <1>3, <1>8 DEF deposit, ByOwner, Screened, MintOf, TreasurySides
      <3> QED
        BY <3>1, ScreenedDelivers
    <2>3. amount \in Nat
      BY VaultAssumption
    <2>4. EventsTellTheState'
      <3>1. told'.sound /\ told'.quote = quote'
        BY <1>2, <1>4, <2>1 DEF CapitalMoved
      <3>2. told'.holdings = [told.holdings EXCEPT ![side] = treasury[side] + amount]
        BY <1>2, <2>1 DEF CapitalMoved
      <3>3. ASSUME NEW other \in TreasurySides
            PROVE  treasury'[other] = told'.holdings[other] + untold'[other]
        BY <1>2, <1>4, <2>1, <2>2, <2>3, <3>2 DEF TreasurySides, Holdings
      <3> QED
        BY <3>1, <3>3 DEF EventsTellTheState
    <2>5. PriceIsWhole'
      BY <1>1, <1>2, <1>3, <2>1, WholeKept
    <2> QED
      BY <1>1, <1>3, <2>1, <2>4, <2>5
         DEF IInv, Screened, Deployed, Posted, PriceIsTheAuthoritys
  <1>9. ASSUME NEW s \in Keys, NEW side \in TreasurySides, NEW amount \in Nat,
               withdraw(s, side, amount)
        PROVE  IInv'
    <2> DEFINE t == CapitalMoved(told, side, treasury[side] - amount)
    <2>1. /\ treasury' = [treasury EXCEPT ![side] = @ - amount]
          /\ untold' = [untold EXCEPT ![side] = 0]
          /\ clear_quote(t) /\ UNCHANGED <<vault, limits, slot>>
          /\ amount <= treasury[side]
      BY <1>9 DEF withdraw
    <2>2. amount \in Nat /\ treasury[side] - amount \in 0..U64Max
      BY <1>2, <2>1, VaultAssumption, MathAssumption DEF Holdings, TreasurySides
    <2>3. t \in Tolds
      BY <1>2, <2>2, CapitalTyped
    <2>4. /\ t.sound /\ t.quote = quote
          /\ t.holdings = [told.holdings EXCEPT ![side] = treasury[side] - amount]
      BY <1>2, <1>4 DEF CapitalMoved
    <2> HIDE DEF t
    <2>5. /\ quote' = NoQuote /\ ~Posted' /\ PriceIsWhole' /\ signer' = DefaultKey
          /\ told'.sound /\ told'.quote = quote' /\ told'.holdings = t.holdings
      BY <1>1, <1>3, <2>1, <2>3, <2>4, ClearLeaves
    <2>6. EventsTellTheState'
      <3>1. ASSUME NEW other \in TreasurySides
            PROVE  treasury'[other] = told'.holdings[other] + untold'[other]
        BY <1>2, <1>4, <2>1, <2>2, <2>4, <2>5 DEF TreasurySides, Holdings
      <3> QED
        BY <2>5, <3>1 DEF EventsTellTheState
    <2> QED
      BY <1>1, <1>3, <2>1, <2>5, <2>6
         DEF IInv, Screened, Deployed, PriceIsTheAuthoritys
  <1>10. ASSUME NEW s \in Keys, NEW q \in QuoteUpdate, update_quote(s, q)
         PROVE  IInv'
    <2>1. /\ Deployed /\ s = vault.pricing_authority /\ Acceptable(q)
          /\ quote' = [mid_e9 |-> q.mid_e9, spread_bps |-> q.spread_bps,
                       skew_bps |-> q.skew_bps, max_size_base |-> q.max_size_base,
                       quote_slot |-> slot]
          /\ told' = QuoteUpdated(told, quote') /\ signer' = s
          /\ UNCHANGED <<vault, limits, treasury, slot, untold>>
      BY <1>10 DEF update_quote, ByPricing
    <2>2. Posted'
      BY <1>2, <2>1, VaultAssumption DEF Posted, Acceptable, QuoteUpdate
    <2>3. PriceIsWhole'
      <3>1. ASSUME NEW side \in Sides
            PROVE  PriceVerdict(quote_params', side) = "Ok"
        <4>1. PriceVerdict(Candidate(q), side) = "Ok"
          BY <2>1 DEF Acceptable
        <4>2. /\ quote_params'.mid_e9 = Candidate(q).mid_e9
              /\ quote_params'.spread_bps = Candidate(q).spread_bps
              /\ quote_params'.skew_bps = Candidate(q).skew_bps
          BY <2>1 DEF quote_params, Candidate
        <4> QED
          BY <4>1, <4>2, VerdictOfPrice
      <3>2. quote'.max_size_base > 0 /\ quote'.quote_slot <= slot'
        BY <1>2, <2>1 DEF Acceptable
      <3> QED
        BY <2>2, <3>1, <3>2 DEF PriceIsWhole
    <2>4. told'.sound /\ told'.quote = quote' /\ told'.holdings = told.holdings
      BY <1>2, <1>4, <2>1 DEF QuoteUpdated
    <2>5. EventsTellTheState'
      BY <1>4, <2>1, <2>4 DEF EventsTellTheState, TreasurySides
    <2>6. Screened' /\ PriceIsTheAuthoritys'
      BY <1>3, <2>1, <2>2 DEF Screened, Deployed, PriceIsTheAuthoritys
    <2> QED
      BY <1>1, <2>3, <2>5, <2>6 DEF IInv
  <1>11. ASSUME NEW s \in Keys, clear_quote_ix(s)
         PROVE  IInv'
    <2>1. clear_quote(told) /\ UNCHANGED <<vault, limits, treasury, slot, untold>>
      BY <1>11 DEF clear_quote_ix
    <2>2. /\ quote' = NoQuote /\ ~Posted' /\ PriceIsWhole' /\ signer' = DefaultKey
          /\ told'.sound /\ told'.quote = quote' /\ told'.holdings = told.holdings
      BY <1>1, <1>2, <1>3, <1>4, <2>1, ClearLeaves
    <2>3. EventsTellTheState'
      BY <1>4, <2>1, <2>2 DEF EventsTellTheState, TreasurySides
    <2> QED
      BY <1>1, <1>3, <2>1, <2>2, <2>3
         DEF IInv, Screened, Deployed, PriceIsTheAuthoritys
  <1>12. ASSUME NEW req \in SwapRequest, swap(req)
         PROVE  IInv'
    <2> DEFINE out == AmountOut(quote_params, req)
               after == InventoryAfter(treasury, req, out)
    <2>1. /\ Deployed /\ treasury' = TreasuryAfter(req, out)
          /\ told' = Swapped(told, after)
          /\ untold' = Nothing
          /\ UNCHANGED <<vault, limits, quote, slot, signer>>
      BY <1>12 DEF swap
    <2>2. after \in Holdings /\ req \in SwapRequest
      BY <1>1, <1>12, SwapFits, AllowedOrder DEF swap
    <2>3. TreasuryAfter(req, out) = after
      <3>1. Delivered(MintOf(IF req.side = BaseToQuote THEN "base" ELSE "quote"),
                      req.amount_in) = req.amount_in
        BY <1>3, <2>1, ScreenedDelivers DEF Screened, MintOf
      <3>2. [req EXCEPT !.amount_in = req.amount_in] = req
        BY <2>2 DEF SwapRequest
      <3> QED
        BY <3>1, <3>2 DEF TreasuryAfter
    <2> HIDE DEF after
    <2>4. told'.sound /\ told'.quote = quote' /\ told'.holdings = after
      BY <1>2, <1>4, <2>1 DEF Swapped
    <2>5. EventsTellTheState'
      BY <2>1, <2>2, <2>3, <2>4, MathAssumption
         DEF EventsTellTheState, TreasurySides, Nothing, Holdings
    <2>6. PriceIsWhole'
      BY <1>1, <1>2, <1>3, <2>1, WholeKept
    <2> QED
      BY <1>1, <1>3, <2>1, <2>5, <2>6
         DEF IInv, Screened, Deployed, Posted, PriceIsTheAuthoritys
  <1>13. ASSUME NEW side \in TreasurySides, NEW amount \in Nat, Gift(side, amount)
         PROVE  IInv'
    <2>1. /\ treasury' = [treasury EXCEPT ![side] = @ + amount]
          /\ untold' = [untold EXCEPT ![side] = @ + amount]
          /\ UNCHANGED <<vault, limits, quote, slot, told, signer>>
      BY <1>13 DEF Gift
    <2>2. amount \in Nat
      BY VaultAssumption
    <2>3. ASSUME NEW other \in TreasurySides
          PROVE  treasury'[other] = told'.holdings[other] + untold'[other]
      BY <1>2, <1>4, <2>1, <2>2 DEF TreasurySides, Holdings
    <2>4. PriceIsWhole'
      BY <1>1, <1>2, <1>3, <2>1, WholeKept
    <2>5. EventsTellTheState'
      BY <1>4, <2>1, <2>3 DEF EventsTellTheState
    <2> QED
      BY <1>1, <1>3, <2>1, <2>4, <2>5
         DEF IInv, Screened, Deployed, Posted, PriceIsTheAuthoritys
  <1> QED
    BY <1>5, <1>6, <1>7, <1>8, <1>9, <1>10, <1>11, <1>12, <1>13 DEF AnyStep, StepOf

\* The strengthened invariant holds in every reachable state.
THEOREM VaultInvariant == Spec => []IInv
  BY InitInv, NextIsAny, InvStep, PTL DEF Spec

\* No sequence of key changes, withdrawals, halts and updates leaves a price up that
\* the present pricing authority did not sign.
THEOREM PriceSigned == Spec => []PriceIsTheAuthoritys
  <1>1. IInv => PriceIsTheAuthoritys
    BY DEF IInv
  <1> QED
    BY <1>1, VaultInvariant, PTL

\* A price that is up can price both directions; one that is down is blank.
THEOREM PriceWhole == Spec => []PriceIsWhole
  <1>1. IInv => PriceIsWhole
    BY DEF IInv
  <1> QED
    BY <1>1, VaultInvariant, PTL

\* A collector of events knows the price and, up to gifts, the balances.
THEOREM EventsComplete == Spec => []EventsTellTheState
  <1>1. IInv => EventsTellTheState
    BY DEF IInv
  <1> QED
    BY <1>1, VaultInvariant, PTL
-----------------------------------------------------------------------------
(* What a step may never do, and that every step is one of QuoteBook: all   *)
(* from IInv.  A screened mint delivers what was sent, so the treasury a    *)
(* swap leaves is the one the arithmetic computed.                          *)

\* What a swap leaves behind, once the mints are known to be faithful.
LEMMA SwapLeaves ==
    ASSUME IInv, NEW req \in SwapRequest, swap(req)
    PROVE  LET out == AmountOut(quote_params, req)
           IN  /\ treasury' = InventoryAfter(treasury, req, out)
               /\ UNCHANGED <<vault, limits, quote, slot>>
               /\ ~vault.halted
  <1> DEFINE out == AmountOut(quote_params, req)
  <1>1. /\ Deployed /\ ~vault.halted /\ treasury' = TreasuryAfter(req, out)
        /\ UNCHANGED <<vault, limits, quote, slot>>
    BY DEF swap
  <1>2. req \in SwapRequest
    BY VaultAssumption DEF Orders, SwapRequest
  <1>3. Delivered(MintOf(IF req.side = BaseToQuote THEN "base" ELSE "quote"),
                  req.amount_in) = req.amount_in
    BY <1>1, ScreenedDelivers DEF IInv, Screened, MintOf
  <1>4. [req EXCEPT !.amount_in = req.amount_in] = req
    BY <1>2 DEF SwapRequest
  <1> QED
    BY <1>1, <1>3, <1>4 DEF TreasuryAfter

\* Selling base costs the trader: the result, at the bid, is worth no more than
\* the input at the skewed mid, and the bid is not above it.
LEMMA SaleWorth ==
    ASSUME NEW S \in Nat \ {0}, NEW D \in Nat \ {0}, NEW in \in Nat, NEW out \in Nat,
           NEW bid \in Nat, NEW mid \in Nat, NEW k \in Nat \ {0}, NEW spread \in Nat,
           spread < D,
           out * S <= in * bid, bid * (D * D) <= mid * (k * (D - spread))
    PROVE  out * (S * D) <= in * (mid * k)
  <1>1. bid * D <= mid * k
    <2>1. mid * (k * (D - spread)) <= (mid * k) * D
      <3>1. D - spread \in Nat /\ D - spread <= D /\ mid * k \in Nat
        BY SMT
      <3>2. (mid * k) * (D - spread) <= (mid * k) * D
        BY <3>1, ProductMonotone
      <3> QED
        BY <3>1, <3>2, SMT
    <2>2. (bid * D) * D <= (mid * k) * D
      BY <2>1, SMT
    <2> QED
      BY <2>2, SMT
  <1>2. (out * S) * D <= (in * bid) * D
    BY SMT
  <1>3. in * (bid * D) <= in * (mid * k)
    <2>1. bid * D \in Nat /\ mid * k \in Nat
      BY SMT
    <2> QED
      BY <1>1, <2>1, ProductMonotone
  <1> QED
    BY <1>2, <1>3, SMT

\* Buying base costs the trader: what is paid covers the result at the ask, which
\* is not below the skewed mid.
LEMMA PurchaseWorth ==
    ASSUME NEW S \in Nat \ {0}, NEW D \in Nat \ {0}, NEW in \in Nat, NEW out \in Nat,
           NEW ask \in Nat, NEW mid \in Nat, NEW k \in Nat \ {0}, NEW spread \in Nat,
           out * ask <= in * S, mid * (k * (D + spread)) <= ask * (D * D)
    PROVE  out * (mid * k) <= in * (S * D)
  <1>1. mid * k <= ask * D
    <2>1. (mid * k) * D <= mid * (k * (D + spread))
      <3>1. D + spread \in Nat /\ D <= D + spread /\ mid * k \in Nat
        BY SMT
      <3>2. (mid * k) * D <= (mid * k) * (D + spread)
        BY <3>1, ProductMonotone
      <3> QED
        BY <3>1, <3>2, SMT
    <2>2. (mid * k) * D <= (ask * D) * D
      BY <2>1, SMT
    <2> QED
      BY <2>2, SMT
  <1>2. (out * ask) * D <= (in * S) * D
    BY SMT
  <1>3. out * (mid * k) <= out * (ask * D)
    <2>1. ask * D \in Nat /\ mid * k \in Nat
      BY SMT
    <2> QED
      BY <1>1, <2>1, ProductMonotone
  <1> QED
    BY <1>2, <1>3, SMT

\* A swap never lowers what the treasury is worth at its own price.
LEMMA SwapWorth ==
    ASSUME IInv, NEW req \in SwapRequest, swap(req)
    PROVE  Worth(treasury', quote) >= Worth(treasury, quote)
  <1> DEFINE p == quote_params
             out == AmountOut(p, req)
             in == req.amount_in
             k == BPS_DENOM + quote.skew_bps
             price == side_price_e9(p, req.side)
  <1>1. /\ FactorInDomain(p) /\ p.mid_e9 # 0 /\ p \in QuoteParams
        /\ req \in SwapRequest /\ out \in Nat
        /\ InventoryVerdict(treasury, req, out) = "Ok"
    BY AllowedOrder, ParamsTyped DEF IInv, swap, Posted, quote_params
  <1>2. /\ treasury' = InventoryAfter(treasury, req, out)
        /\ treasury.base \in Nat /\ treasury.quote \in Nat
    BY SwapLeaves DEF IInv, TypeOK, Holdings
  <1>3. /\ PRICE_SCALE \in Nat \ {0} /\ BPS_DENOM \in Nat \ {0} /\ in \in Nat
        /\ req.side \in Sides
    BY <1>1, MathAssumption DEF SwapRequest
  <1>4. /\ quote.mid_e9 \in Nat /\ quote.spread_bps \in Nat /\ quote.skew_bps \in Int
        /\ k \in Nat \ {0} /\ quote.spread_bps < BPS_DENOM
    BY <1>1, <1>3 DEF IInv, TypeOK, Quotes, FactorInDomain, Skewed, quote_params
  <1>5. /\ req.side = BaseToQuote => out * PRICE_SCALE <= in * price
        /\ req.side = QuoteToBase => out * price <= in * PRICE_SCALE
    BY <1>1, OutBounds
  <1>6. CASE req.side = BaseToQuote
    <2>1. /\ price \in Nat
          /\ price * (BPS_DENOM * BPS_DENOM)
                 <= quote.mid_e9 * (k * (BPS_DENOM - quote.spread_bps))
      BY <1>1, <1>6, PricesBracket
         DEF FACTOR_DENOM, side_factor, Skewed, Sided, quote_params
    <2> HIDE DEF out, in, k, price, p
    <2>2. out * (PRICE_SCALE * BPS_DENOM) <= in * (quote.mid_e9 * k)
      BY <1>1, <1>3, <1>4, <1>5, <1>6, <2>1, SaleWorth
    <2>3. out <= treasury.quote
      BY <1>1, <1>2, <1>6, SMT DEF InventoryVerdict
    <2>4. treasury' = [base |-> treasury.base + in, quote |-> treasury.quote - out]
      BY <1>2, <1>6 DEF InventoryAfter, in
    <2>5. Worth(treasury', quote)
              = (treasury.base + in) * (quote.mid_e9 * k)
                    + (treasury.quote - out) * (PRICE_SCALE * BPS_DENOM)
      BY <2>4 DEF Worth, k
    <2>6. Worth(treasury, quote)
              = treasury.base * (quote.mid_e9 * k)
                    + treasury.quote * (PRICE_SCALE * BPS_DENOM)
      BY DEF Worth, k
    <2> QED
      BY <1>1, <1>2, <1>3, <1>4, <2>2, <2>5, <2>6, SMT
  <1>7. CASE req.side = QuoteToBase
    <2>1. /\ price \in Nat
          /\ quote.mid_e9 * (k * (BPS_DENOM + quote.spread_bps))
                 <= price * (BPS_DENOM * BPS_DENOM)
      BY <1>1, <1>7, PricesBracket
         DEF FACTOR_DENOM, side_factor, Skewed, Sided, quote_params, BaseToQuote,
             QuoteToBase
    <2> HIDE DEF out, in, k, price, p
    <2>2. out * (quote.mid_e9 * k) <= in * (PRICE_SCALE * BPS_DENOM)
      BY <1>1, <1>3, <1>4, <1>5, <1>7, <2>1, PurchaseWorth
    <2>3. treasury' = [base |-> treasury.base - out, quote |-> treasury.quote + in]
      BY <1>2, <1>7 DEF InventoryAfter, in, BaseToQuote, QuoteToBase
    <2>4. Worth(treasury', quote)
              = (treasury.base - out) * (quote.mid_e9 * k)
                    + (treasury.quote + in) * (PRICE_SCALE * BPS_DENOM)
      BY <2>3 DEF Worth, k
    <2>5. Worth(treasury, quote)
              = treasury.base * (quote.mid_e9 * k)
                    + treasury.quote * (PRICE_SCALE * BPS_DENOM)
      BY DEF Worth, k
    <2> QED
      BY <1>1, <1>2, <1>3, <1>4, <2>2, <2>4, <2>5, SMT
  <1> QED
    BY <1>3, <1>6, <1>7 DEF Sides

\* Every step but a swap moves at most one of the two balances, up, or down with the
\* price.
LEMMA OtherSteps ==
    ASSUME IInv, [AnyStep]_vars, ~\E req \in SwapRequest : swap(req)
    PROVE  /\ treasury' \in Holdings
           /\ treasury'.base = treasury.base \/ treasury'.quote = treasury.quote
           /\ \/ treasury'.base >= treasury.base /\ treasury'.quote >= treasury.quote
              \/ quote' = NoQuote
  <1>1. /\ treasury \in Holdings /\ treasury' \in Holdings
        /\ treasury.base \in Nat /\ treasury.quote \in Nat
    BY TypedStep DEF IInv, TypeOK, Holdings
  <1>2. CASE UNCHANGED treasury
    BY <1>1, <1>2
  <1>3. ASSUME NEW s \in Keys, NEW side \in TreasurySides, NEW amount \in Nat,
               deposit(s, side, amount)
        PROVE  /\ treasury'.base = treasury.base \/ treasury'.quote = treasury.quote
               /\ treasury'.base >= treasury.base /\ treasury'.quote >= treasury.quote
    <2>1. Delivered(MintOf(side), amount) \in Nat
      BY DeliveredBounded, VaultAssumption
    <2> QED
      BY <1>1, <1>3, <2>1 DEF deposit, TreasurySides, Holdings
  <1>4. ASSUME NEW s \in Keys, NEW side \in TreasurySides, NEW amount \in Nat,
               withdraw(s, side, amount)
        PROVE  /\ treasury'.base = treasury.base \/ treasury'.quote = treasury.quote
               /\ quote' = NoQuote
    BY <1>1, <1>4 DEF withdraw, clear_quote, TreasurySides, Holdings
  <1>5. ASSUME NEW side \in TreasurySides, NEW amount \in Nat, Gift(side, amount)
        PROVE  /\ treasury'.base = treasury.base \/ treasury'.quote = treasury.quote
               /\ treasury'.base >= treasury.base /\ treasury'.quote >= treasury.quote
    <2>1. amount \in Nat
      BY VaultAssumption
    <2> QED
      BY <1>1, <1>5, <2>1 DEF Gift, TreasurySides, Holdings
  <1>6. CASE \/ \E s \in Keys, side \in TreasurySides, amount \in Nat :
                    deposit(s, side, amount)
             \/ \E s \in Keys, side \in TreasurySides, amount \in Nat :
                    withdraw(s, side, amount)
             \/ \E side \in TreasurySides, amount \in Nat : Gift(side, amount)
    BY <1>1, <1>3, <1>4, <1>5, <1>6
  <1> QED
    BY <1>2, <1>6
       DEF AnyStep, StepOf, vars, initialize_vault, set_pricing_authority, set_halt_authority,
           set_risk_limits, SetHalted, update_quote, clear_quote_ix, Tick

\* A step that leaves the price alone leaves the treasury worth as much at it, or more.
LEMMA WorthStep ==
    IInv /\ [AnyStep]_vars
        => [Posted /\ quote' = quote => Worth(treasury', quote) >= Worth(treasury, quote)]_vars
  <1>1. ASSUME IInv, [AnyStep]_vars, Posted, quote' = quote
        PROVE  Worth(treasury', quote) >= Worth(treasury, quote)
    <2>1. CASE \E req \in SwapRequest : swap(req)
      BY <1>1, <2>1, SwapWorth
    <2>2. CASE ~\E req \in SwapRequest : swap(req)
      <3> DEFINE a == quote.mid_e9 * (BPS_DENOM + quote.skew_bps)
                 b == PRICE_SCALE * BPS_DENOM
      <3>1. quote' # NoQuote
        BY <1>1 DEF Posted, NoQuote
      <3>2. /\ treasury' \in Holdings /\ treasury \in Holdings
            /\ treasury'.base >= treasury.base /\ treasury'.quote >= treasury.quote
        BY <1>1, <2>2, <3>1, OtherSteps DEF IInv, TypeOK
      <3>3. FactorInDomain(quote_params)
        BY <1>1 DEF IInv, PriceIsWhole, PriceVerdict, Sides
      <3>4. a \in Nat /\ b \in Nat
        <4>1. quote.mid_e9 \in Nat /\ BPS_DENOM + quote.skew_bps \in Nat
          BY <1>1, <3>3, MathAssumption
             DEF IInv, TypeOK, Quotes, FactorInDomain, Skewed, quote_params
        <4> QED
          BY <4>1, MathAssumption, SMT
      <3> HIDE DEF a, b
      <3>5. /\ treasury.base * a <= treasury'.base * a
            /\ treasury.quote * b <= treasury'.quote * b
        BY <3>2, <3>4, ProductMonotone DEF Holdings
      <3>6. /\ treasury.base * a \in Int /\ treasury'.base * a \in Int
            /\ treasury.quote * b \in Int /\ treasury'.quote * b \in Int
        BY <3>2, <3>4, MathAssumption, SMT DEF Holdings
      <3>7. /\ Worth(treasury', quote) = treasury'.base * a + treasury'.quote * b
            /\ Worth(treasury, quote) = treasury.base * a + treasury.quote * b
        BY DEF Worth, a, b
      <3> QED
        BY <3>5, <3>6, <3>7, SMT
    <2> QED
      BY <2>1, <2>2
  <1> QED
    BY <1>1

\* While one price stands, no trade, deposit, gift or change of settings makes the
\* treasury worth less at it.
THEOREM WorthKept == Spec => WorthNeverFalls
  BY NextIsAny, WorthStep, VaultInvariant, PTL DEF Spec, WorthNeverFalls

\* A step that moves both balances, a trade, ends within the owner's bound or closer.
LEMMA BalanceStep ==
    IInv /\ [AnyStep]_vars
        => [LET before == Abs(inventory_skew_bps(treasury, quote.mid_e9))
                after == Abs(inventory_skew_bps(treasury', quote.mid_e9))
            IN  treasury'.base # treasury.base /\ treasury'.quote # treasury.quote
                    => after <= limits.max_skew_bps \/ after <= before]_vars
  <1> DEFINE before == Abs(inventory_skew_bps(treasury, quote.mid_e9))
             after == Abs(inventory_skew_bps(treasury', quote.mid_e9))
  <1>1. ASSUME IInv, NEW req \in SwapRequest, swap(req)
        PROVE  after <= limits.max_skew_bps \/ after <= before
    <2> DEFINE out == AmountOut(quote_params, req)
               was == inventory_skew_bps(treasury, quote.mid_e9)
               is == inventory_skew_bps(treasury', quote.mid_e9)
    <2>1. LimitVerdict(quote_params, treasury, req, out) = "Ok"
      BY <1>1, AllowedOrder DEF IInv, swap
    <2>2. treasury' = InventoryAfter(treasury, req, out)
      BY <1>1, SwapLeaves
    <2>3. ~exceeds_inventory_bound(was, is, limits.max_skew_bps)
      BY <2>1, <2>2 DEF LimitVerdict, quote_params
    <2>4. was \in Int /\ is \in Int /\ limits.max_skew_bps \in Nat
      <3>1. TypeOK /\ TypeOK'
        BY <1>1, TypedStep DEF IInv, AnyStep, StepOf
      <3>2. treasury \in Inventory /\ treasury' \in Inventory /\ quote.mid_e9 \in Nat
        BY <3>1 DEF TypeOK, Holdings, Inventory, Quotes
      <3> QED
        BY <3>1, <3>2, SkewBounded DEF TypeOK, RiskLimits
    <2> HIDE DEF was, is
    <2>5. Abs(is) <= limits.max_skew_bps \/ Abs(is) <= Abs(was)
      BY <2>3, <2>4, SMT DEF exceeds_inventory_bound, Abs
    <2> QED
      BY <2>5 DEF was, is
  <1> HIDE DEF before, after
  <1>2. IInv /\ [AnyStep]_vars
            => [treasury'.base # treasury.base /\ treasury'.quote # treasury.quote
                    => after <= limits.max_skew_bps \/ after <= before]_vars
    BY <1>1, OtherSteps
  <1> QED
    BY <1>2 DEF before, after

\* No trade goes past the owner's bound and past where the treasury was.
THEOREM BalanceKept == Spec => TradingKeepsBalance
  BY NextIsAny, BalanceStep, VaultInvariant, PTL DEF Spec, TradingKeepsBalance

\* A step of a halted vault posts no price and moves at most one balance.
LEMMA HaltStep ==
    IInv /\ [AnyStep]_vars
        => [vault.halted =>
               /\ quote' \in {quote, NoQuote}
               /\ treasury'.base = treasury.base \/ treasury'.quote = treasury.quote]_vars
  <1>1. ASSUME IInv, [AnyStep]_vars, vault.halted
        PROVE  /\ quote' \in {quote, NoQuote}
               /\ treasury'.base = treasury.base \/ treasury'.quote = treasury.quote
    <2>1. ~\E req \in SwapRequest : swap(req)
      BY <1>1 DEF swap
    <2>2. quote' \in {quote, NoQuote}
      BY <1>1, <2>1
         DEF AnyStep, StepOf, vars, initialize_vault, set_pricing_authority, set_halt_authority,
             set_risk_limits, SetHalted, deposit, withdraw, update_quote,
             clear_quote_ix, clear_quote, Gift, Tick
    <2> QED
      BY <1>1, <2>1, <2>2, OtherSteps
  <1> QED
    BY <1>1

\* A halted vault takes no new price and makes no trade.
THEOREM HaltKept == Spec => HaltFreezesTrading
  BY NextIsAny, HaltStep, VaultInvariant, PTL DEF Spec, HaltFreezesTrading

-----------------------------------------------------------------------------
(* Refinement.                                                              *)

\* The book of Vault, with any prices and age limits.
BookOf(prices, ages) == INSTANCE QuoteBook WITH
    NoKey <- DefaultKey,
    Terms <- prices,
    NoBook <- NoQuote,
    Ages <- ages,
    book <- IF quote.mid_e9 = 0 THEN NoQuote
            ELSE [terms |-> [mid_e9 |-> quote.mid_e9, spread_bps |-> quote.spread_bps,
                             skew_bps |-> quote.skew_bps,
                             max_size_base |-> quote.max_size_base],
                  slot |-> quote.quote_slot],
    key <- vault.pricing_authority,
    halted <- vault.halted,
    max_age <- limits.max_quote_age_slots,
    now <- slot

\* The age limits among some risk limits.
AgesOf(ls) == {l.max_quote_age_slots : l \in {m \in ls : LimitsValid(m)}}

\* Whatever leaves the four things a quoter depends on alone is a stutter.
LEMMA BookStutter ==
    ASSUME NEW prices, NEW ages, UNCHANGED <<quote, slot>>, vault'.halted = vault.halted,
           vault'.pricing_authority = vault.pricing_authority,
           limits'.max_quote_age_slots = limits.max_quote_age_slots
    PROVE  UNCHANGED BookOf(prices, ages)!vars
  BY DEF BookOf!vars

\* A step with limits of ls and prices of qs is a step of the book over these.
LEMMA BookStep ==
    ASSUME NEW ls \in SUBSET RiskLimits, NEW qs \in SUBSET QuoteUpdate,
           IInv, [StepOf(ls, qs)]_vars
    PROVE  [BookOf(qs, AgesOf(ls))!Next]_(BookOf(qs, AgesOf(ls))!vars)
  <1>1. vault \in Vaults /\ limits \in RiskLimits /\ quote \in Quotes /\ Screened
    BY DEF IInv, TypeOK
  <1>2. Deployed => vault.pricing_authority \in Keys /\ vault.pricing_authority # DefaultKey
    BY <1>1, VaultAssumption DEF Screened
  <1>3. ASSUME NEW owner \in Keys, NEW base \in Mints, NEW qte \in Mints,
               NEW pricing \in Keys, NEW halting \in Keys, NEW l \in ls,
               initialize_vault(owner, base, qte, pricing, halting, l)
        PROVE  BookOf(qs, AgesOf(ls))!Next
    <2>1. vault = NoVault /\ quote.mid_e9 = 0
      BY <1>1, <1>3 DEF initialize_vault, Screened, Posted
    <2>2. BookOf(qs, AgesOf(ls))!Deploy(pricing, l.max_quote_age_slots)
      BY <1>3, <2>1 DEF initialize_vault, BookOf!Deploy, NoVault, NoQuote
    <2> QED
      BY <1>3, <2>2 DEF BookOf!Next, AgesOf, initialize_vault
  <1>4. ASSUME NEW s \in Keys, NEW k \in Keys, set_pricing_authority(s, k)
        PROVE  BookOf(qs, AgesOf(ls))!Next
    <2>1. BookOf(qs, AgesOf(ls))!Rekey(k)
      BY <1>1, <1>2, <1>4
         DEF set_pricing_authority, ByOwner, clear_quote, BookOf!Rekey, Vaults, NoQuote
    <2> QED
      BY <2>1 DEF BookOf!Next
  <1>5. ASSUME NEW s \in Keys, NEW k \in Keys, set_halt_authority(s, k)
        PROVE  UNCHANGED BookOf(qs, AgesOf(ls))!vars
    BY <1>1, <1>5, BookStutter DEF set_halt_authority, Vaults
  <1>6. ASSUME NEW s \in Keys, NEW l \in ls, set_risk_limits(s, l)
        PROVE  BookOf(qs, AgesOf(ls))!Next
    <2>1. BookOf(qs, AgesOf(ls))!SetMaxAge(l.max_quote_age_slots)
      BY <1>2, <1>6 DEF set_risk_limits, ByOwner, BookOf!SetMaxAge
    <2> QED
      BY <1>6, <2>1 DEF BookOf!Next, AgesOf, set_risk_limits
  <1>7. ASSUME NEW flag \in BOOLEAN, SetHalted(flag)
        PROVE  BookOf(qs, AgesOf(ls))!Next
    <2>1. BookOf(qs, AgesOf(ls))!SetHalted(flag)
      BY <1>1, <1>2, <1>7 DEF SetHalted, Vaults, BookOf!SetHalted
    <2> QED
      BY <2>1 DEF BookOf!Next
  <1>8. ASSUME NEW s \in Keys, NEW side \in TreasurySides, NEW amount \in Nat,
               deposit(s, side, amount)
        PROVE  UNCHANGED BookOf(qs, AgesOf(ls))!vars
    BY <1>8, BookStutter DEF deposit
  <1>9. ASSUME NEW s \in Keys, NEW side \in TreasurySides, NEW amount \in Nat,
               withdraw(s, side, amount)
        PROVE  BookOf(qs, AgesOf(ls))!Next
    <2>1. BookOf(qs, AgesOf(ls))!TakeDown
      BY <1>9 DEF withdraw, clear_quote, BookOf!TakeDown, NoQuote
    <2> QED
      BY <2>1 DEF BookOf!Next
  <1>10. ASSUME NEW s \in Keys, NEW q \in qs, update_quote(s, q)
         PROVE  BookOf(qs, AgesOf(ls))!Next
    <2>1. q \in QuoteUpdate /\ q.mid_e9 # 0
      BY <1>10 DEF update_quote, Acceptable, QuoteUpdate
    <2>2. q = [mid_e9 |-> q.mid_e9, spread_bps |-> q.spread_bps,
               skew_bps |-> q.skew_bps, max_size_base |-> q.max_size_base]
      BY <2>1 DEF QuoteUpdate
    <2>3. BookOf(qs, AgesOf(ls))!Post(s, q)
      BY <1>10, <2>1, <2>2 DEF update_quote, ByPricing, BookOf!Post
    <2> QED
      BY <2>3 DEF BookOf!Next
  <1>11. ASSUME NEW s \in Keys, clear_quote_ix(s)
         PROVE  BookOf(qs, AgesOf(ls))!Next
    <2>1. BookOf(qs, AgesOf(ls))!TakeDown
      BY <1>11 DEF clear_quote_ix, clear_quote, BookOf!TakeDown, NoQuote
    <2> QED
      BY <2>1 DEF BookOf!Next
  <1>12. ASSUME NEW req \in SwapRequest, swap(req)
         PROVE  UNCHANGED BookOf(qs, AgesOf(ls))!vars
    BY <1>12, BookStutter DEF swap
  <1>13. ASSUME NEW side \in TreasurySides, NEW amount \in Nat, Gift(side, amount)
         PROVE  UNCHANGED BookOf(qs, AgesOf(ls))!vars
    BY <1>13, BookStutter DEF Gift
  <1>14. CASE Tick
    <2>1. BookOf(qs, AgesOf(ls))!Tick
      BY <1>14 DEF Tick, BookOf!Tick
    <2> QED
      BY <2>1 DEF BookOf!Next
  <1>15. CASE UNCHANGED vars
    BY <1>15, BookStutter DEF vars
  <1> QED
    BY <1>3, <1>4, <1>5, <1>6, <1>7, <1>8, <1>9, <1>10, <1>11, <1>12, <1>13, <1>14,
       <1>15 DEF StepOf

\* Every step of the vault on its own is one of Book.
LEMMA BookNext == IInv /\ [Next]_vars => [Book!Next]_(Book!vars)
  <1>1. LimitInputs \in SUBSET RiskLimits /\ QuoteInputs \in SUBSET QuoteUpdate
    BY VaultAssumption
  <1>2. ASSUME IInv, [Next]_vars
        PROVE  [BookOf(QuoteInputs, AgesOf(LimitInputs))!Next]_
                   (BookOf(QuoteInputs, AgesOf(LimitInputs))!vars)
    BY <1>1, <1>2, NextIsStep, BookStep
  <1> QED
    BY <1>2
       DEF Book!Next, Book!vars, Book!Deploy, Book!Rekey, Book!Post, Book!TakeDown,
           Book!SetMaxAge, Book!SetHalted, Book!Tick, BookOf!Next, BookOf!vars,
           BookOf!Deploy, BookOf!Rekey, BookOf!Post, BookOf!TakeDown, BookOf!SetMaxAge,
           BookOf!SetHalted, BookOf!Tick, AgesOf

\* The program, with its arithmetic, treasury, limits and events, is a book of one
\* price: whoever quotes on it may reason about QuoteBook instead.
THEOREM VaultIsABook == Spec => ImplementsQuoteBook
  <1>1. Init => Book!Init
    BY DEF Init, Book!Init, NoQuote, NoVault
  <1> QED
    BY <1>1, BookNext, VaultInvariant, PTL DEF Spec, ImplementsQuoteBook, Book!Spec
=============================================================================
