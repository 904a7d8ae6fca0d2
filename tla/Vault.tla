------------------------------- MODULE Vault -------------------------------
(***************************************************************************)
(* The on-chain program (programs/propamm-vault): one vault trading one     *)
(* pair of assets at one price.                                             *)
(*                                                                          *)
(* An instruction is atomic on the chain, so it is one action; what refuses *)
(* it is its guard, and a refused instruction changes nothing.  The fields  *)
(* of the Vault account are kept in three variables: vault (who and what),  *)
(* limits (the owner's risk limits) and quote (the five fields of a price). *)
(* treasury is the balance of the two token accounts the vault owns.        *)
(*                                                                          *)
(* told, untold and signer are history variables: what a collector knows    *)
(* that reads only the events (src/events.rs), what entered the treasury    *)
(* since without an event, and who signed the price in force.               *)
(***************************************************************************)
EXTENDS QuoteMath

CONSTANTS
    Keys,        \* every key that can sign
    DefaultKey,  \* Pubkey::default(), which signs nothing
    Mints,       \* every mint
    Extensions,  \* the Token-2022 extensions of each mint; none for classic SPL
    QuoteInputs, \* arguments of update_quote
    LimitInputs, \* arguments of set_risk_limits and initialize_vault
    Amounts,     \* arguments of swap, deposit and withdraw
    Gifts,       \* plain token transfers into a treasury account
    MaxSlot,     \* bound: the slot at which the chain stops ticking
    MaxUntold    \* bound: how much may sit in a treasury account untold

QuoteUpdate ==
    [mid_e9 : Nat, spread_bps : Nat, skew_bps : Int, max_size_base : Nat]

RiskLimits == [max_quote_age_slots : Nat, max_skew_bps : Nat]

ASSUME VaultAssumption ==
    /\ DefaultKey \notin Keys
    /\ QuoteInputs \subseteq QuoteUpdate
    /\ LimitInputs \subseteq RiskLimits
    /\ Amounts \subseteq Nat
    /\ Gifts \subseteq Nat
    /\ MaxSlot \in Nat
    /\ MaxUntold \in Nat

VARIABLES vault, limits, quote, treasury, slot, told, untold, signer

vars == <<vault, limits, quote, treasury, slot, told, untold, signer>>

TreasurySides == {"base", "quote"}

NoQuote == [mid_e9 |-> 0, spread_bps |-> 0, skew_bps |-> 0,
            max_size_base |-> 0, quote_slot |-> 0]

Quotes == [mid_e9 : Nat, spread_bps : Nat, skew_bps : Int,
           max_size_base : Nat, quote_slot : Nat]

NoVault == [owner |-> DefaultKey, pricing_authority |-> DefaultKey,
            halt_authority |-> DefaultKey, halted |-> FALSE,
            base_mint |-> "none", quote_mint |-> "none"]

Nothing == [base |-> 0, quote |-> 0]

Deployed == vault.owner # DefaultKey

\* What Vault::quote_params hands to the arithmetic.
quote_params ==
    [mid_e9 |-> quote.mid_e9, spread_bps |-> quote.spread_bps,
     skew_bps |-> quote.skew_bps, max_size_base |-> quote.max_size_base,
     quote_slot |-> quote.quote_slot,
     max_quote_age_slots |-> limits.max_quote_age_slots,
     max_skew_bps |-> limits.max_skew_bps]

-----------------------------------------------------------------------------
(* The event stream, as a collector folds it.                               *)

QuoteUpdated(t, q) == [t EXCEPT !.quote = q]

\* Sound only if there was a price to clear: a clearing of a price that never
\* existed would be a false row of history.
QuoteCleared(t) ==
    [t EXCEPT !.quote = NoQuote, !.sound = t.sound /\ t.quote # NoQuote]

CapitalMoved(t, side, after) == [t EXCEPT !.holdings[side] = after]

Swapped(t, after) == [t EXCEPT !.holdings = after]

\* A slip: the other four fields survive.
ClearPriceOnly(t) ==
    /\ quote' = [quote EXCEPT !.mid_e9 = 0]
    /\ told' = IF quote.mid_e9 # 0 THEN QuoteCleared(t) ELSE t
    /\ signer' = DefaultKey

\* Vault::clear_quote at its three call sites: all five fields, and an event only
\* if there was a price.  t is what the collector knows from earlier events of the
\* same transaction.
clear_quote(t) ==
    /\ quote' = NoQuote
    /\ told' = IF quote.mid_e9 # 0 THEN QuoteCleared(t) ELSE t
    /\ signer' = DefaultKey

-----------------------------------------------------------------------------
(* The token programs, external: mint_guard exists because a transfer of a   *)
(* mint with a fee delivers less than was sent.                             *)

Delivered(mint, amount) ==
    IF "TransferFeeConfig" \in Extensions[mint] THEN Monus(amount, 1) ELSE amount

\* The extensions that stay out of a transfer.
is_transfer_faithful ==
    {"MetadataPointer", "TokenMetadata", "GroupPointer", "TokenGroup",
     "GroupMemberPointer", "TokenGroupMember"}

ensure_transfer_is_faithful(mint) == Extensions[mint] \subseteq is_transfer_faithful

MintOf(side) == IF side = "base" THEN vault.base_mint ELSE vault.quote_mint

\* Anyone can send tokens to a treasury account; no instruction of the program runs.
Gift(side, amount) ==
    /\ FitsU64(treasury[side] + amount)
    /\ untold[side] + amount <= MaxUntold
    /\ treasury' = [treasury EXCEPT ![side] = @ + amount]
    /\ untold' = [untold EXCEPT ![side] = @ + amount]
    /\ UNCHANGED <<vault, limits, quote, slot, told, signer>>

-----------------------------------------------------------------------------
(* Deployment and administration, by the owner.                             *)

\* RiskLimits::validate
LimitsValid(l) == l.max_quote_age_slots > 0 /\ l.max_skew_bps <= BPS_DENOM

\* A slip: the mints are not screened.
DeployUnscreened(owner, base, qte, pricing, halting, l) ==
    /\ ~Deployed
    /\ base # qte
    /\ pricing # DefaultKey /\ halting # DefaultKey /\ LimitsValid(l)
    /\ vault' = [owner |-> owner, pricing_authority |-> pricing,
                 halt_authority |-> halting, halted |-> FALSE,
                 base_mint |-> base, quote_mint |-> qte]
    /\ limits' = l
    /\ quote' = NoQuote
    /\ UNCHANGED <<treasury, slot, told, untold, signer>>

\* No event: the collector starts from an empty vault without a price.
initialize_vault(owner, base, qte, pricing, halting, l) ==
    /\ ~Deployed
    /\ base # qte
    /\ pricing # DefaultKey /\ halting # DefaultKey /\ LimitsValid(l)
    /\ ensure_transfer_is_faithful(base) /\ ensure_transfer_is_faithful(qte)
    /\ vault' = [owner |-> owner, pricing_authority |-> pricing,
                 halt_authority |-> halting, halted |-> FALSE,
                 base_mint |-> base, quote_mint |-> qte]
    /\ limits' = l
    /\ quote' = NoQuote
    /\ UNCHANGED <<treasury, slot, told, untold, signer>>

ByOwner(s) == Deployed /\ s = vault.owner

\* A slip: the old key's price survives.
KeepPriceOnRekey(s, k) ==
    /\ ByOwner(s)
    /\ k # DefaultKey
    /\ vault' = [vault EXCEPT !.pricing_authority = k]
    /\ UNCHANGED <<limits, quote, treasury, slot, told, untold, signer>>

set_pricing_authority(s, k) ==
    /\ ByOwner(s)
    /\ k # DefaultKey
    /\ vault' = [vault EXCEPT !.pricing_authority = k]
    /\ clear_quote(told)
    /\ UNCHANGED <<limits, treasury, slot, untold>>

set_halt_authority(s, k) ==
    /\ ByOwner(s)
    /\ k # DefaultKey
    /\ vault' = [vault EXCEPT !.halt_authority = k]
    /\ UNCHANGED <<limits, quote, treasury, slot, told, untold, signer>>

\* A slip: a change of limits renews the price.
RedateOnLimits(s, l) ==
    /\ ByOwner(s)
    /\ LimitsValid(l)
    /\ limits' = l
    /\ quote' = [quote EXCEPT !.quote_slot = slot]
    /\ UNCHANGED <<vault, treasury, slot, told, untold, signer>>

\* Takes effect on the price that is up, and says nothing in the event stream.
set_risk_limits(s, l) ==
    /\ ByOwner(s)
    /\ LimitsValid(l)
    /\ limits' = l
    /\ UNCHANGED <<vault, quote, treasury, slot, told, untold, signer>>

\* The flag every instruction reads.  No instruction of this version writes it
\* (src/lib.rs: "Next: halt / resume"); the tests write it into the account.
SetHalted(flag) ==
    /\ Deployed
    /\ vault' = [vault EXCEPT !.halted = flag]
    /\ UNCHANGED <<limits, quote, treasury, slot, told, untold, signer>>

-----------------------------------------------------------------------------
(* Capital, moved by the owner.                                             *)

\* The price survives: more capital behind it does not make it wrong.
deposit(s, side, amount) ==
    /\ ByOwner(s)
    /\ amount > 0
    /\ FitsU64(treasury[side] + amount)
    /\ treasury' = [treasury EXCEPT ![side] = @ + Delivered(MintOf(side), amount)]
    /\ told' = CapitalMoved(told, side, treasury[side] + amount)
    /\ untold' = [untold EXCEPT ![side] = 0]
    /\ UNCHANGED <<vault, limits, quote, slot, signer>>

\* A slip: the price outlives the capital.
WithdrawKeepsPrice(s, side, amount) ==
    /\ ByOwner(s)
    /\ amount > 0
    /\ treasury[side] >= amount
    /\ treasury' = [treasury EXCEPT ![side] = @ - amount]
    /\ told' = CapitalMoved(told, side, treasury[side] - amount)
    /\ untold' = [untold EXCEPT ![side] = 0]
    /\ UNCHANGED <<vault, limits, quote, slot, signer>>

\* Open to a halted vault too, and takes the price down whatever is left behind it.
withdraw(s, side, amount) ==
    /\ ByOwner(s)
    /\ amount > 0
    /\ treasury[side] >= amount
    /\ treasury' = [treasury EXCEPT ![side] = @ - amount]
    /\ clear_quote(CapitalMoved(told, side, treasury[side] - amount))
    /\ untold' = [untold EXCEPT ![side] = 0]
    /\ UNCHANGED <<vault, limits, slot>>

-----------------------------------------------------------------------------
(* Quoting, by the pricing authority.                                       *)

ByPricing(s) == Deployed /\ s = vault.pricing_authority

\* The arguments as the arithmetic would see them once posted.
Candidate(q) ==
    [quote_params EXCEPT !.mid_e9 = q.mid_e9, !.spread_bps = q.spread_bps,
                         !.skew_bps = q.skew_bps,
                         !.max_size_base = q.max_size_base, !.quote_slot = slot]

Acceptable(q) ==
    /\ q.mid_e9 > 0
    /\ q.max_size_base > 0
    /\ \A side \in Sides : PriceVerdict(Candidate(q), side) = "Ok"

update_quote(s, q) ==
    /\ ByPricing(s)
    /\ ~vault.halted
    /\ Acceptable(q)
    /\ quote' = [mid_e9 |-> q.mid_e9, spread_bps |-> q.spread_bps,
                 skew_bps |-> q.skew_bps, max_size_base |-> q.max_size_base,
                 quote_slot |-> slot]
    /\ told' = QuoteUpdated(told, quote')
    /\ signer' = s
    /\ UNCHANGED <<vault, limits, treasury, slot, untold>>

\* Open to a halted vault too: taking a price down is always safe.
clear_quote_ix(s) ==
    /\ ByPricing(s)
    /\ clear_quote(told)
    /\ UNCHANGED <<vault, limits, treasury, slot, untold>>

-----------------------------------------------------------------------------
(* Trading, by anyone.                                                      *)

\* What the two transfers leave in the treasury: the input as it was delivered.
TreasuryAfter(req, out) ==
    InventoryAfter(treasury,
                   [req EXCEPT !.amount_in =
                        Delivered(MintOf(IF req.side = BaseToQuote THEN "base" ELSE "quote"),
                                  req.amount_in)],
                   out)

\* A slip: the halt is not read.
SwapWhileHalted(req) ==
    LET out == AmountOut(quote_params, req)
    IN  /\ Deployed
        /\ SwapAllowed(quote_params, treasury, req, slot)
        /\ treasury' = TreasuryAfter(req, out)
        /\ told' = Swapped(told, InventoryAfter(treasury, req, out))
        /\ untold' = Nothing
        /\ UNCHANGED <<vault, limits, quote, slot, signer>>

\* The event carries the holdings the arithmetic computed, not re-read balances.
swap(req) ==
    LET out == AmountOut(quote_params, req)
    IN  /\ Deployed
        /\ ~vault.halted
        /\ SwapAllowed(quote_params, treasury, req, slot)
        /\ treasury' = TreasuryAfter(req, out)
        /\ told' = Swapped(told, InventoryAfter(treasury, req, out))
        /\ untold' = Nothing
        /\ UNCHANGED <<vault, limits, quote, slot, signer>>

Tick ==
    /\ slot < MaxSlot
    /\ slot' = slot + 1
    /\ UNCHANGED <<vault, limits, quote, treasury, told, untold, signer>>

-----------------------------------------------------------------------------
Init ==
    /\ vault = NoVault
    /\ limits = [max_quote_age_slots |-> 0, max_skew_bps |-> 0]
    /\ quote = NoQuote
    /\ treasury = Nothing
    /\ slot = 0
    /\ told = [quote |-> NoQuote, holdings |-> Nothing, sound |-> TRUE]
    /\ untold = Nothing
    /\ signer = DefaultKey

Orders == [side : Sides, amount_in : Amounts, min_amount_out : Amounts]

Next ==
    \/ \E owner \in Keys, base, qte \in Mints, pricing, halting \in Keys,
          l \in LimitInputs :
           initialize_vault(owner, base, qte, pricing, halting, l)
    \/ \E s, k \in Keys : set_pricing_authority(s, k)
    \/ \E s, k \in Keys : set_halt_authority(s, k)
    \/ \E s \in Keys, l \in LimitInputs : set_risk_limits(s, l)
    \/ \E flag \in BOOLEAN : SetHalted(flag)
    \/ \E s \in Keys, side \in TreasurySides, amount \in Amounts :
           deposit(s, side, amount)
    \/ \E s \in Keys, side \in TreasurySides, amount \in Amounts :
           withdraw(s, side, amount)
    \/ \E s \in Keys, q \in QuoteInputs : update_quote(s, q)
    \/ \E s \in Keys : clear_quote_ix(s)
    \/ \E req \in Orders : swap(req)
    \/ \E side \in TreasurySides, amount \in Gifts : Gift(side, amount)
    \/ Tick

Spec == Init /\ [][Next]_vars

-----------------------------------------------------------------------------
(* Properties.                                                              *)

Vaults ==
    [owner : Keys \union {DefaultKey}, pricing_authority : Keys \union {DefaultKey},
     halt_authority : Keys \union {DefaultKey}, halted : BOOLEAN,
     base_mint : Mints \union {"none"}, quote_mint : Mints \union {"none"}]

Holdings == [base : 0..U64Max, quote : 0..U64Max]

TypeOK ==
    /\ vault \in Vaults
    /\ limits \in RiskLimits
    /\ quote \in Quotes
    /\ treasury \in Holdings
    /\ slot \in Nat
    /\ told \in [quote : Quotes, holdings : Holdings, sound : BOOLEAN]
    /\ untold \in [base : Nat, quote : Nat]
    /\ signer \in Keys \union {DefaultKey}

Posted == quote.mid_e9 # 0

\* The price in force was signed by the key that now holds the pricing authority,
\* through every change of key, withdrawal and halt: a replaced engine leaves no
\* price behind (set_pricing_authority), and no price is one nobody signed.
PriceIsTheAuthoritys ==
    signer = IF Posted THEN vault.pricing_authority ELSE DefaultKey

\* A price is whole or absent.  Absent, all five fields are blank, whichever of the
\* three sites cleared it; present, both directions price, so a swap is never
\* refused for the price itself, and its age counts from a slot that has been.
PriceIsWhole ==
    IF Posted
    THEN /\ quote.max_size_base > 0
         /\ quote.quote_slot <= slot
         /\ \A side \in Sides : PriceVerdict(quote_params, side) = "Ok"
    ELSE quote = NoQuote

\* The event stream is enough (src/events.rs: the collector never reads the account):
\* folding it gives the price in force, field by field, with no clearing of a
\* price that was not there, and the treasury exactly, up to what entered
\* unannounced since.  The program reports computed balances, so this leans on
\* mint_guard having refused every mint whose transfers deliver less.
EventsTellTheState ==
    /\ told.sound
    /\ told.quote = quote
    /\ \A side \in TreasurySides :
           treasury[side] = told.holdings[side] + untold[side]

\* What the treasury is worth at a price's own skewed mid, times PRICE_SCALE * BPS_DENOM.
Worth(t, q) ==
    t.base * (q.mid_e9 * (BPS_DENOM + q.skew_bps)) + t.quote * (PRICE_SCALE * BPS_DENOM)

\* While one price stands, nothing anyone does makes the treasury worth less at that
\* price: not a swap of any size in either direction, whose roundings all go the
\* vault's way, and not a withdrawal, which takes the price down with it.
WorthNeverFalls ==
    [][Posted /\ quote' = quote => Worth(treasury', quote) >= Worth(treasury, quote)]_vars

\* Trading at one price never takes the treasury past the owner's skew bound and
\* past where it was; only the owner's money or a gift may.
TradingKeepsBalance ==
    [][LET before == Abs(inventory_skew_bps(treasury, quote.mid_e9))
           after == Abs(inventory_skew_bps(treasury', quote.mid_e9))
       IN  treasury'.base # treasury.base /\ treasury'.quote # treasury.quote
               => after <= limits.max_skew_bps \/ after <= before]_vars

\* While a vault is halted the price can only come down, and nobody trades.
HaltFreezesTrading ==
    [][vault.halted =>
           /\ quote' \in {quote, NoQuote}
           /\ treasury'.base = treasury.base \/ treasury'.quote = treasury.quote]_vars

-----------------------------------------------------------------------------
(* The program implements the book of one price.                            *)

Book == INSTANCE QuoteBook WITH
    NoKey <- DefaultKey,
    Terms <- QuoteInputs,
    NoBook <- NoQuote,
    Ages <- {l.max_quote_age_slots : l \in {m \in LimitInputs : LimitsValid(m)}},
    book <- IF quote.mid_e9 = 0 THEN NoQuote
            ELSE [terms |-> [mid_e9 |-> quote.mid_e9, spread_bps |-> quote.spread_bps,
                             skew_bps |-> quote.skew_bps,
                             max_size_base |-> quote.max_size_base],
                  slot |-> quote.quote_slot],
    key <- vault.pricing_authority,
    halted <- vault.halted,
    max_age <- limits.max_quote_age_slots,
    now <- slot

\* Every step of the program is a step of QuoteBook, or changes nothing a quoter
\* depends on: swaps, deposits, gifts and the halt key leave the price alone.
ImplementsQuoteBook == Book!Spec
=============================================================================
