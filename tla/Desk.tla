-------------------------------- MODULE Desk --------------------------------
(***************************************************************************)
(* One vault with the people around it: the owner at the command line       *)
(* (Forge), a taker at a router (Market), and everybody else who can move   *)
(* the vault between what those two read and what they send.                *)
(***************************************************************************)
EXTENDS Forge, Market

CONSTANTS
    Starts  \* where a story begins: a project, what is on the chain, and its bounds

\* A story begins where a deployment can be: any price up is one the program took, and
\* a vault stands only on mints the program let through.
Begins(start) ==
    /\ start.files \subseteq {InitFiles[i] : i \in 1..Len(InitFiles)}
    /\ start.wallet \in [base : Nat, quote : Nat]
    /\ start.treasury \in Holdings /\ start.pool \in Holdings
    /\ start.deployed => ensure_transfer_is_faithful(Base)
                         /\ ensure_transfer_is_faithful(Quote)
    /\ start.quote \in Quotes
    /\ start.quote # NoQuote =>
           /\ start.deployed
           /\ start.quote.mid_e9 > 0 /\ start.quote.max_size_base > 0
           /\ start.quote.quote_slot = 0
           /\ \A side \in Sides : PriceVerdict(start.quote, side) = "Ok"

ASSUME DeskAssumption == \A start \in Starts : Begins(start)

VARIABLES
    bounds,  \* bounds of this story: commands, router updates, routes, moves by others
    others   \* moves by others so far

deskVars == <<vars, forgeVars, marketVars, bounds, others>>

\* A vault deployed by the owner with one key for everything.
OwnersVault ==
    [owner |-> OwnerKey, pricing_authority |-> OwnerKey, halt_authority |-> OwnerKey,
     halted |-> FALSE, base_mint |-> Base, quote_mint |-> Quote]

DeskInit ==
    /\ \E start \in Starts :
           /\ bounds = start.bounds
           /\ pool = start.pool
           /\ files = start.files
           /\ wallet = start.wallet
           /\ treasury = start.treasury
           /\ vault = IF start.deployed THEN OwnersVault ELSE NoVault
           /\ limits = IF start.deployed THEN Limits
                       ELSE [max_quote_age_slots |-> 0, max_skew_bps |-> 0]
           /\ quote = start.quote
           /\ told = [quote |-> start.quote, holdings |-> start.treasury, sound |-> TRUE]
           /\ signer = IF start.quote = NoQuote THEN DefaultKey ELSE OwnerKey
    /\ slot = 0
    /\ untold = Nothing
    /\ ForgeInit
    /\ MarketInit
    /\ others = 0

\* The owner with another tool, the holder of a key, a stranger who trades or gives.
OthersMove ==
    \/ /\ \/ \E k \in Keys : k # vault.pricing_authority
                             /\ set_pricing_authority(OwnerKey, k)
          \/ \E flag \in BOOLEAN \ {vault.halted} : SetHalted(flag)
          \/ \E l \in LimitInputs \ {limits} : set_risk_limits(OwnerKey, l)
          \/ \E q \in QuoteInputs : update_quote(vault.pricing_authority, q)
          \/ \E req \in Orders : swap(req)
          \/ \E side \in TreasurySides, amount \in Gifts : Gift(side, amount)
       /\ UNCHANGED wallet
    \/ \E side \in TreasurySides, amount \in Amounts :
           /\ withdraw(OwnerKey, side, amount)
           /\ wallet' = [wallet EXCEPT ![side] = @ + amount]

Others ==
    /\ others < bounds.others
    /\ OthersMove
    /\ others' = others + 1
    /\ UNCHANGED <<files, cmd, mempool, landed, log, marketVars, bounds>>

Owner ==
    /\ ForgeNext
    /\ Len(log') + (IF cmd'.pc = "idle" THEN 0 ELSE 1) <= bounds.commands
    /\ UNCHANGED <<marketVars, bounds, others>>

Taker ==
    /\ bounds.reads > 0
    /\ MarketNext
    /\ reads' <= bounds.reads /\ routes' <= bounds.routes
    /\ UNCHANGED <<forgeVars, bounds, others>>

DeskTick == Tick /\ UNCHANGED <<forgeVars, marketVars, bounds, others>>

DeskNext == Owner \/ Taker \/ Others \/ DeskTick

DeskSpec == DeskInit /\ [][DeskNext]_deskVars

-----------------------------------------------------------------------------
(* Properties.                                                              *)

Commands == {"none", "init", "deploy", "fund", "quote", "clear", "status"}

Verdicts == {"done", "failed", "refused", "rejected", "unanswered", "confirmed", "error",
             "unconfirmed", "not deployed", "fresh", "no price or stale"}

DeskTypeOK ==
    /\ TypeOK
    /\ files \subseteq {InitFiles[i] : i \in 1..Len(InitFiles)}
    /\ wallet \in [base : Nat, quote : Nat]
    /\ cmd.pc \in {"idle", "look", "sign", "send", "poll", "vaults", "details"}
    /\ cmd.kind \in Commands
    /\ cmd.tx \in Txs \union {Nil}
    /\ mempool \subseteq Txs
    /\ landed \subseteq [tx : Txs, outcome : {"ok", "err"}]
    /\ \A i \in 1..Len(log) : log[i].verdict \in Verdicts /\ log[i].kind \in Commands
    /\ synced \subseteq Venues
    /\ clock \in 0..slot
    /\ route # NoRoute => route.venue \in Venues /\ route.out \in 1..U64Max

\* The commands that have got as far as a signed transaction.
Signed == {log[i] : i \in {j \in 1..Len(log) : log[j].tx # Nil}}
              \union IF cmd.tx = Nil THEN {} ELSE {[verdict |-> "running", kind |-> cmd.kind,
                                                    args |-> cmd.args, tx |-> cmd.tx,
                                                    seen |-> cmd.seen]}

MayHaveWorked == {"confirmed", "unanswered", "unconfirmed", "running"}

\* What the owner is told and what the chain has done agree, over lost answers,
\* polls that give up, and repeated commands.  "Confirmed" is one effect of its own:
\* it has happened, and no other confirmation stands for it.  "Executed with an
\* error" is no effect.  And every effect there is, or may still come, is one of
\* which the owner was told it happened or may have: never one he was told
\* the node refused.
ReportsMatchEffects ==
    /\ \A i \in 1..Len(log) :
           /\ log[i].verdict = "confirmed" => [tx |-> log[i].tx, outcome |-> "ok"] \in landed
           /\ log[i].verdict = "error" => [tx |-> log[i].tx, outcome |-> "err"] \in landed
    /\ \A i, j \in 1..Len(log) :
           i # j /\ log[i].verdict = "confirmed" /\ log[j].verdict = "confirmed"
               => log[i].tx # log[j].tx
    /\ \A tx \in mempool \union {l.tx : l \in {m \in landed : m.outcome = "ok"}} :
           \E s \in Signed : s.tx = tx /\ s.verdict \in MayHaveWorked

\* What the owner typed is what the transaction carries: an amount to the last unit
\* or not at all, and a price to within one unit of its fixed point, with the flag
\* that the command prints set exactly when the printed price reads as typed
\* (amount.rs: "Rounding is visible, not silent").  And the engine, given that price by
\* its feed at any exponent, would quote the same mid, wherever both can express it:
\* the two have conversions of their own.
TypedIsSigned ==
    \A s \in Signed :
        /\ s.kind = "fund" =>
               format_raw(s.tx.ix.amount, Decimals[MintOf(s.args.side)])
                   = normalized(s.args.amount)
        /\ s.kind = "quote" /\ s.args.mid_how = "human" =>
               LET mid == s.tx.ix.terms.mid_e9
                   typed == s.args.mid
                   unit == pow10(Decimals[Base] + typed.scale)
                   asked == typed.mantissa * pow10(Decimals[Quote]) * PRICE_SCALE
               IN  /\ mid * unit <= asked /\ asked < (mid + 1) * unit
                   /\ exact(typed, Decimals[Base], Decimals[Quote])
                          <=> format_mid_e9(mid, Decimals[Base], Decimals[Quote])
                                  = normalized(typed)
                   /\ \A zeros \in 0..1 :
                          LET feed == [mantissa |-> typed.mantissa * pow10(zeros),
                                       expo |-> -typed.scale - zeros]
                          IN  ScaleVerdict(feed, NoFeed, Decimals[Base], Decimals[Quote]) = "Ok"
                                  => mid = feed_mid_e9(feed, NoFeed, Decimals[Base],
                                                       Decimals[Quote])

\* A hop pays exactly what the router was quoted as long as the vault is as it was read
\* and the price has not run out (SC-006), whatever slot the router quoted at and
\* whatever slippage it allows.
HopPaysItsQuote ==
    /\ route # NoRoute /\ route.venue = Amm /\ route.view = View
    /\ is_fresh(quote_params, slot)
    => /\ ~vault.halted
       /\ SwapAllowed(quote_params, treasury, route.request, slot)
       /\ AmountOut(quote_params, route.request) = route.out

\* What no command looks at: deploy leaves the mints and the limits to the program, and
\* that a treasury's balance stays within a u64 is the token's promise about its supply.
LeftToTheChain(s) ==
    /\ s.kind = "deploy" =>
           /\ LimitsValid(Limits)
           /\ ensure_transfer_is_faithful(Base) /\ ensure_transfer_is_faithful(Quote)
    /\ s.kind = "fund" => FitsU64(treasury[s.args.side] + s.tx.ix.amount)

\* A check made off the chain is as good as the chain's own until the chain moves:
\* a transaction that passed its command's checks would execute as long as
\* what they looked at is as it was (quote.rs: "an infeasible price costs a message,
\* not a transaction"), and a hop of the router pays its quote.
CheckedIsExecutable ==
    /\ \A s \in Signed :
           s.seen = SeenBy(s.kind, s.args) /\ LeftToTheChain(s) => Executes(s.tx)
    /\ HopPaysItsQuote

\* What the adapter quotes from is the vault and both treasuries as they stood
\* together at one moment, through updates that fail on any of the accounts
\* (adapter: "not a new quote over old balances").  A venue that has not been read is
\* asked nothing, and the venue under test wins an order only by paying more than the
\* rival it was compared with, so that ties do not count for it.
SnapshotIsOneMoment ==
    /\ adapter # NoView =>
           IF adapter.inventory = NoView THEN read = NoView ELSE adapter = read
    /\ Amm \in synced => read # NoView
    /\ route # NoRoute =>
           LET rivals == DOMAIN route.outs \ {route.venue}
           IN  \A v \in rivals :
                   \/ route.out > route.outs[v]
                   \/ route.venue = Rival /\ route.out = route.outs[v]

\* status.rs: "The slot comes from the network in the same request as the accounts,
\* so "fresh" here means exactly what it will mean for the FR-007 guard": a price
\* shown as fresh was fresh when it was read.
FreshWhenShown ==
    \A i \in 1..Len(log) :
        log[i].verdict = "fresh" =>
            Monus(log[i].seen.at, log[i].seen.quote_slot) <= log[i].seen.max_age
=============================================================================
