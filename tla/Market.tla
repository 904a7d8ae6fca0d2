------------------------------- MODULE Market -------------------------------
(***************************************************************************)
(* A router beside the vault: the adapter that turns the vault's accounts   *)
(* into quotes (crates/propamm-adapter), and the local twin of a router     *)
(* with a public pool as the rival (crates/propamm-router-twin).            *)
(*                                                                          *)
(* The router works on what it read: a batch of accounts at one moment and  *)
(* a slot stored at another.  A route it builds is a swap on the vault with *)
(* a bound on the result; somebody sends it whenever they like, and the     *)
(* chain has moved by then.  The rival's hop is never executed.             *)
(*                                                                          *)
(* The chain is the one of module Vault.  A mint's address tells a side, so *)
(* an order names its side; an order for another pair, or exact-out, is     *)
(* outside of Orders because every venue refuses it at the door.            *)
(*                                                                          *)
(* read is a history variable: the chain at the adapter's last good update. *)
(***************************************************************************)
EXTENDS Vault

CONSTANTS
    Amm, Rival,     \* the venues: the vault, which is under test, and the rival pool
    Pools,          \* reserves the rival may hold
    FeeBps,         \* the rival's fee
    RouterOrders,   \* orders: a side, an amount and a slippage
    NoView,         \* treasuries not read yet
    NoRoute         \* no hop waiting to be sent

Venues == {Amm, Rival}

\* An exact-in order.
OrderFields == [side : Sides, amount : Nat, slippage_bps : Nat]

\* Rival::new: the fee leaves something to swap.  Two mints with a reserve each, a
\* token account's balance, are given by the form of a pool.
PoolFits ==
    /\ FeeBps \in 0..(BPS_DENOM - 1)
    /\ Pools \subseteq Holdings

\* What an adapter holds.
Views == [params : QuoteParams, halted : BOOLEAN, inventory : Holdings \union {NoView}]

ASSUME MarketAssumption ==
    /\ Amm # Rival
    /\ PoolFits
    /\ RouterOrders \subseteq OrderFields
    /\ NoView \notin Holdings \union Views

VARIABLES
    pool,      \* the rival's reserves, as the test has written them
    adapter,   \* PropAmm: parameters, flag and inventory as last stored
    rival,     \* Rival: reserves as last stored
    clock,     \* the slot the router last stored, shared with its venues
    synced,    \* venues whose last update succeeded
    route,     \* the hop built and not sent yet
    reads,     \* updates so far
    routes,    \* routes so far
    read

marketVars == <<pool, adapter, rival, clock, synced, route, reads, routes, read>>

\* The accounts a venue asks for.
get_accounts_to_update(v) ==
    IF v = Amm THEN {"vault", "base treasury", "quote treasury"}
               ELSE {"base reserve", "quote reserve"}

AccountsToUpdate == UNION {get_accounts_to_update(v) : v \in Venues}

\* The vault account and the treasuries at this moment.
View == [params |-> quote_params, halted |-> vault.halted, inventory |-> treasury]

-----------------------------------------------------------------------------
(* Reading.                                                                 *)

\* Decoded from the vault account alone.
from_keyed_account == [View EXCEPT !.inventory = NoView]

\* Out of routing until the first update.
Register ==
    /\ adapter = NoView
    /\ Deployed
    /\ adapter' = from_keyed_account
    /\ UNCHANGED <<vars, pool, rival, clock, synced, route, reads, routes, read>>

\* A slip: the router's clock run ahead of the chain's.
SlotAhead ==
    /\ clock # slot
    /\ clock' = slot + 1
    /\ UNCHANGED <<vars, pool, adapter, rival, synced, route, reads, routes, read>>

\* Whoever runs the router stores the slot, apart from the accounts.
SetSlot ==
    /\ clock # slot
    /\ clock' = slot
    /\ UNCHANGED <<vars, pool, adapter, rival, synced, route, reads, routes, read>>

\* A slip: the price is stored before the treasuries are read.
StoredAsRead(bad) ==
    IF "vault" \in bad THEN adapter
    ELSE IF bad \intersect get_accounts_to_update(Amm) = {} THEN View
    ELSE [adapter EXCEPT !.params = quote_params]

\* PropAmm::update: everything is read before anything is stored.
amm_update(bad) ==
    IF bad \intersect get_accounts_to_update(Amm) = {} THEN View ELSE adapter

\* Rival::update, in the same way.
rival_update(bad) ==
    IF bad \intersect get_accounts_to_update(Rival) = {} THEN pool ELSE rival

\* Router::update over one batch of accounts, some of which do not read (missing,
\* frozen, of a foreign program): the venue that asked for one is out of routing.
Update(bad) ==
    /\ adapter # NoView
    /\ adapter' = amm_update(bad)
    /\ rival' = rival_update(bad)
    /\ synced' = {v \in Venues : bad \intersect get_accounts_to_update(v) = {}}
    /\ read' = IF Amm \in synced' THEN View ELSE read
    /\ reads' = reads + 1
    /\ UNCHANGED <<vars, pool, clock, route, routes>>

-----------------------------------------------------------------------------
(* Asking.                                                                  *)

Request(o, least) ==
    [side |-> o.side, amount_in |-> o.amount, min_amount_out |-> least]

\* A slip: the halted flag not looked at.
QuotesWhileHalted(o) ==
    /\ adapter.inventory # NoView
    /\ SwapAllowed(adapter.params, adapter.inventory, Request(o, 0), clock)

\* PropAmm::quote: the program's arithmetic on the accounts stored, at the router's
\* slot, with no bound on the result.
amm_quotes(o) ==
    /\ ~adapter.halted
    /\ adapter.inventory # NoView
    /\ SwapAllowed(adapter.params, adapter.inventory, Request(o, 0), clock)

amm_out(o) == AmountOut(adapter.params, Request(o, 0))

ReserveIn(o) == IF o.side = BaseToQuote THEN rival.base ELSE rival.quote
ReserveOut(o) == IF o.side = BaseToQuote THEN rival.quote ELSE rival.base

InAfterFee(o) == o.amount * (BPS_DENOM - FeeBps)

rival_quotes(o) ==
    /\ ReserveIn(o) > 0 /\ ReserveOut(o) > 0
    /\ FitsU128(InAfterFee(o) * ReserveOut(o))

\* The fee is taken from the input and the output rounded down once.
constant_product_out(o) ==
    (InAfterFee(o) * ReserveOut(o)) \div (ReserveIn(o) * BPS_DENOM + InAfterFee(o))

OutOf(v, o) == IF v = Amm THEN amm_out(o) ELSE constant_product_out(o)

\* ask: a venue is in if its accounts read, it is active, it quotes, and not nothing.
Asked(o) ==
    {v \in synced : /\ IF v = Amm THEN amm_quotes(o) ELSE rival_quotes(o)
                    /\ OutOf(v, o) > 0}

\* A slip: a tie goes to the venue under test.
TieToVault(o) ==
    CHOOSE v \in Asked(o) :
        \A w \in Asked(o) \ {v} :
            \/ OutOf(v, o) > OutOf(w, o)
            \/ OutOf(v, o) = OutOf(w, o) /\ v = Amm

\* The venue under test wins only by quoting more: a tie goes to the rival.
Best(o) ==
    CHOOSE v \in Asked(o) :
        \A w \in Asked(o) \ {v} :
            \/ OutOf(v, o) > OutOf(w, o)
            \/ OutOf(v, o) = OutOf(w, o) /\ v = Rival

\* out * (1 - slippage), rounded down.
bound(out, slippage_bps) == (out * (BPS_DENOM - slippage_bps)) \div BPS_DENOM

\* The venue chosen, its hop, and what every venue answered.
RouteBy(v, o) ==
    [venue |-> v, out |-> OutOf(v, o),
     request |-> Request(o, bound(OutOf(v, o), o.slippage_bps)),
     outs |-> [w \in Asked(o) |-> OutOf(w, o)],
     clock |-> clock, view |-> read]

\* Router::route.  A bad order, or no venue, builds nothing.
Route(o) ==
    /\ route = NoRoute
    /\ o.slippage_bps <= BPS_DENOM
    /\ Asked(o) # {}
    /\ route' = RouteBy(Best(o), o)
    /\ routes' = routes + 1
    /\ UNCHANGED <<vars, pool, adapter, rival, clock, synced, reads, read>>

-----------------------------------------------------------------------------
(* What becomes of a route, external.                                       *)

\* The hop reaches the chain: executed at the vault's price of that moment, or refused.
Hop ==
    /\ route # NoRoute /\ route.venue = Amm
    /\ IF ENABLED swap(route.request) THEN swap(route.request) ELSE UNCHANGED vars
    /\ route' = NoRoute
    /\ UNCHANGED <<pool, adapter, rival, clock, synced, reads, routes, read>>

\* A route nobody sends, and every route through the rival.
Drop ==
    /\ route # NoRoute
    /\ route' = NoRoute
    /\ UNCHANGED <<vars, pool, adapter, rival, clock, synced, reads, routes, read>>

\* The rival is moved by rewriting the bytes of its reserves.
RivalMoves ==
    /\ pool' \in Pools \ {pool}
    /\ UNCHANGED <<vars, adapter, rival, clock, synced, route, reads, routes, read>>

-----------------------------------------------------------------------------
MarketInit ==
    /\ adapter = NoView
    /\ rival = NoView
    /\ clock = 0
    /\ synced = {}
    /\ route = NoRoute
    /\ reads = 0
    /\ routes = 0
    /\ read = NoView

MarketNext ==
    \/ Register \/ SetSlot
    \/ \E bad \in SUBSET AccountsToUpdate : Update(bad)
    \/ \E o \in RouterOrders : Route(o)
    \/ Hop \/ Drop \/ RivalMoves
=============================================================================
