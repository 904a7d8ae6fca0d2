# PropAMM Forge in TLA+

A verification project for PropAMM Forge: TLA+ models of its parts, the TLC runs
that check them on small instances, and TLAPS proofs for every instance. Paths
below are relative to the repository's root.

PropAMM Forge lets one owner run a market maker on Solana: a **vault program**
holds the capital of one pair of assets and trades it at one price; an
off-chain **engine** keeps that price on the vault in step with a market feed;
an **adapter** quotes the vault for routers; a **client**, a **CLI**, an
**SDK** and a **console** operate it.

## 1. Inventory

| Component | State it keeps | Operations | Talks to |
|---|---|---|---|
| Swap arithmetic, `crates/propamm-quote` | none (pure) | `compute_swap`, `side_price_e9`, `inventory_skew_bps`, `is_fresh` | called by the program (executes at the answer), the adapter (quotes it) and the CLI (checks a price) |
| Vault program, `programs/propamm-vault` | the `Vault` account: owner, two authorities, risk limits, the five fields of a price, `halted`; two treasury accounts | `initialize_vault`, `update_quote`, `clear_quote`, `swap`, `deposit`, `withdraw`, three setters | token programs (transfers); emits events |
| Engine loop, `propamm-engine/src/cycle.rs` | the last view of the vault, what it wants on the book, latest prices of the legs, when to read next | `run`: wait, `on_price` / `on_withdrawal`, `housekeeping` | the feed through `Watch`; the node through `Sender`; the model through `ModelStep` |
| Sender, `sender.rs` | pending order, settled order, pause, blockhash and what it has signed | `send`, `check`, `read` | the node's RPC |
| Update rule, `policy.rs` | `last`: posted, withdrawn or unknown | `on_quote`, `on_withdraw`, `landed_at`, `forget`, `due_slot` | the loop |
| Settings, `config.rs`; start-up, `main.rs` | read once | `from_lookup`, `fits` | the environment, the vault's limits |
| Feed reader and watch, `feed.rs` | publish times by feed; reconnect pause; the silence state | reader thread; `recv_until` | Hermes over HTTP; a channel to the loop |
| Model step, `tick.rs`; process, `model/external.rs` | budget, streak of skips; a child, the open question, its restart pause | `run`, `ensure_running`, `await_reply` | the loop; a pipe |
| Built-in model, `model/spread_skew.rs` | a checked configuration | `quote` | the step |
| Adapter, `propamm-adapter`; router twin | accounts as last fetched, a slot, which venues are in | `update`, `quote`, `route` | the arithmetic; accounts |
| Client and CLI | none that outlives a command, but for the project's files | `init`, `deploy`, `fund`, `quote`, `quote --clear`, `status` | RPC |
| SDK, console | none that outlives a page | encode and decode | RPC |

What makes them correct, and what is hard about it:

- **Arithmetic.** No order, sequence or split of orders may gain from a
  rounding; a quoted order is executable; overflow is refused.
- **Program.** Any signer, any order of instructions, any mint: the price in
  force is the authority's own, whole or absent; capital leaves only by a fair
  trade or by the owner; the event stream alone tells the state; a halt freezes
  trading yet never keeps a price up.
- **Engine.** One thread against an unreliable network. A send is only ever
  *taken*: it may be lost, delayed past later ones, or land after it was reported
  refused. The vault changes behind the engine's back, reads fail, the process
  restarts. Eventually the book shows the price the market calls for, or none,
  without a transaction on every tick; a quote is renewed before it expires, by a
  clock that is not the chain's, and never by a transaction that repeats another.
- **Feed and model.** Silence behind a live leg, silence that begins inside a
  pass of the loop, timeouts racing late answers, a process that hangs and dies.
- **Adapter and command line.** What is checked off the chain is stale when it
  reaches it; a confirmation that never comes says nothing about the effect.

`PROJECT.json` lists every component with its status, and every hazard at the
line where it bites, with the property that covers it or the reason none does.

## 2. Modules

| Module | What it is | Proofs |
|---|---|---|
| `QuoteMath` | the functions of `propamm-quote` as operators | `QuoteMathProofs` |
| `Pricing`, `MCPricing` | what the arithmetic promises, over every quote and treasury of a bounded space | `PricingProofs` |
| `SpreadSkew` | the built-in model, asked over the same space; extends `Pricing` | `PricingProofs` |
| `QuoteBook` | abstract specification: one place for one price | |
| `Vault`, `MCVault` | the program, one action per instruction; extends `QuoteMath`, implements `QuoteBook` | `VaultProofs` |
| `Engine`, `MCEngine` | loop, sender and rule against the chain, the network and the market, without a clock | `EngineProofs` |
| `Heartbeat`, `MCHeartbeat` | the same loop in slots: two clocks, blockhashes, pauses, settings | `HeartbeatProofs` |
| `Deadman` | abstract specification: a switch that falls by itself | |
| `Feed`, `MCFeed` | reader thread, channel, silence watch and the legs of a mid; implements `Deadman` | `FeedProofs` |
| `ModelProcess`, `MCModelProcess` | the model behind its pipe, and the step that asks it | `ModelProcessProofs` |
| `Amount` | typed numbers to raw units and back; extends `QuoteMath` | `DeskProofs` |
| `Forge` | the command line and the node's client; extends `Vault` and `Amount` | `DeskProofs` |
| `Market` | adapter and router twin; extends `Vault` | `DeskProofs` |
| `Desk`, `MCDesk` | the composition: `Forge`, `Market` and everybody else on one `Vault` | `DeskProofs` |

### QuoteMath, Pricing and SpreadSkew

A Rust `Result` is split in two: a verdict (`PriceVerdict`, `InventoryVerdict`,
`LimitVerdict`, `SwapVerdict`: `"Ok"` or the first error in the code's order)
and a value. Amounts are naturals; each checked operation is a comparison with
`U64Max`, `U128Max` or `I128Max`, and the scales `BPS_DENOM` and `PRICE_SCALE` are
constants, so a small instance has the edges of the real one and a theorem
covers the real one. Rust's division is `TruncDiv` where the sign matters.

`Pricing` has no behaviour: a state is a quote and a treasury, and an invariant
is a statement about every such pair. `SpreadSkew` adds the built-in model as a
function of such a pair: `checked` is the configuration the engine starts with,
`QuoteAt` the computation.

### QuoteBook and Vault

An instruction is atomic on chain, so it is one action, refusals are its guard,
and a refused instruction changes nothing. `vault`, `limits` and `quote`
together are the `Vault` account; `treasury` is the two token accounts; `slot`
is the chain's clock. Three history variables hold what no account holds:
`told`, the state a collector builds from the events alone; `untold`, tokens
that came in by a plain transfer since the last event about that side; and
`signer`, who signed the price in force. Token transfers are external: a mint
with a transfer fee delivers less than was sent (`Delivered`), which is why
`mint_guard.rs` exists; so are gifts to the treasury and the clock.

`halted` is read by the program and written by no instruction of this version
(`src/lib.rs` announces `halt` / `resume`); `SetHalted` is what the repository's
tests do to the account.

`QuoteBook` forgets money, mints and events: a price is put up only by the key in
authority and only while not halted, is dated with its slot, comes down, and
never changes otherwise. `Vault!Book` is the refinement mapping. Risk limits are a
part of the book that changes under a price: they apply to it at once, so raising
`max_quote_age_slots` makes a price that had run out tradable again.

### Engine

A pass of the loop (`Cycle::run`) is cut where it talks to the outside, and
`pc` says where it is:

| `pc` | next steps | code |
|---|---|---|
| `wait` | `on_price`, `on_withdrawal`, `Timer`, `FeedGone` | `Watch::recv_until`, `Cycle::run` |
| `read` | `refresh` and in it `check`; `ReadFails`, `ReadStops`, `ReadUnfit`, `NoRead` | `Cycle::refresh`, `Sender::check`, `vet`, `fits` |
| `redo` | `resend` | the lost withdrawal, in `housekeeping` |
| `beat` | `heartbeat`, `NoHeartbeat` | the heartbeat, in `housekeeping` |
| `stopped`, `gone` | none but `Restart` | `Stop` |

Each send is `Taken`, `Refused`, `RefusedAsHalted` or `RefusedForGood`. What is
taken enters `wire`, a bag of orders, from which `Deliver` takes them in any
order and `Drop` loses them; a refusal may leave the transaction in the network
all the same (a timeout). `Deliver` is the program's part: a withdrawal always
lands, a post not on a halted vault, neither after the key was replaced.

The loop stops for good on a fatal refusal (`RefusedForGood`) and on a read (`ReadStops`,
`ReadUnfit`). A replaced key is one reason, and the replacement took the price down. The
others keep the key, and with it a price that may be up: no lamports for the fees, no program, no
vault or treasury, a limit the settings no longer fit in. The code makes no attempt at a
withdrawal then, and what the engine promises of the book ends (`NoPriceNoQuote`, `PriceIsQuoted`
suppose a loop that runs); the vault's age limit ends the price.

Three abstractions carry the model.

- *A quote is a number*, `Off` is both the withdrawal and the empty book, so
  `Order::on` is equality.
- *Time is order only.* A slot comparison is a choice: `NoRead` or `refresh`,
  `NoHeartbeat` or `heartbeat`; `PauseEnds`; and `pending.late` for
  `LOST_AFTER_SLOTS`. This allows every timing the code has and more, so the
  safety results hold for all of them.
- *Slots are names.* `landed` asks only whether a stamp is newer than one that
  is remembered, and stamps only grow, so newer is different. A name that
  neither the book, the view nor the pending baseline remembers can be reused;
  four suffice, and the state space is finite.

### Heartbeat

What `Engine` leaves to choice, `Heartbeat` counts. Time runs in ticks, `Grain` to
a slot: a slot of the chain takes *at least* that long, and the engine's
`SlotClock` counts nominal slots, rounded up, from the last slot it read, so it runs
ahead of the chain by `lead` until `anchor` puts it back. All slots are relative: ages
on the chain's clock for the book, on the engine's for what it sent, countdowns
for what is due; a read shifts every age of the engine by `lead`.

The transactions in `flight` are ordered and land within `LANDING_SLOTS` unless
lost. `hash` is the blockhash cache with the set of orders the node has taken under it;
`fetched` is the node's side of it: what the newest blockhash has signed, and of that what was
not answered. A send that comes out as refused may have got as far as fetching a blockhash, or
clearing the cache for the second attempt (`Untaken`), or into the network without an answer
(`Unanswered`): the cache takes down a signature only after the node's word. So a
repeat is told apart by whose doing it was: the node's, which may answer with the same
blockhash twice within a slot; that of an unanswered send; or the engine's. The environment is
read key by key (absent, placeholder, not a number, a value), checked by `fits`
against the vault's limit at the start and again whenever a read shows another
limit. The answers of the node are enumerated and sorted as `sort_send_error`,
`connect` and `read` sort them.

### Feed and Deadman

Three threads of control: the reader (`link`, `wait`, `pause`: a session opens,
delivers, breaks, and is opened again after a pause that doubles and is reset by
a session that delivered), the channel `rx`, and the loop. `judge` is the replay
guard followed by the policy. A pass is cut where it takes time: in the model
(`pc = "model"`), in a read (`"read"`), and in the model again on the heartbeat
(`beating`), each up to `Busy`. `Tick` ages everything at once and is disabled while the
loop waits with something due, because `recv_until` wakes then.

`Mid` is the code's: every leg fresh, some leg not yet heard within the first bound,
or a withdrawal. `tainted` is history: the feeds whose last word was a rejection.

`Deadman` is the promise of FR-014 with everything else left out: a switch that usable
prices hold up and that is down before the last of them is older than a limit. The limit
that the engine keeps is the silence bound and one pass (`SilenceLimit`).

### ModelProcess

Questions and answers have growing ids in the code; here they are relative, 0 the
newest, so that asking shifts all ids in the pipe and none needs a bound. The
process may answer in turn, print what is not in the protocol or answer to no
question (`Stray`), never answer (`Swallow`), die, or fail to start. `call` says
where `price` is: reading a late answer, sending, awaiting. Each outcome is recorded
in `step` with the question its answer was about, which the code cannot see and the
properties are about; `told` is what the recorded events say.

### Amount, Forge, Market, Desk

`Amount` converts as `amount.rs` does: an amount finer than the unit is refused, a
price is rounded and says so, and both are printed back. The scale is a power of a
radix, 10 in the code.

A command of `Forge` is a walk of requests to the node, one action each, because the
chain moves between two of them: `Look` (the accounts and the checks on them), `Sign`,
`Send` with the preflight, then the polls of `confirm`; `status` asks for slot, vaults
and details one after the other. A signature is a function of what is signed, so a
transaction is its own signature, executed at most once, in a slot after its blockhash
and while that lives. `log` is what each command told its user.

In `Market` the router works on accounts read at one moment (`adapter`, `rival`) and a
slot stored at another (`clock`); a route is a swap with a bound, sent later or never.

`Desk` composes the two with the vault and with others who move it: a new authority, a
halt, new limits, a price, swaps, gifts, withdrawals.

### How the models fit

`Vault` is the chain of `Forge`, `Market` and `Desk` itself, by `EXTENDS`. The engine's
modules see the vault through what the program guarantees of its book, the part that
`QuoteBook` states: only the key in authority posts, not while halted, dated with the
slot. `Engine`, `Heartbeat` and `Feed` are three views of one loop, cut so that each is
small enough to check: the first with every failure of the network and no clock, the
second with both clocks and few failures, the third with the feed's side of it and sends
that are always taken. `ModelProcess` is what the other three see as `Quoted`,
`ModelWithdraws` or `Skip`.

## 3. Runs

| Run | Module, cfg | Size | Question |
|---|---|---|---|
| `pricing` | `MCPricing` | 16 000 states | does the arithmetic keep what it promises, and does the program accept all the built-in model quotes? |
| `steering` | `MCPricing`, `MCSteering` | violated | does the built-in model steer back a vault short of base? |
| `vault` | `MCVault` | 130 000 states | do all sequences of instructions keep price, treasury, events and halt consistent, and implement `QuoteBook`? |
| `engine` | `MCEngine` | 514 000 states | is what the rule believes always watched; does the book reach the market's price, or empty when there is none, and the engine fall silent? |
| `engine_gone` | `MCEngine`, `MCEngineGone` | violated | is the book empty when the loop ends on a lost feed? |
| `beat` | `MCHeartbeat` | 3.5 million states | is a quote renewed in time, what the node has taken repeated by a new transaction, and an unfit limit noticed? |
| `beat_unanswered` | `MCHeartbeat`, `MCHeartbeatUnanswered` | violated | does no blockhash ever sign one message twice? |
| `feed` | `MCFeed` | 645 000 states | does no quote outlive a silence, of the feed or of a leg? |
| `feed_legs` | `MCFeed`, `MCFeedLegs` | violated | does a rejected leg keep the quote off? |
| `model` | `MCModelProcess` | 70 000 states | is an answer ever taken for another, and does the model come back? |
| `desk` | `MCDesk` | 724 000 states | do owner and taker get what they were told? |
| `desk_status` | `MCDesk`, `MCDeskStatus` | violated | is a price shown as fresh fresh? |

**pricing.** `RoundTripNeverProfits`, `SplittingNeverPays`, `PricesAreTight`,
`SkewIsSymmetricShare`, `QuotedIsExecutable`, `AcceptedOrdersAreSafe`,
`ModelSteersBack`. The scale is 3 and the basis-point denominator 4, coprime so that
roundings do not cancel; u64 ends at 15, u128 at 255 and i128 at 127, so that
`OutProduct`, the skew and the holdings all overflow for some inputs; skews run from
-4, which cancels the mid, to 3, and spreads from 0 to 4, which is 100%. The model is
asked in all 375 configurations of whole basis points, workable or not.

**steering.** `spread_skew.rs:24` says that a model which quotes a worse unwind price
the more it needs the unwind is one that `checked` refuses. `checked` compares the shift with
the widening, which is enough at the ask, where the two factors pull apart; at the bid
they multiply the other way, and a wide spread eats the shift. A vault short of base then
bids less at its bound than at balance.

**vault.** Invariants: `PriceIsTheAuthoritys`, `PriceIsWhole`,
`EventsTellTheState`. Steps: `WorthNeverFalls`, `TradingKeepsBalance`,
`HaltFreezesTrading`. Refinement: `ImplementsQuoteBook`. Two keys, so that an
authority can be replaced and given back; three mints, one with a fee the
guard must refuse; two good prices and two that `update_quote` must refuse; slots
0 to 3 against age limits 1 and 2, so that prices go stale; treasuries to 6
units. The two keys are symmetric: the properties are invariants, step
properties and a refinement without liveness.

**engine.** `BeliefIsWatched`: an order the rule compares new quotes with is in
flight and due for a check, or was on the book when last read. `PauseMeansUnknown`:
a pause, on or not yet cleared, comes with a rule that knows nothing, which is why
none of the deadlines `wake_at` picks can stay in the past. `NoPriceNoQuote`: if from
some point on the market gives no price and the reader stands, the book ends up empty,
whatever was lost, delayed or refused before, halted or not, even if the key was
replaced; an engine that holds the key is supposed to run, that is, not to have stopped on
a refusal or a read that leaves it the key. `QuietWhenOff`: then the engine also stops
sending. `PriceIsQuoted`: if from some point on the market stays at one price, the vault is
not halted, the key is the engine's and the loop runs, the book ends up within the threshold
of it. Two quotes beyond the threshold: the one an earlier run or an earlier price left, and
the right one; two events in all, of the market or of anything that goes wrong.

**engine_gone.** `GoneIsOff` says what `cycle.rs:66` says of `Stop::FeedGone`: "the
feed reader is gone and the quote is off the book". The loop makes one attempt to
withdraw and ends at the next call; if that attempt is refused or lost, or an
earlier post lands after it, the price stays until the vault's age limit.

**beat.** `NeverExpires`: while nothing is lost or refused, a quote of this run is replaced
before the vault's limit, as long as no slot is shorter than nominal and the chain is behind the
engine's clock by no more than `MaxLead`, and before any limit the settings fit in that the owner
may change to meanwhile. `RepeatsAreNew`: an order the node has taken is never signed again over
the blockhash it was signed with, unless the node handed out one blockhash twice.
`MisfitIsSeen`: a limit the settings do not fit in stops the engine within a heartbeat and what
the model takes. The settings are by default the tightest that fit in a limit of six slots and do
not fit in one of five, with a longer heartbeat fit in neither, or cannot be read; the owner
moves between the two limits. The two clocks are up to one slot apart, and a blockhash grows old
within the run. The chain and the owner move only while the engine runs: every property of
this run is about a running engine. `NeverExpires` has a hypothesis, `Outlasts`: the heartbeat is no shorter than the
search for a lost transaction, the model's budget and the lead of the engine's clock together,
and the run's default meets it with equality. The configuration does not ask for it (the shipped
one, twelve slots, meets it up to a lead of seven), and it is needed: with a heartbeat of one
slot TLC finds a repeat that lands in the slot its predecessor is stamped with. A read cannot
tell the two apart (`landed` asks for a newer stamp), the repeat is taken for lost in the end,
and the quote grows older than its limit before the next one is up.

**beat_unanswered.** `NeverTheSame` says what `sender.rs:24` says, that a blockhash is never used
twice for the same message. `try_send` takes a signature down after the node's answer only. A
withdrawal that was not answered is in the network; the market gives a price, stops giving one,
and the second withdrawal is signed over the same blockhash, the same transaction. The node drops
it, or answers that it was processed, which counts as taken; of a quote the slot is not refreshed,
and the rule finds out when the order is given up for lost.

**feed.** `ImplementsDeadman`: no quote outlives a silence by more than a pass.
`LegsBounded`: no leg behind a posted quote is older than two bounds and a pass.
`RejectedIsOff`: when the last word on every leg is a rejection there is no quote.
`EventsAreRead`: although a timer that is due fires before the channel is read, the events in
the channel are read again and again. Two legs; samples that are good, worthless or wide, and
new, stale or ahead of the clock; one event in the channel; passes whose stages take up to
one unit against a bound of two. This model needs no bound on time.

**feed_legs.** `RejectedStaysOff` says what `feed.rs:846` says of a rejected sample: the quote
"goes off the book immediately". It does, and the next price of the other leg puts it back on,
made of the rejected feed's last accepted price, for up to the silence bound.

**model.** `PostsAreCurrent`: a posted price answers the question of its own step and came
within the budget. `OneQuestion`: a process that keeps the protocol has one question in its
pipe at most. `EventsTellSkips`: the events at the ends of a run of skips tell its state.
`Heals`: after its last fault the model posts again, and forever. Four faults in any
mix, ids up to three questions old, pauses of one and two.

**desk.** `ReportsMatchEffects`: confirmed is one effect of its own, an error is none, and every
effect is one the owner was told happened or may have. `TypedIsSigned`: the transaction carries
what was typed, to the unit, the rounding shown exactly when there is one; and the engine's own
conversion gives the same mid. `CheckedIsExecutable`: what passed the checks of a command
executes as long as what was looked at stands, except for what no command looks at
(`LeftToTheChain`: the limits and mints of a deployment, a treasury past u64), and what was
quoted to a taker pays as quoted (`HopPaysItsQuote`). `SnapshotIsOneMoment`: the adapter quotes
from accounts of one moment, and wins an order only by paying more. Four stories bound the run:
an empty directory with three commands; two commands beside one move of others; a command beside
a router; a router beside others. All combinations at once would only interleave what these
already put side by side in pairs.

**desk_status.** `FreshWhenShown` says what `status.rs:13` says: the slot comes "in the same
request as the accounts". It is three requests, and the slot is the first.

### Bounds

`MaxSlot` and `MaxUntold` end the clock and the gifts in `Vault`; `bounds` of a
story the commands, reads, routes and others' moves in `Desk`. In `Engine`,
`MaxInFlight` bounds the copies of one order in the network (one of each order is
enough for a post to be overtaken by its withdrawal; a send waits while the network
is full), and `MaxFaults` the changes of the market and everything that goes wrong, in any mix
and order: losses, refusals, failed reads, reads and refusals that stop the loop, skipped
answers, halts, owner's withdrawals, new keys, restarts, a dead reader. Two are one to break
the belief and one to disturb its repair, or one of the market and one of the network. The
liveness properties are checked on the smallest instance in which each mutant still shows,
because their cost is in the search for fair cycles. `MaxLead`, `MaxStale`, `MaxFlight` and
`MaxTrouble` do the same for `Heartbeat`; `Busy` and `MaxQueue` for `Feed`; `MaxLines` and
`MaxFaults` for `ModelProcess`. All bounds are constants of the proofs, which hold for any value.

`CHECK_DEADLOCK FALSE` is said where the system really stops: the engine's loop ends on a fatal
refusal or a lost feed (`engine`, `engine_gone`, `beat*`, `feed`), and a desk's stories end (`desk`).

### Fairness

Fairness is assumed of the liveness runs only.

`Engine!Fairness`:

- `WF(Pass)`: the loop is one thread that the system schedules, and every call it
  makes has a timeout.
- `SF` of `on_price`, `on_withdrawal` or `FeedGone`, which take what the feed has, and of
  `refresh` or `ReadStops`, an answered read: the loop
  passes their place again and again, and each pair gets its turn because the deadline
  that woke the loop before moves on: reading sets `next_read` or `read_retry`, a
  heartbeat restarts its count when it is sent. `PauseMeansUnknown` is the part
  of this argument that concerns pauses, and `EventsAreRead` the part that concerns the
  channel. Weak fairness would not do: each is disabled whenever `pc` is elsewhere.
  `ReadUnfit` has none: nothing says that such a read ever comes.
- `WF(PauseEnds)`, `WF(PendingAges)`: time passes.
- `WF(Deliver)`: a transaction lands or expires (`Drop`) and does not stay in the
  network for good.

The heartbeat has no fairness there: nothing proved or checked depends on it. Faults
are finite in number, which is what "eventually" means here; a model that never
answers again is outside these runs.

`Feed!Fairness`: `WF(Pass)` as above; `SF(Tick)`, because time goes on by itself and no pass
of the loop is instantaneous for ever.

`ModelProcess!Fairness`: `WF(Call)`, the loop asks again on every tick; `WF` of some answer, a
process that is not at fault answers; `SF(Answer("quote"))`, its answers are not failures and
withdrawals for ever, which is what the property asks about; `SF(Elapse)`, time.

### Mutants

Each property of a passing run is broken by a mutant of the code, written beside
the definition it alters and introduced as a slip: roundings the wrong way, a bound
checked on one side, a key replaced without taking the price down, one of five
fields cleared, a lost order dropped without telling the rule, a blockhash kept although it
has signed the order, a heartbeat counted from the decision, a deadline for live prices only,
a rejected sample taken for nothing, any line taken for the answer, a status taken for a
success, the decimals of one mint forgotten, a price stored before the treasuries are read.

## 4. Proofs

The constants carry only `MathAssumption` (the scales are positive naturals and
the widths naturals), `AmountAssumption` (a radix above one, the price scale a power of it),
`PricingAssumption`, `VaultAssumption`, `EngineAssumption`, `HeartbeatAssumption`,
`FeedAssumption`, two `ModelAssumption`s, `ForgeAssumption` and `MarketAssumption` (types,
distinctness of the special values, and positive lengths of bounds and budgets), and
`DeskAssumption` (a story begins where a deployment can be: a price that is up was accepted, a
vault stands on mints the guard lets in); TLC evaluates all of them.

- **Arithmetic** (`QuoteMathProofs`, `PricingProofs`). Lemmas bound a floor and a
  ceiling of a quotient from both sides; with them a side price is exact up to one unit
  (`PricesTight`), the product of bid and ask brackets a round trip
  (`NoRoundTripProfit`), floors are superadditive (`NoSplittingGain`), and
  truncation commutes with negation (`SkewSymmetric`). `QuotesExecute` and
  `AcceptedSafe` follow the order of the refusals: two orders that differ in their
  result bound alone differ in no other check. They hold for every scale, so for
  10^9 and 10 000.
- **Built-in model** (`PricingProofs`). `ModelSteers`: the load is a share of the
  denominator and the whole of it at the bound; so spread and shift stay in the domain of the
  program's prices, the size within the base and within the value of the quote, and at the
  bound the shift, which is greater than the widening, outweighs it at the ask. The other side is
  the violated run.
- **Program** (`VaultProofs`). `VaultTyped` first: a swap never takes a treasury out of
  u64, by the checks of `InventoryVerdict`. Then the inductive invariant
  `IInv`: types, `Screened` (the mints of a deployed vault pass the guard),
  `PriceIsTheAuthoritys`, `PriceIsWhole` and `EventsTellTheState`. `Screened` is the
  strengthening: only with it does the computed balance in an event equal the
  account's. `PriceSigned`, `PriceWhole` and `EventsComplete` follow.
- **Program, steps** (`VaultProofs`). The step lemmas are about `AnyStep`, the instructions with
  any arguments of their types, of which the steps of `Vault` on its own are some and those of a
  desk are others. `WorthKept` is the arithmetic's result
  carried to the whole program: each leg of a swap is worth at least what it pays
  (`SaleWorth`, `PurchaseWorth`), and every other step that lowers a balance takes the
  price down. `BalanceKept`, `HaltKept`; and `VaultIsABook`, the refinement: the initial
  state maps to an initial state and each instruction to a step or a stutter.
- **Engine** (`EngineProofs`). `TypeOK`, `BeliefIsWatched` and `PauseMeansUnknown` are
  inductive only together: `SendKeeps` (however a send comes out), `RefreshKeeps` (a
  read and its check) and `WithdrawKeeps`, `PriceKeeps` are the steps; what the
  chain and the market do leaves the engine's variables alone (`OutsideKeeps`).
  `NewStampIsAStamp` proves that four names for slots are enough.
- **Feed** (`FeedProofs`), for any number of legs, any policy and any lengths. The
  inductive invariant adds four parts to the types. `SilenceBounded`: the silence is within
  what it can have been when the stage of the pass began, and the time spent in the stage, so
  it is within the limit when the pass is over, and a wait ends when it is due.
  `LegsBehind`: what the model is asked about, or was posted, had every leg fresh at the last
  usable price or later, so a leg is older than the silence by less than a bound. `Down`: while
  the watch has withdrawn, nothing is wanted, posted or being asked. `Rejection`: all legs
  rejected is withdrawn. `LegsAreBounded`, `RejectedOff` follow, and `QuoteFalls`: the road
  implements `Deadman`.
- **Model** (`ModelProcessProofs`), for any budget, pauses and capacity. `IInv`: every line of the
  pipe that is in the protocol bears the id of the question it answers; a step has no outcome
  before its call ends; what was told is the streak. With it `PostsCurrent` and `EventsTell`.
  `QuestionsAreOne` rests on a second invariant, `Strict`: of a process that keeps the protocol the
  pipe holds the open question, its answer or nothing, and nothing without an open question.
- **Heartbeat** (`HeartbeatProofs`), for any settings, limits, lengths and lead, and any number
  of transactions in flight. Three invariants, each inductive on the ones before it. `Typed` adds
  to the types that the engine's clock is ahead of the chain's by at least what the slot has
  lasted (`Anchored`), and that the cache has whatever the newest blockhash signed and a node
  took (`CacheKnows`), through cleared caches, second attempts and blockhashes fetched in vain:
  with it an order the node has taken is signed again over another hash, unless the node
  gave one out twice (`RepeatsNew`). What was not answered is the violated run's. `Timely` bounds how long a misfit has lasted by what is left
  until the next read, or by the model that holds it up (`MisfitSeen`). `Followed` is the
  heartbeat's argument: what was sent is what the rule believes (`SentIsBelieved`); what is in
  flight is still looked for, or was looked for less than a heartbeat ago (`FlightIsWatched`); a
  decision is renewed within a heartbeat and the model's budget (`DecisionIsRenewed`) and found,
  or found lost, within the search (`DecisionIsChecked`); the stamp on the book is older than the
  decision by the lead at most (`StampIsKnown`); and while its replacement is on the way a quote
  is older than it by a heartbeat and a budget at most (`BookIsReplaced`). `ExpiresNever` is
  `fits` applied to the last.
- **Numbers** (`DeskProofs`). The powers of the radix are a recursive function, and
  normalizing looks for the largest power that divides; both are reasoned about by the principle
  of the least number, which follows from the library's `WFMin` without an operator for a
  parameter. `PowerSum` is the law of exponents. `RawIsTyped`: raw units show the number typed.
  `MidWithinUnit`: the mid of a typed price is the floor of what was typed, `ExactReadsAsTyped`:
  and prints as typed exactly when the division was even. `FeedReadsTheSame`: the engine, which
  scales by a power up or down, and the command line, which divides once, have the same mid.
- **Desk** (`DeskProofs`), for any chain, stories, decimals and widths. `DeskInv` is the
  vault's `IInv`, kept because every step of the desk is `AnyStep` or nothing to the vault
  (`ChainStep`), and with it `OurPair`, the pair that is deployed is the project's, the types,
  `SignedStand` and `SignedFits`, what is signed is what `Instruction` makes of what was typed, and
  `MarketFits`, what the router holds is of one moment. `DeskTyped`, `TypedSigned` and
  `SnapshotOneMoment` follow; so do the vault's invariants and step properties among its
  users (`DeskVault`, `DeskSteps`), and `DeskIsABook`: what the engine assumes of the program is true
  of it among those users. `ToldInv` (`ReportsMatch`) is that a transaction which has had an effect
  or may have one is in the log with a verdict that leaves room for it, or is being waited for
  (`Accounted`), that it is executed once (`OnceOnly`), and that no two confirmations stand for one
  transaction (`OneEach`). `PassedInv` (`CheckedExecutable`)
  carries what each check found as a function of what was seen, so that the same sight gives the
  same answer later. `Executes` is written as a guard, and `GuardIsNeeded` and `GuardIsEnough` prove
  it to be the one of `Execute`: a step satisfies it, and where it holds the next state that
  `After` gives is a step. That this next state makes `ENABLED Execute(tx)` true is a step the prover
  cannot take; it was checked with TLC, aside from the runs, that the two are equal in every state
  of `desk`.

Model-checked only: the five liveness properties (`NoPriceNoQuote`, `QuietWhenOff`,
`PriceIsQuoted`, `EventsAreRead`, `Heals`), as liveness under fairness is beyond the prover.
Every invariant, step property and refinement of a passing run has its theorem. The violated
properties have counterexamples.

## 5. What the models show besides

Smaller things met while modelling, none of them a property's violation.

- Setting a blockhash in `Sender::refresh_hash` empties the list of what it has signed, even if
  the node answers with the same one. A repeat within one slot is then a transaction the
  network drops; `RepeatsAreNew` tells it apart as the node's doing.
- `policy.rs:34` counts the heartbeat from the slot of the decision, "no later than" the chain's
  stamp, and says it "can only come early". With the engine's clock ahead of the chain the
  count begins late, until the next read puts clock and count back (`anchor`, `landed_at`);
  `NeverExpires` holds because the reads come as often as the heartbeats. With a heartbeat
  shorter than the search for a lost transaction it also comes late after a repeat that is not
  recognised as landed, which is why `NeverExpires` supposes `Outlasts`.
- `quote --clear` refuses on a halted vault, where the program would clear.
- A `fund` reads the treasury's balance to show it before and after; others may move it between.
- An `init` that fails at its second file leaves the first, so that the next needs `--force`.
- One malformed entry drops the whole event of the stream it came in.
- The replay guard counts a refused sample as seen, so an acceptable one of the same publish
  time is dropped; the cost is a later quote, bounded by the silence bound.

## 6. Not modelled

Account layouts, address derivation and account constraints other than signers and
treasury sides; compute budgets; the text of events, logs and reports; the parsing of
arguments, TOML, JSON, SSE and HTTP; TLS; the meters of the engine. The fallback of
`format_mid_e9` for prices too large to print is left out. The chain has no forks and a
confirmed read is the chain; so a failure at processed level, on which `confirm` gives up before
it looks at the commitment, is one that stays. The TypeScript SDK (encoders and decoders, generated in part), the
web console and landing page (an interface over mock data), and scripts and continuous
integration keep no protocol state.

## 7. What could come next

1. An abstract specification of the sender, a register that is eventually what was last
   ordered, that `Engine` and `Heartbeat` both implement, and a proof of its safety half.
2. The three views of the loop composed, with a bound on the silence that counts the network.
3. Two owners' engines on one vault, which the keys allow and no document speaks of.
