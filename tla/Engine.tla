------------------------------- MODULE Engine -------------------------------
(***************************************************************************)
(* The pricing engine against the chain (crates/propamm-engine: cycle.rs,   *)
(* sender.rs, policy.rs): keep on the vault's book the price the market     *)
(* calls for, and no price when it calls for none, over a network that      *)
(* loses, delays, reorders and refuses transactions.                        *)
(*                                                                          *)
(* The loop is one thread.  A pass of it is cut where it talks to the node  *)
(* (pc), and between two cuts anything may happen on the chain.  Time is    *)
(* kept as order only: what the code compares with a slot number is here    *)
(* either not yet due or due, by choice, and pending.late says that         *)
(* LOST_AFTER_SLOTS have passed.                                            *)
(*                                                                          *)
(* A quote is a number, the price it stands for; Off stands both for the    *)
(* order to withdraw and for a book without a price, so that an order is on *)
(* the book (Order::on) when it equals what the book shows.                 *)
(***************************************************************************)
EXTENDS Integers

CONSTANTS
    Quotes,       \* the quotes the model can answer with
    Threshold,    \* how far a side moves before a post is worth it
    MaxInFlight,  \* bound: copies of one order in the network at a time
    MaxFaults,    \* bound: how often the market changes or anything goes wrong
    Off, Unknown, NoOrder, Silent, Unquotable, NoPrice

Orders == Quotes \union {Off}

\* Names for slots.  The code asks of two stamps only whether the later read is
\* newer; as slots only grow, that is whether it differs, so a name can be used
\* again once nothing remembers it, and four are enough.
Stamps == 0..3

Books == [shows : Orders, stamp : Stamps]

Pendings == [order : Orders, baseline : Books, late : BOOLEAN]

ASSUME EngineAssumption ==
    /\ Quotes \subseteq Int
    /\ Threshold \in Nat
    /\ MaxInFlight \in Nat \ {0}
    /\ MaxFaults \in Nat
    /\ {Off, Unknown, NoOrder, Silent, Unquotable, NoPrice} \intersect Quotes = {}
    /\ Off \notin {Unknown, NoOrder}
    /\ NoOrder \notin Pendings

VARIABLES
    \* the chain and the network
    book,          \* what the vault shows, and the name of the slot it was posted in
    wire,          \* how many transactions of each order are on their way
    vault_halted,  \* the vault's emergency stop
    mine,          \* this key is the vault's pricing authority
    \* the market and the feed reader
    mid,           \* what the feed has: a price and the model's answer to it, or Silent
    live,          \* Watch has not reported a withdrawal since its last price
    reader,        \* the reader thread is there
    \* the engine
    pc,            \* where the pass is; "stopped" on a fatal refusal or an unfit read,
                   \* "gone" on FeedGone
    last,          \* Rule: what was last sent, or Unknown
    pending,       \* Sender: the send not yet checked
    settled,       \* Sender: the last order the book was seen to hold
    pause,         \* Sender: none, on after a refusal, or over: past and not yet cleared
    view,          \* Cycle: the book as last read
    want,          \* Cycle: where the book should be
    halted,        \* Cycle: the vault is halted, as last seen
    leg,           \* Cycle: the latest price
    faults         \* how much of the bound MaxFaults is used up

chain == <<book, wire, vault_halted, mine>>
feed == <<mid, live, reader>>
engine == <<pc, last, pending, settled, pause, view, want, halted, leg>>
vars == <<chain, feed, engine, faults>>

-----------------------------------------------------------------------------
Blank == [shows |-> Off, stamp |-> 0]

Baseline == IF pending = NoOrder THEN view ELSE pending.baseline

NewStamp == CHOOSE s \in Stamps : s \notin {book.stamp, view.stamp, Baseline.stamp}

Fault == faults < MaxFaults /\ faults' = faults + 1

-----------------------------------------------------------------------------
(* The chain and the network, external to the engine.                       *)

Take(o) == wire' = [wire EXCEPT ![o] = @ + 1]

\* A transaction arrives: a withdrawal always lands, a post unless the vault is halted,
\* and neither once the key is replaced.  Two posts can share a slot.
Deliver(o) ==
    /\ wire[o] > 0
    /\ wire' = [wire EXCEPT ![o] = @ - 1]
    /\ IF ~mine \/ (o # Off /\ vault_halted) THEN book' = book
       ELSE IF o = Off THEN book' = Blank
       ELSE \E s \in {NewStamp} \union (IF book.shows = Off THEN {} ELSE {book.stamp}) :
                book' = [shows |-> o, stamp |-> s]
    /\ UNCHANGED <<vault_halted, mine, feed, engine, faults>>

\* Dropped, or refused after preflight, or expired with its blockhash.
Drop(o) ==
    /\ wire[o] > 0
    /\ wire' = [wire EXCEPT ![o] = @ - 1]
    /\ Fault
    /\ UNCHANGED <<book, vault_halted, mine, feed, engine>>

SetHalted(flag) ==
    /\ flag # vault_halted
    /\ vault_halted' = flag
    /\ Fault
    /\ UNCHANGED <<book, wire, mine, feed, engine>>

\* The owner withdraws capital, which takes the price down.
OwnerClears ==
    /\ book.shows # Off
    /\ book' = Blank
    /\ Fault
    /\ UNCHANGED <<wire, vault_halted, mine, feed, engine>>

\* The owner names another pricing authority.
Replaced ==
    /\ mine
    /\ mine' = FALSE
    /\ book' = Blank
    /\ Fault
    /\ UNCHANGED <<wire, vault_halted, feed, engine>>

\* The market changes, or goes where the feed has no usable price.
Move(m) ==
    /\ m # mid
    /\ Fault
    /\ mid' = m
    /\ UNCHANGED <<chain, live, reader, engine>>

ReaderDies ==
    /\ reader
    /\ reader' = FALSE
    /\ Fault
    /\ UNCHANGED <<chain, mid, live, engine>>

-----------------------------------------------------------------------------
(* Sending.  next is where the pass goes on.                                *)

Nothing(next) ==
    /\ pc' = next
    /\ UNCHANGED <<wire, last, pending, pause, halted, faults>>

\* The node takes the transaction, which is all it promises.
Taken(o, next) ==
    /\ wire[o] < MaxInFlight
    /\ Take(o)
    /\ pending' = [order |-> o, baseline |-> view, late |-> FALSE]
    /\ last' = o
    /\ pause' = "none"
    /\ pc' = next
    /\ UNCHANGED <<halted, faults>>

\* A slip: the rule goes on believing in what was refused.
RefusedRemembered(o, next) ==
    /\ Fault
    /\ wire' = wire \/ (wire[o] < MaxInFlight /\ Take(o))
    /\ pending' = NoOrder
    /\ last' = o
    /\ pause' = "on"
    /\ pc' = next
    /\ UNCHANGED halted

\* A refusal a retry might fix.  After a timeout the network may have it all the same.
Refused(o, next) ==
    /\ Fault
    /\ wire' = wire \/ (wire[o] < MaxInFlight /\ Take(o))
    /\ pending' = NoOrder
    /\ last' = Unknown
    /\ pause' = "on"
    /\ pc' = next
    /\ UNCHANGED halted

\* The node's preflight sees the halt; it may also not see it yet (Taken).
RefusedAsHalted(o, next) ==
    /\ vault_halted /\ o # Off
    /\ pending' = NoOrder
    /\ last' = Unknown
    /\ halted' = TRUE
    /\ pc' = next
    /\ UNCHANGED <<wire, pause, faults>>

\* A fatal refusal ends the loop: the key is replaced, or it is kept and the fees ran
\* out, or the program or the vault is not there.
RefusedForGood(o) ==
    /\ IF mine THEN Fault ELSE faults' = faults
    /\ pending' = NoOrder
    /\ last' = o
    /\ pc' = "stopped"
    /\ UNCHANGED <<wire, pause, halted>>

\* Cycle::send over Sender::send: o is already recorded by the rule.
send(o, next) ==
    \/ Taken(o, next)
    \/ Refused(o, next)
    \/ RefusedAsHalted(o, next)
    \/ RefusedForGood(o)

-----------------------------------------------------------------------------
(* Deciding.                                                                *)

\* moved_bps past the threshold
Moved(q, r) == q - r > Threshold \/ r - q > Threshold

\* Rule::on_quote says Post: nothing known to compare with, a move, or the heartbeat.
WorthPosting(q, due) ==
    IF last \in Quotes THEN Moved(last, q) \/ due ELSE TRUE

post(q, due, next) ==
    IF ~halted /\ pause # "on" /\ WorthPosting(q, due) THEN send(q, next) ELSE Nothing(next)

\* A slip: a transaction on every tick.
WithdrawEveryTime(next) ==
    /\ want' = "Off"
    /\ send(Off, next)

\* Once per withdrawal (Rule::on_withdraw), and not held back by a halt or a pause.
withdraw(next) ==
    /\ want' = "Off"
    /\ IF last # Off THEN send(Off, next) ELSE Nothing(next)

\* The model is asked about price m: a quote, a withdrawal (its own, or the mid
\* cannot be had), or no answer in time, which leaves everything as it is.
price_and_post(m, due, next) ==
    \/ m \in Quotes /\ want' = "Quote" /\ post(m, due, next)
    \/ m \notin Quotes /\ withdraw(next)
    \/ /\ Fault
       /\ want' = "Quote"
       /\ pc' = next
       /\ UNCHANGED <<wire, last, pending, pause, halted>>

-----------------------------------------------------------------------------
(* One pass of the loop: what Watch says, then the housekeeping.            *)

HasPrice == mid # Silent /\ reader

\* The heartbeat may be due by now, and only of a quote that was posted.
on_price ==
    /\ pc = "wait"
    /\ HasPrice
    /\ live' = TRUE
    /\ leg' = mid
    /\ \E due \in BOOLEAN : price_and_post(mid, due, "read")
    /\ UNCHANGED <<book, vault_halted, mine, mid, reader, settled, view>>

\* Silence for the bound, a rejected sample, or the reader gone: reported once.
on_withdrawal ==
    /\ pc = "wait"
    /\ ~HasPrice
    /\ live
    /\ live' = FALSE
    /\ withdraw("read")
    /\ UNCHANGED <<book, vault_halted, mine, mid, reader, settled, view, leg>>

Timer ==
    /\ pc = "wait"
    /\ pc' = "read"
    /\ UNCHANGED <<chain, feed, last, pending, settled, pause, view, want, halted, leg, faults>>

\* The second Disconnected: the withdrawal has been reported, and that is the end.
FeedGone ==
    /\ pc = "wait"
    /\ ~reader
    /\ ~live
    /\ pc' = "gone"
    /\ UNCHANGED <<chain, feed, last, pending, settled, pause, view, want, halted, leg, faults>>

\* No read is due.
NoRead ==
    /\ pc = "read"
    /\ pc' = "redo"
    /\ UNCHANGED <<chain, feed, last, pending, settled, pause, view, want, halted, leg, faults>>

ReadFails ==
    /\ pc = "read"
    /\ Fault
    /\ pc' = "redo"
    /\ UNCHANGED <<chain, feed, last, pending, settled, pause, view, want, halted, leg>>

\* The same quote as before the send has landed only once the chain restamps it.
landed ==
    /\ book.shows = pending.order
    /\ pending.order # Off /\ pending.baseline.shows = pending.order
           => book.stamp # pending.baseline.stamp

\* A slip: a lost order is dropped without telling the rule.
CheckForgetsLost(known) ==
    IF pending # NoOrder
    THEN IF landed
         THEN pending' = NoOrder /\ settled' = pending.order /\ last' = known
         ELSE IF pending.late
         THEN pending' = NoOrder /\ settled' = NoOrder /\ last' = known
         ELSE last' = known /\ UNCHANGED <<pending, settled>>
    ELSE IF settled \in {NoOrder, book.shows}
    THEN last' = known /\ UNCHANGED <<pending, settled>>
    ELSE settled' = NoOrder /\ last' = Unknown /\ UNCHANGED pending

\* A slip: only the order in flight is checked, never what already landed.
CheckPendingOnly(known) ==
    IF pending # NoOrder
    THEN IF landed
         THEN pending' = NoOrder /\ settled' = pending.order /\ last' = known
         ELSE IF pending.late
         THEN pending' = NoOrder /\ settled' = NoOrder /\ last' = Unknown
         ELSE last' = known /\ UNCHANGED <<pending, settled>>
    ELSE last' = known /\ UNCHANGED <<pending, settled>>

\* A slip: what landed is taken to be what the rule last sent.
CheckSettlesBelief(known) ==
    IF pending # NoOrder
    THEN IF landed
         THEN pending' = NoOrder /\ settled' = known /\ last' = known
         ELSE IF pending.late
         THEN pending' = NoOrder /\ settled' = NoOrder /\ last' = Unknown
         ELSE last' = known /\ UNCHANGED <<pending, settled>>
    ELSE IF settled \in {NoOrder, book.shows}
    THEN last' = known /\ UNCHANGED <<pending, settled>>
    ELSE settled' = NoOrder /\ last' = Unknown /\ UNCHANGED pending

\* Sender::check, and what the cycle does with its answer: Landed and InFlight leave
\* the rule with what it knows, Lost and Diverged make it forget.
check(known) ==
    IF pending # NoOrder
    THEN IF landed
         THEN pending' = NoOrder /\ settled' = pending.order /\ last' = known
         ELSE IF pending.late
         THEN pending' = NoOrder /\ settled' = NoOrder /\ last' = Unknown
         ELSE last' = known /\ UNCHANGED <<pending, settled>>
    ELSE IF settled \in {NoOrder, book.shows}
    THEN last' = known /\ UNCHANGED <<pending, settled>>
    ELSE settled' = NoOrder /\ last' = Unknown /\ UNCHANGED pending

\* A read of the vault; a halt that ended makes the rule forget before the check.
refresh ==
    /\ pc = "read"
    /\ mine
    /\ view' = book
    /\ halted' = vault_halted
    /\ check(IF halted /\ ~vault_halted THEN Unknown ELSE last)
    /\ pc' = "redo"
    /\ UNCHANGED <<chain, feed, pause, want, leg, faults>>

\* vet: the vault names another key.
ReadStops ==
    /\ pc = "read"
    /\ ~mine
    /\ pc' = "stopped"
    /\ UNCHANGED <<chain, feed, last, pending, settled, pause, view, want, halted, leg, faults>>

\* A read that ends the loop though the key is kept: no vault or no treasury, too few
\* lamports left for fees (vet), a freshness limit the settings no longer fit in (fits).
ReadUnfit ==
    /\ pc = "read"
    /\ mine
    /\ Fault
    /\ pc' = "stopped"
    /\ UNCHANGED <<chain, feed, last, pending, settled, pause, view, want, halted, leg>>

\* The withdrawal once more, if the rule has come to doubt it.
resend ==
    /\ pc = "redo"
    /\ IF want = "Off" /\ pause # "on"
       THEN withdraw("beat")
       ELSE Nothing("beat") /\ UNCHANGED want
    /\ UNCHANGED <<book, vault_halted, mine, feed, settled, view, leg>>

\* The model is asked again on the latest price, unless that is past the silence bound.
heartbeat ==
    /\ pc = "beat"
    /\ want = "Quote" /\ ~halted /\ last \in Quotes
    /\ \/ price_and_post(leg, TRUE, "wait")
       \/ ~HasPrice /\ withdraw("wait")
    /\ UNCHANGED <<book, vault_halted, mine, feed, settled, view, leg>>

\* The heartbeat is not due.
NoHeartbeat ==
    /\ pc = "beat"
    /\ pc' = "wait"
    /\ UNCHANGED <<chain, feed, last, pending, settled, pause, view, want, halted, leg, faults>>

-----------------------------------------------------------------------------
(* Time, and the operator.                                                  *)

Running == pc \notin {"stopped", "gone"}

PauseEnds ==
    /\ Running
    /\ pause = "on"
    /\ pause' = "over"
    /\ UNCHANGED <<chain, feed, pc, last, pending, settled, view, want, halted, leg, faults>>

\* LOST_AFTER_SLOTS pass after a send.
PendingAges ==
    /\ Running
    /\ pending # NoOrder
    /\ ~pending.late
    /\ pending' = [pending EXCEPT !.late = TRUE]
    /\ UNCHANGED <<chain, feed, pc, last, settled, pause, view, want, halted, leg, faults>>

\* The engine as it starts: nothing known but the vault it read.
Started(b, h) ==
    /\ pc' = "wait" /\ last' = Unknown /\ pending' = NoOrder /\ settled' = NoOrder
    /\ pause' = "none" /\ view' = b /\ want' = "Quote" /\ halted' = h /\ leg' = NoPrice
    /\ live' = TRUE /\ reader' = TRUE

\* A crash or a stop, and a new run.  What the old run sent is still on its way.
Restart ==
    /\ mine
    /\ Started(book, vault_halted)
    /\ Fault
    /\ UNCHANGED <<chain, mid>>

-----------------------------------------------------------------------------
Mids == Quotes \union {Silent, Unquotable}

\* An earlier run may have left a price on the book.
Init ==
    /\ book \in {Blank} \union {[shows |-> q, stamp |-> 1] : q \in Quotes}
    /\ wire = [o \in Orders |-> 0]
    /\ vault_halted = FALSE /\ mine = TRUE
    /\ mid \in Mids /\ live = TRUE /\ reader = TRUE
    /\ pc = "wait" /\ last = Unknown /\ pending = NoOrder /\ settled = NoOrder
    /\ pause = "none" /\ view = book /\ want = "Quote" /\ halted = FALSE /\ leg = NoPrice
    /\ faults = 0

Pass ==
    \/ on_price \/ on_withdrawal \/ Timer \/ FeedGone
    \/ NoRead \/ ReadFails \/ refresh \/ ReadStops \/ ReadUnfit
    \/ resend
    \/ heartbeat \/ NoHeartbeat

Next ==
    \/ Pass
    \/ PauseEnds \/ PendingAges
    \/ \E o \in Orders : Deliver(o)
    \/ \E o \in Orders : Drop(o)
    \/ \E flag \in BOOLEAN : SetHalted(flag)
    \/ OwnerClears \/ Replaced
    \/ \E m \in Mids : Move(m)
    \/ ReaderDies \/ Restart

Spec == Init /\ [][Next]_vars

\* The thread runs; in the passes that go on forever the feed, when it has something,
\* and the book, when a read is due, get their turn, because the deadlines that wake
\* the loop before them move on at each pass; pauses end, sends grow old; and a
\* transaction does not stay in the network: it lands or it expires.
Fairness ==
    /\ WF_vars(Pass)
    /\ SF_vars(on_price \/ on_withdrawal \/ FeedGone)
    /\ SF_vars(refresh \/ ReadStops)
    /\ WF_vars(PauseEnds) /\ WF_vars(PendingAges)
    /\ \A o \in Orders : WF_vars(Deliver(o))

FairSpec == Spec /\ Fairness

-----------------------------------------------------------------------------
(* Properties.                                                              *)

TypeOK ==
    /\ book \in Books
    /\ wire \in [Orders -> 0..MaxInFlight]
    /\ vault_halted \in BOOLEAN /\ mine \in BOOLEAN
    /\ mid \in Mids /\ live \in BOOLEAN /\ reader \in BOOLEAN
    /\ pc \in {"wait", "read", "redo", "beat", "stopped", "gone"}
    /\ last \in Orders \union {Unknown}
    /\ pending \in Pendings \union {NoOrder}
    /\ settled \in Orders \union {NoOrder}
    /\ pause \in {"none", "on", "over"}
    /\ view \in Books
    /\ want \in {"Quote", "Off"}
    /\ halted \in BOOLEAN
    /\ leg \in Mids \union {NoPrice}
    /\ faults \in 0..MaxFaults

\* What the rule believes, the sender watches.  While the loop runs, an order the rule
\* compares new quotes with is either in flight and due for a check, or was on the book
\* when last read.  Otherwise a post that never landed would hold back every repeat of
\* it, and a withdrawal that never landed would never be sent again.
BeliefIsWatched ==
    Running /\ last # Unknown =>
        IF pending # NoOrder THEN pending.order = last
        ELSE settled = last /\ view.shows = last

\* A pause comes with a rule that knows nothing, and stays until a send is taken: no
\* heartbeat deadline can lie in the past while posts are held back, and no end of a
\* pause while a withdrawal already sent leaves nothing to do about it.  Either would
\* keep the loop awake (wake_at) without it ever reading the feed.
PauseMeansUnknown == Running /\ pause # "none" => last = Unknown /\ pending = NoOrder

\* Whatever was lost, delayed, reordered or refused on the way, and even into a halted
\* vault: when the market stops giving a price, the book ends up without one and
\* stays so.  A post sent before the withdrawal and landing after it does not win.  An
\* engine that stops while the key is its own leaves its price to the vault's age limit;
\* one whose key was replaced has none up, stopped or not.
NoPriceNoQuote ==
    <>[](mid \notin Quotes /\ reader /\ (mine => Running)) => <>[](book.shows = Off)

\* And when the market settles on a price, the vault of an engine that runs ends up
\* quoting it, within the threshold, and stays so.
Near(m) == {q \in Quotes : m \in Quotes => ~Moved(q, m)}

PriceIsQuoted ==
    <>[](mid \in Quotes /\ reader /\ mine /\ Running /\ ~vault_halted)
        => <>[](book.shows \in Near(mid))

\* The withdrawal is edge-triggered all the way: with the book empty the engine falls
\* silent instead of spending a transaction on every tick.
Sends == \E o \in Orders : wire'[o] > wire[o]

QuietWhenOff ==
    <>[](mid \notin Quotes /\ reader) => <>[][~Sends]_vars

\* The loop ends on a lost reader "once the quote is off the book" (cycle.rs).
GoneIsOff == [](pc = "gone" => <>(book.shows = Off))
=============================================================================
