------------------------------ MODULE Heartbeat ------------------------------
(***************************************************************************)
(* The engine on the chain's clock (crates/propamm-engine: policy.rs,       *)
(* sender.rs, the deadlines of cycle.rs, start-up in config.rs and main.rs): *)
(* a quote on the book expires by slots, the engine counts slots by a clock *)
(* of its own, and a transaction that repeats another is not a transaction. *)
(*                                                                          *)
(* Time runs in ticks, Grain to a slot at the nominal speed.  A slot of the *)
(* chain takes at least that long; the engine counts nominal slots, rounded *)
(* up, from the last slot it read, so that it runs ahead of the chain.      *)
(* All slots are relative: an age on the chain's clock (the book) or on the *)
(* engine's (what it sent), a countdown to what is due.  Reads and sends    *)
(* are instantaneous; a halted vault, and a restart, are in Engine.         *)
(***************************************************************************)
EXTENDS Integers, Sequences

CONSTANTS
    Quotes,            \* pairs <<bid, ask>>
    Off, None,
    BPS_DENOM, Grain,
    LANDING_SLOTS, BLOCKHASH_MAX_AGE_SLOTS,
    SEND_BACKOFF_MAX,  \* in ticks, as every duration
    Envs,              \* environments: a value or Absent, Placeholder, Junk by key
    Default,           \* the values of absent keys
    Absent, Placeholder, Junk,
    Limits,            \* max_quote_age_slots, as the owner may set it
    MaxLead,           \* bound: how far the engine's clock runs ahead of the chain
    MaxStale,          \* bound: how long a quote on the book is followed
    MaxFlight,         \* bound: transactions in flight at a time
    MaxTrouble         \* bound: refusals, retries, losses, failed reads, models that skip,
                       \* and changes of the limit

LOST_AFTER_SLOTS == 2 * LANDING_SLOTS
Tunables == {"threshold", "heartbeat", "budget", "silence"}

ASSUME HeartbeatAssumption ==
    /\ Quotes \subseteq Nat \X Nat /\ Off \notin Quotes
    /\ None \notin Quotes \union {Off} \union Int \union {"node", "unanswered", "engine"}
    /\ None \notin [order : Quotes \union {Off}, age : Int, looked : BOOLEAN,
                    baseline : Nat \union {None}]
    /\ BPS_DENOM \in Nat \ {0} /\ Grain \in Nat \ {0}
    /\ LANDING_SLOTS \in Nat \ {0} /\ BLOCKHASH_MAX_AGE_SLOTS \in Nat \ {0}
    /\ SEND_BACKOFF_MAX \in Nat \ {0} /\ Grain <= SEND_BACKOFF_MAX
    /\ Default \in [Tunables -> Nat]
    /\ \A e \in Envs, k \in Tunables : e[k] \in Nat \union {Absent, Placeholder, Junk}
    /\ Limits \subseteq Nat
    /\ {MaxLead, MaxFlight, MaxTrouble} \subseteq Nat /\ MaxStale \in Nat \ {0}

VARIABLES
    \* the vault and the network
    book,      \* what the vault shows, its age in slots; history: this run posted it, and no
               \* read since has taken it for lost
    limit,     \* the vault's max_quote_age_slots
    flight,    \* transactions: what each does, its age, whether the newest blockhash signed it
    fetched,   \* the newest blockhash handed out: is there a newer one, was it handed out
               \* again, what it has signed, and of that what no answer came to
    \* time
    into,      \* ticks of the chain's slot, up to Grain
    phase,     \* ticks since the clock was anchored, modulo Grain
    lead,      \* SlotClock::now less the chain's slot
    \* the engine
    env, config,   \* the environment, and what was read from it
    pc, spent,     \* where the pass is, and since when the model is asked
    mid, want,     \* the latest price, as a quote; where the book should be
    live,          \* Watch has not reported a withdrawal since its last price
    last,          \* Rule
    pending, settled, hash, pause, next_pause,   \* Sender
    view,          \* the book and the limit as last read
    next_read, read_retry,
    \* history
    misfit,    \* ticks since the limit is one the settings do not fit in
    repeated,  \* a transaction was sent that had been sent before, and whose doing it was
    faults, changes

vault == <<book, limit>>
clocks == <<into, phase, lead>>
sender == <<pending, settled, hash, pause, next_pause>>
reads == <<view, next_read, read_retry>>
history == <<misfit, repeated, faults, changes>>
vars == <<vault, flight, fetched, clocks, env, config, pc, spent, mid, want, live, last,
          sender, reads, history>>

Orders == Quotes \union {Off}
Unknown == [at |-> "unknown"]
Withdrawn == [at |-> "withdrawn"]

-----------------------------------------------------------------------------
Least(a, b) == IF a < b THEN a ELSE b
Most(a, b) == IF a > b THEN a ELSE b
CeilDiv(a, b) == (a + b - 1) \div b
Fault == faults + changes < MaxTrouble /\ faults' = faults + 1

(* Settings.                                                                *)

\* Every key is absent, the placeholder, not a value of its kind, or a value; the first
\* two words about a key that has no default are refusals.
Readable(e) ==
    /\ e.vault \notin {Absent, Placeholder, Junk}
    /\ \A k \in Tunables : e[k] \notin {Placeholder, Junk}

from_lookup(e) == [k \in Tunables |-> IF e[k] = Absent THEN Default[k] ELSE e[k]]

budget_fits(c, max_age) == c.budget > 0 /\ c.budget < Grain * max_age
silence_fits(c, max_age) == c.silence > 0 /\ c.silence < Grain * max_age
rule_fits(c, max_age) ==
    /\ c.threshold > 0 /\ c.threshold < BPS_DENOM
    /\ c.heartbeat > 0
    /\ c.heartbeat + CeilDiv(c.budget, Grain) + LANDING_SLOTS <= max_age

fits(c, max_age) == budget_fits(c, max_age) /\ silence_fits(c, max_age) /\ rule_fits(c, max_age)

-----------------------------------------------------------------------------
(* The update rule.                                                         *)

Posted(order, age) == [at |-> "posted", order |-> order, age |-> age]
IsPosted(l) == l.at = "posted"

Distance(a, b) == IF a < b THEN b - a ELSE a - b
moved_bps(old, new) == Distance(old, new) * BPS_DENOM > old * config.threshold
Moved(old, new) == \E side \in 1..2 : moved_bps(old[side], new[side])

WorthPosting(q) ==
    \/ ~IsPosted(last)
    \/ Moved(last.order, q)
    \/ last.age >= config.heartbeat

\* A slip: the heartbeat counts from the decision, whatever the book is stamped with.
LandedUnnoticed(l, age) == l

\* A stamp older than the decision brings the heartbeat forward, a newer one does not put
\* it off.
landed_at(l, age) == IF IsPosted(l) THEN [l EXCEPT !.age = Most(@, age)] ELSE l

HeartbeatDue == want = "Quote" /\ IsPosted(last) /\ last.age >= config.heartbeat

-----------------------------------------------------------------------------
(* The sender.                                                              *)

stale == hash = None \/ hash.age >= BLOCKHASH_MAX_AGE_SLOTS

\* A slip: the cache is good as long as it is young.
CacheKeeps(order) == stale

\* The blockhash a transaction is signed with is not one it has been sent with before: a
\* repeat asks the node for another.
Refreshes(order) == stale \/ order \in hash.signed

\* The node answers with the chain's latest blockhash, new only if the chain has moved.
HandedOut ==
    IF fetched.moved THEN [moved |-> FALSE, twice |-> FALSE, signed |-> {}, unsure |-> {}]
    ELSE [fetched EXCEPT !.twice = @ \/ fetched.signed # {}]

Fetched(fetching) == IF fetching THEN HandedOut ELSE fetched
InFlight(fetching) ==
    [i \in DOMAIN flight |->
        [flight[i] EXCEPT !.newest = @ /\ ~(fetching /\ fetched.moved)]]

\* The order signed with a blockhash fetched for it or with the cached one, and sent.  The
\* cache takes down what the node has taken; what was not answered may be in the network.
sign(order, fetching, answered) ==
    LET newest == Fetched(fetching)
        repeats == order \in newest.signed
        doing == IF newest.twice THEN "node"
                 ELSE IF order \in newest.unsure THEN "unanswered" ELSE "engine"
    IN /\ hash' = [age |-> IF fetching THEN 0 ELSE hash.age,
                   signed |-> (IF fetching THEN {} ELSE hash.signed)
                              \union (IF answered THEN {order} ELSE {})]
       /\ fetched' = [newest EXCEPT !.signed = @ \union {order},
                                    !.unsure = IF answered THEN @ \ {order} ELSE @ \union {order}]
       /\ flight' = IF repeats THEN InFlight(fetching)
                    ELSE Append(InFlight(fetching), [order |-> order, age |-> 0, newest |-> TRUE])
       /\ repeated' = IF repeats /\ repeated # "engine" THEN doing ELSE repeated

\* The node takes it; sent is not landed.
Accepted(order, fetching) ==
    /\ Len(flight) < MaxFlight
    /\ sign(order, fetching, TRUE)
    /\ pending' = [order |-> order, age |-> 0, looked |-> FALSE,
                   baseline |-> IF view.shows = order THEN view.age ELSE None]
    /\ pause' = None /\ next_pause' = Grain
    /\ UNCHANGED <<settled, next_read>>

Taken(order) == Accepted(order, Refreshes(order)) /\ faults' = faults

\* The node has forgotten the blockhash: once more with a fresh one.
Retaken(order) == Accepted(order, TRUE) /\ Fault

\* What a node may answer, and what the engine makes of it.
Answers == {"AlreadyProcessed", "BlockhashNotFound", "Unreachable", "Unhealthy", "Congested",
            "OutOfDomain", "NoFunds", "NotAuthority", "NoProgram", "BadAccounts"}
sort_send_error(answer) ==
    CASE answer = "AlreadyProcessed" -> "Taken"
      [] answer = "BlockhashNotFound" -> "StaleBlockhash"
      [] answer \in {"Unreachable", "Unhealthy", "Congested"} -> "Transient"
      [] answer = "OutOfDomain" -> "Rejected"
      [] OTHER -> "Fatal"

\* The send is refused, or already the blockhash for it, at the first attempt or after the
\* cache was cleared for the second: nothing of it is in the network.
Untaken(order, answer) ==
    \E fetching \in BOOLEAN :
        /\ \/ /\ Refreshes(order) \/ sort_send_error(answer) = "StaleBlockhash" => fetching
              /\ hash' = IF fetching THEN [age |-> 0, signed |-> {}] ELSE hash
           \/ /\ sort_send_error(answer) = "Transient"
              /\ \/ ~fetching /\ hash' = hash
                 \/ (fetching <=> Refreshes(order)) /\ hash' = None
        /\ fetched' = Fetched(fetching)
        /\ flight' = InFlight(fetching)
        /\ repeated' = repeated

\* The send is not answered in time, and the network has the transaction.
Unanswered(order) ==
    /\ Len(flight) < MaxFlight
    /\ \E fetching \in BOOLEAN :
          (Refreshes(order) => fetching) /\ sign(order, fetching, FALSE)

Attempted(order, answer) ==
    Untaken(order, answer) \/ (answer = "Unreachable" /\ Unanswered(order))

\* A slip: the pause doubles for ever.
RefusedUncapped(order, answer) ==
    /\ Fault
    /\ Attempted(order, answer)
    /\ pending' = None
    /\ pause' = next_pause /\ next_pause' = 2 * next_pause
    /\ next_read' = 0
    /\ UNCHANGED settled

\* Refused as far as the engine knows: the posts pause, the book is read at once.
Refused(order, answer) ==
    /\ Fault
    /\ Attempted(order, answer)
    /\ pending' = None
    /\ pause' = next_pause /\ next_pause' = Least(2 * next_pause, SEND_BACKOFF_MAX)
    /\ next_read' = 0
    /\ UNCHANGED settled

\* A refusal that no retry mends ends the loop.
RefusedForGood(order, answer) ==
    /\ Fault
    /\ Untaken(order, answer)
    /\ pending' = None
    /\ UNCHANGED <<settled, pause, next_pause, next_read>>

Nothing == UNCHANGED <<flight, fetched, sender, last, next_read, repeated, faults>>

\* send, with the belief of the rule before it and the rest of the pass after it.
send(order, belief, next) ==
    \/ (Taken(order) \/ Retaken(order)) /\ last' = belief /\ pc' = next
    \/ \E answer \in Answers :
         CASE sort_send_error(answer) \in {"StaleBlockhash", "Transient", "Rejected"} ->
                 Refused(order, answer) /\ last' = Unknown /\ pc' = next
           [] sort_send_error(answer) = "Fatal" ->
                 RefusedForGood(order, answer) /\ last' = belief /\ pc' = "stopped"
           [] OTHER -> FALSE

withdraw(next) ==
    /\ want' = "Off"
    /\ IF last # Withdrawn THEN send(Off, Withdrawn, next)
       ELSE pc' = next /\ Nothing

is_paused == pause # None /\ pause > 0

post(q, next) ==
    IF ~is_paused /\ WorthPosting(q) THEN send(q, Posted(q, 0), next)
    ELSE pc' = next /\ Nothing

-----------------------------------------------------------------------------
(* The node, asked for accounts.                                            *)

\* The accounts asked for, as of one moment; or why there are none, or not the right ones.
Snapshots == {"Accounts", "Unreachable", "Unhealthy", "WrongCount", "VaultGone", "NotAVault",
              "TreasuryGone", "MintGone"}

sort_node_error(answer) == answer \in {"Unreachable", "Unhealthy"}

\* The account is not one of this program's vaults, or what belongs to it is missing.
no_vault(answer) == answer \in {"VaultGone", "NotAVault", "TreasuryGone", "MintGone"}

\* At the start: the vault, and the decimals of its two mints.
connect(answer) ==
    IF sort_node_error(answer) THEN "Transient"
    ELSE IF no_vault(answer) /\ answer # "TreasuryGone" THEN "Fatal"
    ELSE "Found"

\* The vault, both treasuries and the payer, which need not exist.
read(answer) ==
    IF sort_node_error(answer) \/ answer = "WrongCount" THEN "Transient"
    ELSE IF no_vault(answer) /\ answer # "MintGone" THEN "Fatal"
    ELSE "View"

-----------------------------------------------------------------------------
(* Start-up.                                                                *)

\* The clock put on the chain's slot, which lasts a tick longer.
anchor == phase' = 0 /\ lead' = 0 /\ into' = Least(into, Grain - 1)

\* Read the environment, find the vault, read it, check the settings against it; only
\* then the feed is opened.
start ==
    /\ pc = "start"
    /\ IF Readable(env) /\ fits(from_lookup(env), limit)
       THEN /\ pc' = "wait"
            /\ config' = from_lookup(env)
            /\ view' = [shows |-> book.shows, age |-> book.age, limit |-> limit]
            /\ next_read' = from_lookup(env).heartbeat
            /\ anchor
       ELSE pc' = "stopped" /\ UNCHANGED <<config, view, next_read, clocks>>
    /\ UNCHANGED <<vault, flight, fetched, env, spent, mid, want, live, last, sender,
                   read_retry, history>>

\* Every refusal is the end of a start, one that a retry might mend as well.
StartFails ==
    /\ pc = "start" /\ Readable(env)
    /\ \E answer \in Snapshots : connect(answer) # "Found" \/ read(answer) # "View"
    /\ Fault
    /\ pc' = "stopped"
    /\ UNCHANGED <<vault, flight, fetched, clocks, env, config, spent, mid, want, live, last,
                   sender, reads, misfit, repeated, changes>>

-----------------------------------------------------------------------------
(* A pass of the loop.                                                      *)

\* The slot to look for the last order in, and the slot of the next read.
check_due == pending # None
             /\ pending.age >= (IF pending.looked THEN LOST_AFTER_SLOTS ELSE LANDING_SLOTS)

\* A slip: the book is read for what was sent, never for what the owner did.
ReadToCheck == check_due /\ read_retry <= 0

read_due == (check_due \/ next_read <= 0) /\ read_retry <= 0

WakeDue == read_due \/ HeartbeatDue \/ (want = "Off" /\ pause = 0)

Idle == UNCHANGED <<vault, clocks, env, config, read_retry, misfit, changes>>

\* What follows the feed's event, or the time to wake up: a read if one is due, and then
\* the rest of the housekeeping.
Woken == pc = "read" \/ (pc = "wait" /\ WakeDue)
Reading == Woken /\ read_due
Due == pc = "due" \/ (Woken /\ ~read_due)

on_price(q) ==
    /\ pc = "wait" /\ ~WakeDue
    /\ mid' = q /\ want' = "Quote" /\ live' = TRUE
    /\ pc' = "model" /\ spent' = 0
    /\ UNCHANGED view /\ Nothing /\ Idle

on_withdrawal ==
    /\ pc = "wait" /\ ~WakeDue
    /\ live /\ live' = FALSE
    /\ withdraw("read")
    /\ UNCHANGED <<spent, mid, view>> /\ Idle

Asked == pc \in {"model", "beat"}
AfterModel == IF pc = "model" THEN "read" ELSE "wait"

\* The model's answer, within its budget; the quote it makes of a price is that price.
price_and_post ==
    /\ Asked
    /\ post(mid, AfterModel) /\ spent' = 0
    /\ UNCHANGED <<mid, want, live, view>> /\ Idle

ModelWithdraws ==
    /\ Asked
    /\ withdraw(AfterModel) /\ spent' = 0
    /\ UNCHANGED <<mid, live, view>> /\ Idle

Skips ==
    /\ Asked
    /\ Fault
    /\ pc' = AfterModel /\ spent' = 0
    /\ UNCHANGED <<flight, fetched, sender, last, next_read, repeated, mid, want, live, view>>
    /\ Idle

ReadFails ==
    /\ Reading
    /\ \E answer \in Snapshots : read(answer) = "Transient"
    /\ Fault
    /\ read_retry' = LANDING_SLOTS
    /\ pc' = "due"
    /\ UNCHANGED <<vault, flight, fetched, clocks, env, config, spent, mid, want, live, last,
                   sender, view, next_read, misfit, repeated, changes>>

\* The vault or a treasury is gone: no retry mends that.
ReadStops ==
    /\ Reading
    /\ \E answer \in Snapshots : read(answer) = "Fatal"
    /\ Fault
    /\ pc' = "stopped"
    /\ UNCHANGED <<vault, flight, fetched, clocks, env, config, spent, mid, want, live, last,
                   sender, reads, misfit, repeated, changes>>

\* Is the pending order on the book? A repeated quote is once the chain restamped it.
landed == book.shows = pending.order /\ (pending.baseline # None => book.age < pending.baseline)

\* The book as read, against the last order sent or seen.
check(known) ==
    IF pending # None
    THEN IF landed
         THEN /\ pending' = None /\ settled' = pending.order
              /\ last' = IF book.shows # Off THEN landed_at(known, book.age) ELSE known
         ELSE IF pending.age - lead < LOST_AFTER_SLOTS
         THEN /\ pending' = [pending EXCEPT !.age = @ - lead, !.looked = TRUE]
              /\ last' = known /\ settled' = settled
         ELSE pending' = None /\ settled' = None /\ last' = Unknown
    ELSE /\ pending' = None
         /\ IF settled \in {None, book.shows}
            THEN /\ settled' = settled
                 /\ last' = IF settled \notin {None, Off} THEN landed_at(known, book.age)
                            ELSE known
            ELSE settled' = None /\ last' = Unknown

\* A read puts the clock back on the chain's slot, and with it every age counted by it.
refresh ==
    /\ Reading
    /\ anchor
    /\ IF limit = view.limit \/ fits(config, limit)
       THEN /\ pc' = "due"
            /\ check(IF IsPosted(last) THEN [last EXCEPT !.age = @ - lead] ELSE last)
            /\ hash' = IF hash = None THEN None ELSE [hash EXCEPT !.age = @ - lead]
            /\ view' = [shows |-> book.shows, age |-> book.age, limit |-> limit]
            /\ next_read' = config.heartbeat
            /\ read_retry' = IF read_retry + lead > 0 THEN read_retry + lead ELSE -MaxLead
            /\ book' = [book EXCEPT !.ours = @ /\ last' # Unknown]
       ELSE pc' = "stopped" /\ UNCHANGED <<book, last, pending, settled, hash, reads>>
    /\ UNCHANGED <<limit, flight, fetched, env, config, spent, mid, want, live, pause,
                   next_pause, history>>

\* A withdrawal that was lost is sent again; then the heartbeat, which asks the model.
housekeeping ==
    /\ Due
    /\ \/ want = "Off" /\ ~is_paused /\ withdraw("wait") /\ spent' = spent
       \/ want = "Off" /\ is_paused /\ pc' = "wait" /\ UNCHANGED <<spent, want>> /\ Nothing
       \/ want = "Quote" /\ ~HeartbeatDue /\ pc' = "wait" /\ UNCHANGED <<spent, want>> /\ Nothing
       \/ HeartbeatDue /\ pc' = "beat" /\ spent' = 0 /\ want' = want /\ Nothing
    /\ UNCHANGED <<mid, live, view>> /\ Idle

-----------------------------------------------------------------------------
(* The network and the vault.                                               *)

Remove(s, i) == SubSeq(s, 1, i - 1) \o SubSeq(s, i + 1, Len(s))
Engine == <<env, config, pc, spent, mid, want, live, last, sender, reads>>

\* What no pass will see is not followed: what happens before the start is where it begins,
\* and a read and the rest of the housekeeping are one step to the chain.
Running == pc \notin {"start", "stopped"}

\* Out of order only by a fault.
Deliver(i) ==
    /\ Running /\ pc # "due"
    /\ IF i = 1 THEN faults' = faults ELSE Fault
    /\ book' = [shows |-> flight[i].order, age |-> 0, ours |-> TRUE]
    /\ flight' = Remove(flight, i)
    /\ UNCHANGED <<limit, fetched, clocks, Engine, misfit, repeated, changes>>

\* A transaction that did not land may be sent again as it is.
Drop(i) ==
    /\ Running /\ pc # "due"
    /\ Fault
    /\ flight' = Remove(flight, i)
    /\ fetched' = IF flight[i].newest
                  THEN [fetched EXCEPT !.signed = @ \ {flight[i].order},
                                       !.unsure = @ \ {flight[i].order}]
                  ELSE fetched
    /\ UNCHANGED <<vault, clocks, Engine, misfit, repeated, changes>>

SetLimit(l) ==
    /\ faults + changes < MaxTrouble /\ changes' = changes + 1
    /\ Running /\ pc # "due"
    /\ l # limit /\ limit' = l
    /\ misfit' = 0
    /\ UNCHANGED <<book, flight, fetched, clocks, Engine, repeated, faults>>

-----------------------------------------------------------------------------
(* Time.                                                                    *)

Older(age, cap) == IF age = None THEN None ELSE Least(age + 1, cap)

\* The chain's next slot.  What is in flight lands within LANDING_SLOTS unless lost.
ChainMoves ==
    /\ into = Grain /\ Running /\ pc # "due"
    /\ \A i \in DOMAIN flight : flight[i].age < LANDING_SLOTS
    /\ book.shows # Off => book.age < MaxStale
    /\ into' = 0 /\ lead' = lead - 1
    /\ book' = [book EXCEPT !.age = IF book.shows = Off THEN 0 ELSE @ + 1]
    /\ view' = [view EXCEPT !.age = IF view.shows = Off THEN 0 ELSE Least(@ + 1, MaxStale)]
    /\ pending' = IF pending = None THEN None
                  ELSE [pending EXCEPT !.baseline = Older(@, MaxStale)]
    /\ flight' = [i \in DOMAIN flight |-> [flight[i] EXCEPT !.age = @ + 1]]
    /\ fetched' = [fetched EXCEPT !.moved = TRUE]
    /\ UNCHANGED <<limit, phase, env, config, pc, spent, mid, want, live, last, settled, hash,
                   pause, next_pause, next_read, read_retry, history>>

Fit == pc \in {"start", "stopped"} \/ fits(config, limit)

\* No decision that is still looked at gets older.
LastCap == config.heartbeat + CeilDiv(config.budget, Grain) + MaxLead

\* The engine's clock shows the next slot just after a whole number of them has passed.
SlotBegins == phase = 0

MayPass ==
    CASE pc = "wait" -> ~WakeDue
      [] Asked -> spent < config.budget
      [] OTHER -> FALSE

Tick ==
    /\ MayPass
    /\ SlotBegins => lead < MaxLead
    /\ into' = Least(into + 1, Grain)
    /\ phase' = (phase + 1) % Grain
    /\ lead' = IF SlotBegins THEN lead + 1 ELSE lead
    /\ spent' = IF Asked THEN spent + 1 ELSE spent
    /\ pause' = IF pause = None THEN None ELSE Most(pause - 1, 0)
    /\ misfit' = IF Fit THEN 0 ELSE misfit + 1
    /\ IF SlotBegins
       THEN /\ last' = IF IsPosted(last)
                       THEN [last EXCEPT !.age = Least(@ + 1, LastCap)]
                       ELSE last
            /\ pending' = IF pending = None THEN None
                          ELSE [pending EXCEPT !.age = Least(@ + 1, LOST_AFTER_SLOTS + MaxLead)]
            /\ hash' = IF hash = None THEN None
                       ELSE [hash EXCEPT !.age = Least(@ + 1, BLOCKHASH_MAX_AGE_SLOTS + MaxLead)]
            /\ next_read' = Most(next_read - 1, 0)
            /\ read_retry' = Most(read_retry - 1, -MaxLead)
       ELSE UNCHANGED <<last, pending, hash, next_read, read_retry>>
    /\ UNCHANGED <<vault, flight, fetched, env, config, pc, mid, want, live, settled,
                   next_pause, view, repeated, faults, changes>>

-----------------------------------------------------------------------------
Init ==
    /\ book \in {[shows |-> Off, age |-> 0, ours |-> FALSE]}
                \union {[shows |-> q, age |-> 1, ours |-> FALSE] : q \in Quotes}
    /\ limit \in Limits
    /\ flight = <<>> /\ fetched = [moved |-> TRUE, twice |-> FALSE, signed |-> {}, unsure |-> {}]
    /\ into \in 0..(Grain - 1) /\ phase = 0 /\ lead = 0
    /\ env \in Envs /\ config = Default
    /\ pc = "start" /\ spent = 0
    /\ mid \in Quotes /\ want = "Quote" /\ live = TRUE
    /\ last = Unknown
    /\ pending = None /\ settled = None /\ hash = None /\ pause = None /\ next_pause = Grain
    /\ view = [shows |-> Off, age |-> 0, limit |-> limit]
    /\ next_read = 0 /\ read_retry = -MaxLead
    /\ misfit = 0 /\ repeated = None /\ faults = 0 /\ changes = 0

Next ==
    \/ start \/ StartFails
    \/ on_withdrawal \/ \E q \in Quotes : on_price(q)
    \/ price_and_post \/ ModelWithdraws \/ Skips
    \/ ReadFails \/ ReadStops \/ refresh \/ housekeeping
    \/ \E i \in DOMAIN flight : Deliver(i) \/ Drop(i)
    \/ \E l \in Limits : SetLimit(l)
    \/ Tick \/ ChainMoves

Spec == Init /\ [][Next]_vars

-----------------------------------------------------------------------------
TypeOK ==
    /\ book \in [shows : Orders, age : 0..MaxStale, ours : BOOLEAN]
    /\ limit \in Limits
    /\ flight \in Seq([order : Orders, age : 0..LANDING_SLOTS, newest : BOOLEAN])
    /\ fetched \in [moved : BOOLEAN, twice : BOOLEAN, signed : SUBSET Orders,
                    unsure : SUBSET Orders]
    /\ into \in 0..Grain /\ phase \in 0..(Grain - 1) /\ lead \in 0..MaxLead
    /\ pc \in {"start", "wait", "model", "read", "due", "beat", "stopped"}
    /\ mid \in Quotes /\ want \in {"Quote", "Off"} /\ live \in BOOLEAN
    /\ last \in {Unknown, Withdrawn} \union [at : {"posted"}, order : Quotes, age : Int]
    /\ pending = None \/ pending \in [order : Orders, age : Int, looked : BOOLEAN,
                                      baseline : Nat \union {None}]
    /\ settled \in Orders \union {None}
    /\ hash = None \/ hash \in [age : Int, signed : SUBSET Orders]
    /\ pause \in Nat \union {None} /\ next_pause \in Grain..SEND_BACKOFF_MAX
    /\ next_read \in Nat /\ misfit \in Nat /\ repeated \in {None, "node", "unanswered", "engine"}

\* The heartbeat is no shorter than it takes to find a transaction lost, the model asked
\* meanwhile, with the chain as far behind the engine's clock as it gets.
Outlasts == LOST_AFTER_SLOTS + CeilDiv(config.budget, Grain) + MaxLead <= config.heartbeat

\* A quote this run posted and no read has taken for lost is up in an engine that runs,
\* and nothing was lost, refused or taken for a repeat.
OursIsUp ==
    Running /\ faults = 0 /\ repeated = None /\ book.ours /\ book.shows # Off

\* It does not expire, on a chain no faster than nominal and no further behind the engine's
\* clock than MaxLead, if the heartbeat is long enough: it is replaced before the limit, and
\* before any limit the settings fit in that the owner may change to meanwhile (FR-011a).
NeverExpires == OursIsUp /\ Outlasts => \A l \in Limits : fits(config, l) => book.age <= l

\* A heartbeat re-posts the same quote and must not repeat a signature.  The cache sees to
\* that for whatever the node has taken: it is sent again as another transaction, through
\* refusals, retries and expired blockhashes, unless the node has handed out one blockhash
\* twice.
RepeatsAreNew == repeated # "engine"

\* sender.rs says more, that a blockhash is "never used twice for the same message": also
\* for a message whose send was not answered, which the network may have all the same.
NeverTheSame == repeated \in {None, "node"}

\* The owner changes the freshness limit to one the settings do not fit in: the engine
\* sees it within a heartbeat and what the model takes, and stops.
MisfitIsSeen == Running /\ faults = 0 => misfit <= Grain * config.heartbeat + config.budget
==============================================================================
