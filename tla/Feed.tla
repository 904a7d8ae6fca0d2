-------------------------------- MODULE Feed --------------------------------
(***************************************************************************)
(* The road of a price from the oracle's stream to the vault's book         *)
(* (crates/propamm-engine: feed.rs, and the loop's side of it in cycle.rs): *)
(* the reader thread that judges samples and reconnects, the channel, the   *)
(* silence watch, and the legs a mid is made of.                            *)
(*                                                                          *)
(* Time is discrete and relative: a countdown to what is due, an age of     *)
(* what is past, each capped where the code no longer tells values apart,   *)
(* so that the clock itself needs no bound.  A pass of the loop takes time  *)
(* where it asks the model and where it talks to the node (pc), at most     *)
(* Busy each; while it waits, it wakes the moment something is due.  What   *)
(* becomes of a send is the subject of Engine: here every send is taken.    *)
(***************************************************************************)
EXTENDS Integers, Sequences

CONSTANTS
    Legs,        \* the feeds the mid is made of: the base, or base and quote
    Offers,      \* the (price, conf) pairs a sample may carry
    Ages,        \* how old a sample's publish time may be; negative is ahead of the clock
    BPS_DENOM, MaxAge, MaxConfBps, ClockSkew,  \* Policy
    MinPause, MaxPause,                        \* Backoff
    Bound,       \* the silence bound
    Heartbeat,   \* from a post to its heartbeat, and from a read to the next
    Retry,       \* from a failed read to the next
    Busy,        \* bound: the time a stage of a pass may take
    MaxQueue,    \* bound: events in the channel at a time
    None

\* A pass: the model on a price or a withdrawal, a read, the model on the heartbeat.
PassTime == 3 * Busy
\* The longest silence behind a quote, and the greatest age of a leg behind it.
SilenceLimit == Bound - 1 + PassTime
LegLimit == Bound - 1 + SilenceLimit

Oldest == CHOOSE a \in Ages : \A b \in Ages : b <= a
Forgotten == Oldest + 1

ASSUME FeedAssumption ==
    /\ Legs # {}
    /\ Offers \subseteq Int \X Nat
    /\ Ages \subseteq Int /\ Oldest \in Ages /\ Oldest >= 0
    /\ BPS_DENOM \in Nat /\ MaxAge \in Nat /\ MaxConfBps \in Nat /\ ClockSkew \in Nat
    /\ MinPause \in Nat \ {0} /\ MaxPause \in Nat /\ MinPause <= MaxPause
    /\ Bound \in Nat \ {0} /\ Heartbeat \in Nat \ {0} /\ Retry \in Nat \ {0}
    /\ Busy \in Nat \ {0} /\ MaxQueue \in Nat
    /\ None \notin Int

VARIABLES
    \* the reader thread
    link,       \* the stream is open, or the thread sleeps; "ended" with the thread
    wait,       \* what is left of the sleep
    pause,      \* the pause the next broken session gets
    delivered,  \* this session handed over a sample
    seen,       \* age of the latest publish time of each feed
    rx,         \* the channel
    \* Watch
    silent,     \* since the last usable price, or the start; 0 while withdrawn
    state,      \* Silence
    \* the loop
    pc,         \* wait: in recv_until; model, read, beat: in a pass; gone: ended
    beating,    \* the model is asked for a heartbeat
    spent,      \* time in this stage
    leg,        \* age of the latest price of each leg
    started,    \* since the start
    want, last, \* Cycle and Rule: where the book should be, what was last sent
    beat,       \* to the heartbeat of the quote posted
    read,       \* to the next read
    tainted     \* history: feeds whose latest word, as observed, is a rejection

reader == <<link, wait, pause, delivered, seen>>
watch == <<silent, state>>
timers == <<beat, read>>
loop == <<pc, beating, spent, leg, started, want, last, timers, tainted>>
vars == <<reader, rx, watch, loop>>

-----------------------------------------------------------------------------
Least(a, b) == IF a < b THEN a ELSE b
Less(n) == IF n = 0 THEN 0 ELSE n - 1
Aged(n, cap) == IF n = None THEN None ELSE Least(n + 1, cap)

Reject == {"NotNewer", "NonPositive", "FromFuture", "Stale", "WideConfidence"}

Events ==
    [kind : {"Connected", "Disconnected"}]
    \union [kind : {"Price"}, id : Legs]
    \union [kind : {"Rejected"}, id : Legs, reason : Reject]

\* The confidence interval in basis points of the price, rounded up.
conf_bps(conf, price) == (conf * BPS_DENOM + price - 1) \div price

\* The policy on a sample: the first of its checks that fails.
check(s) ==
    IF s.price <= 0 THEN "NonPositive"
    ELSE IF s.age < 0 /\ -s.age > ClockSkew THEN "FromFuture"
    ELSE IF s.age > MaxAge THEN "Stale"
    ELSE IF conf_bps(s.conf, s.price) > MaxConfBps THEN "WideConfidence"
    ELSE "Ok"

-----------------------------------------------------------------------------
(* The reader.                                                              *)

Send(event) == Len(rx) < MaxQueue /\ rx' = Append(rx, event)

NotNewer(s) == seen[s.id] # None /\ s.age >= seen[s.id]

\* The replay guard, then the policy: a sample it refuses counts as seen as well.
judge(s) ==
    IF NotNewer(s)
    THEN /\ Send([kind |-> "Rejected", id |-> s.id, reason |-> "NotNewer"])
         /\ seen' = seen
    ELSE /\ seen' = [seen EXCEPT ![s.id] = s.age]
         /\ IF check(s) = "Ok"
            THEN Send([kind |-> "Price", id |-> s.id])
            ELSE Send([kind |-> "Rejected", id |-> s.id, reason |-> check(s)])

Sample(s) ==
    /\ link = "open"
    /\ judge(s)
    /\ delivered' = TRUE
    /\ UNCHANGED <<link, wait, pause, watch, loop>>

\* What parse_event makes of an event that it can read, one entry at a time: the channel
\* takes them one by one, and an event it cannot read is skipped.
Samples == {[id |-> f, price |-> o[1], conf |-> o[2], age |-> a] :
                f \in Legs, o \in Offers, a \in Ages}

Connect ==
    /\ link = "asleep" /\ wait = 0
    /\ link' = "open"
    /\ delivered' = FALSE
    /\ Send([kind |-> "Connected"])
    /\ UNCHANGED <<wait, pause, seen, watch, loop>>

\* The stream breaks, or did not open: back to the shortest pause only if the
\* session delivered something.
\* A slip: the pause doubles with no end.
BrokenUncapped(fruitful) ==
    LET this == IF fruitful THEN MinPause ELSE pause IN
    /\ Send([kind |-> "Disconnected"])
    /\ link' = "asleep"
    /\ wait' = this
    /\ pause' = 2 * this
    /\ UNCHANGED <<seen, watch, loop>>

Broken(fruitful) ==
    LET this == IF fruitful THEN MinPause ELSE pause IN
    /\ Send([kind |-> "Disconnected"])
    /\ link' = "asleep"
    /\ wait' = this
    /\ pause' = Least(2 * this, MaxPause)
    /\ UNCHANGED <<seen, watch, loop>>

Disconnect == link = "open" /\ Broken(delivered) /\ delivered' = FALSE
ConnectFails == link = "asleep" /\ wait = 0 /\ Broken(FALSE) /\ UNCHANGED delivered

ReaderDies ==
    /\ link # "ended"
    /\ link' = "ended" /\ wait' = 0
    /\ UNCHANGED <<pause, delivered, seen, rx, watch, loop>>

-----------------------------------------------------------------------------
(* The watch.                                                               *)

\* A slip: only a live price has a deadline, and the wait for the first one none.
SilenceDueIfLive == state = "Live" /\ silent >= Bound

SilenceDue == state # "Withdrawn" /\ silent >= Bound

\* wake_at has come: a read, or the heartbeat of a quote that is wanted.
TimerDue == read = 0 \/ (want = "Quote" /\ last = "Posted" /\ beat = 0)

Waiting == pc = "wait" /\ pc' = "wait" /\ UNCHANGED <<beating, spent>>
Enter(stage, heartbeat) == pc' = stage /\ beating' = heartbeat /\ spent' = 0

\* A slip: a leg that had a price once counts.
FreshOnce(l, f) == l[f] # None

Fresh(l, f) == l[f] # None /\ l[f] < Bound
\* The mid of the legs: to be had, not yet to be had, or out of the question.
Mid(l) ==
    IF \A f \in Legs : Fresh(l, f) THEN "Ready"
    ELSE IF \A f \in Legs : Fresh(l, f) \/ (l[f] = None /\ started < Bound) THEN "Waiting"
    ELSE "Withdraw"

\* The rule's edge: a withdrawal is sent once.
withdraw == want' = "Off" /\ last' = "Withdrawn"

\* Ask the model about the mid, if there is one; after is where the pass goes if not.
price_and_post(l, heartbeat, after) ==
    CASE Mid(l) = "Ready" -> Enter("model", heartbeat) /\ want' = "Quote" /\ last' = last
      [] Mid(l) = "Waiting" -> Enter(after, FALSE) /\ want' = "Quote" /\ last' = last
      [] Mid(l) = "Withdraw" -> Enter(after, FALSE) /\ withdraw

\* While withdrawn the silence has no deadline, and nothing reads its length.
Withdrawn == state' = "Withdrawn" /\ silent' = 0

Silence ==
    /\ pc = "wait" /\ SilenceDue
    /\ Withdrawn
    /\ withdraw
    /\ Enter("read", FALSE)
    /\ UNCHANGED <<reader, rx, leg, started, timers, tainted>>

Timer ==
    /\ pc = "wait" /\ ~SilenceDue /\ TimerDue
    /\ Enter("read", FALSE)
    /\ UNCHANGED <<reader, rx, watch, leg, started, want, last, timers, tainted>>

Reading == pc = "wait" /\ ~SilenceDue /\ ~TimerDue

on_price(f) ==
    /\ silent' = 0 /\ state' = "Live"
    /\ leg' = [leg EXCEPT ![f] = 0]
    /\ tainted' = tainted \ {f}
    /\ price_and_post(leg', FALSE, "read")
    /\ UNCHANGED <<started, timers>>

\* A withdrawal is reported once; a second reason for it is not news.
on_withdrawal ==
    /\ IF state = "Withdrawn" THEN Waiting /\ UNCHANGED <<watch, want, last>>
       ELSE Withdrawn /\ withdraw /\ Enter("read", FALSE)
    /\ UNCHANGED <<leg, started, timers>>

\* A slip: a rejected sample is no price, and nothing more.
ObserveRejectedAsNothing(event) ==
    CASE event.kind = "Price" -> on_price(event.id)
      [] event.kind = "Rejected" /\ event.reason # "NotNewer" ->
            /\ Waiting
            /\ tainted' = tainted \union {event.id}
            /\ UNCHANGED <<watch, leg, started, want, last, timers>>
      [] OTHER -> Waiting /\ UNCHANGED <<watch, leg, started, want, last, timers, tainted>>

observe(event) ==
    CASE event.kind = "Price" -> on_price(event.id)
      [] event.kind = "Rejected" /\ event.reason # "NotNewer" ->
            /\ on_withdrawal
            /\ tainted' = tainted \union {event.id}
      [] OTHER -> Waiting /\ UNCHANGED <<watch, leg, started, want, last, timers, tainted>>

Receive ==
    /\ Reading /\ rx # <<>>
    /\ rx' = Tail(rx)
    /\ observe(Head(rx))
    /\ UNCHANGED reader

\* The channel is closed and drained: withdraw, and end the loop the next time.
reader_gone ==
    /\ Reading /\ rx = <<>> /\ link = "ended"
    /\ IF state = "Withdrawn"
       THEN Enter("gone", FALSE) /\ UNCHANGED <<watch, leg, started, want, last, timers>>
       ELSE on_withdrawal
    /\ UNCHANGED <<reader, rx, tainted>>

-----------------------------------------------------------------------------
(* The rest of a pass.                                                      *)

\* The model answered in time: the rule posts the quote, or holds the one on the book
\* if that is near enough and its heartbeat not yet up.
Quoted ==
    /\ pc = "model"
    /\ \/ last' = "Posted" /\ beat' = Heartbeat
       \/ last = "Posted" /\ beat > 0 /\ UNCHANGED <<last, beat>>
    /\ Enter(IF beating THEN "wait" ELSE "read", FALSE)
    /\ UNCHANGED <<reader, rx, watch, leg, started, want, read, tainted>>

ModelWithdraws ==
    /\ pc = "model"
    /\ withdraw
    /\ Enter(IF beating THEN "wait" ELSE "read", FALSE)
    /\ UNCHANGED <<reader, rx, watch, leg, started, timers, tainted>>

\* No answer, or one past the budget: the quote on the book stays.
Skip ==
    /\ pc = "model"
    /\ Enter(IF beating THEN "wait" ELSE "read", FALSE)
    /\ UNCHANGED <<reader, rx, watch, leg, started, want, last, timers, tainted>>

HeartbeatDue == want = "Quote" /\ last = "Posted" /\ beat = 0

\* A slip: a failed read is due again at once.
HousekeepingNoRetry ==
    /\ pc = "read"
    /\ IF read > 0 THEN read' = read ELSE read' \in {Heartbeat, 0}
    /\ IF HeartbeatDue THEN price_and_post(leg, TRUE, "wait")
       ELSE Enter("wait", FALSE) /\ UNCHANGED <<want, last>>
    /\ UNCHANGED <<reader, rx, watch, leg, started, beat, tainted>>

housekeeping ==
    /\ pc = "read"
    /\ IF read > 0 THEN read' = read ELSE read' \in {Heartbeat, Retry}
    /\ IF HeartbeatDue THEN price_and_post(leg, TRUE, "wait")
       ELSE Enter("wait", FALSE) /\ UNCHANGED <<want, last>>
    /\ UNCHANGED <<reader, rx, watch, leg, started, beat, tainted>>

\* Time passes: in a stage of a pass up to Busy, while waiting until something is due.
MayPass ==
    CASE pc = "wait" -> ~SilenceDue /\ ~TimerDue /\ rx = <<>> /\ link # "ended"
      [] pc = "gone" -> FALSE
      [] OTHER -> spent < Busy

Tick ==
    /\ MayPass
    /\ wait' = Less(wait)
    /\ seen' = [f \in Legs |-> Aged(seen[f], Forgotten)]
    /\ silent' = IF state = "Withdrawn" THEN silent ELSE silent + 1
    /\ spent' = IF pc = "wait" THEN spent ELSE spent + 1
    /\ leg' = [f \in Legs |-> Aged(leg[f], LegLimit + 1)]
    /\ started' = Least(started + 1, Bound)
    /\ beat' = Less(beat) /\ read' = Less(read)
    /\ UNCHANGED <<link, pause, delivered, rx, state, pc, beating, want, last, tainted>>

-----------------------------------------------------------------------------
\* Reader::new and the thread it is given: the first session is due at once.
ReaderInit ==
    /\ link = "asleep" /\ wait = 0 /\ pause = MinPause /\ delivered = FALSE
    /\ seen = [f \in Legs |-> None]
    /\ rx = <<>>

\* The silence clock starts before the first price, not after it.
WatchInit == silent = 0 /\ state = "Pending"

\* An earlier run may have left a quote on the book: what it shows is not known.
LoopInit ==
    /\ pc = "wait" /\ beating = FALSE /\ spent = 0
    /\ leg = [f \in Legs |-> None]
    /\ started = 0
    /\ want = "Quote" /\ last = "Unknown"
    /\ beat = 0 /\ read = Heartbeat
    /\ tainted = {}

Init == ReaderInit /\ WatchInit /\ LoopInit

Pass == Silence \/ Timer \/ Receive \/ reader_gone
        \/ Quoted \/ ModelWithdraws \/ Skip \/ housekeeping

Next ==
    \/ Connect \/ Disconnect \/ ConnectFails \/ ReaderDies
    \/ \E s \in Samples : Sample(s)
    \/ Pass
    \/ Tick

\* The loop is a thread of its own and every call it makes ends; time goes on by itself.
Fairness == WF_vars(Pass) /\ SF_vars(Tick)

Spec == Init /\ [][Next]_vars
LiveSpec == Spec /\ Fairness

-----------------------------------------------------------------------------
TypeOK ==
    /\ link \in {"open", "asleep", "ended"}
    /\ wait \in 0..MaxPause /\ pause \in MinPause..MaxPause
    /\ delivered \in BOOLEAN
    /\ seen \in [Legs -> Int \union {None}]
    /\ rx \in Seq(Events)
    /\ silent \in Nat /\ state \in {"Pending", "Live", "Withdrawn"}
    /\ pc \in {"wait", "model", "read", "gone"}
    /\ beating \in BOOLEAN /\ spent \in 0..Busy
    /\ leg \in [Legs -> 0..(LegLimit + 1) \union {None}]
    /\ started \in 0..Bound
    /\ want \in {"Quote", "Off"} /\ last \in {"Unknown", "Posted", "Withdrawn"}
    /\ beat \in 0..Heartbeat /\ read \in Nat
    /\ tainted \subseteq Legs

\* No quote outlives a silence (FR-014): whatever the reader and the model do and however
\* long the node takes, as long as it takes what is sent, a quote of this run, or one left
\* by an earlier run, has a usable price behind it that is younger than the silence bound
\* and one pass of the loop.  The abstract specification is a switch that falls by itself.
Switch == INSTANCE Deadman WITH up <- last # "Withdrawn", Limit <- SilenceLimit,
                              age <- IF state = "Withdrawn" THEN SilenceLimit + 1 ELSE silent
ImplementsDeadman == Switch!Spec

\* A leg of the mid goes quiet behind the other's back for a bound and what a silence
\* takes, no longer: every price asks for the mid anew, and every leg must be fresh then.
LegsBounded == last = "Posted" => \A f \in Legs : leg[f] # None /\ leg[f] <= LegLimit

\* When the last word on every leg is a rejection, there is no quote of this engine: no
\* heartbeat, read or late answer of the model brings it back before a usable price.
RejectedIsOff == tainted = Legs => last = "Withdrawn" /\ want = "Off"

\* While a heartbeat is due and the model skips, the timer fires before the channel is
\* read, on every pass; the events in it are read all the same, again and again.
EventsAreRead == []<>(rx = <<>> \/ pc = "gone") \/ []<><<Receive>>_vars

\* "A rejected sample is the feed telling us this price is unusable now ... so the quote
\* goes off the book immediately": no quote goes out on a leg whose last word is a rejection.
RejectedStaysOff == [][(Quoted /\ last' # last) => tainted = {}]_vars

=============================================================================
