----------------------------- MODULE FeedProofs -----------------------------
(***************************************************************************)
(* The road of a price for any number of legs, any policy and any length of *)
(* the silence bound, the timers and the stages of a pass: no quote         *)
(* outlives a silence, no leg goes quiet for long behind the others, and    *)
(* what is rejected is off.                                                 *)
(***************************************************************************)
EXTENDS Feed, TLAPS

\* How long the silence was at most when the stage of a pass began.
Begun ==
    IF pc = "read" THEN Bound - 1 + Busy
    ELSE IF beating THEN Bound - 1 + 2 * Busy
    ELSE Bound - 1

\* The silence behind a quote: a pass begins before it is due, and what is due is
\* looked at first thing after the pass.
SilenceBounded ==
    state # "Withdrawn" =>
        silent <= (IF pc = "wait" THEN SilenceLimit ELSE Begun + spent)

\* A price that the model is asked about, or that was posted, had every leg fresh in a
\* pass that began with the last usable price, or later.
LegsBehind ==
    last = "Posted" \/ pc = "model" =>
        \A f \in Legs : leg[f] # None /\ leg[f] <= Bound - 1 + silent

\* A withdrawn state is a withdrawn quote, whatever the pass still does.
Down == state = "Withdrawn" => last = "Withdrawn" /\ want = "Off" /\ pc # "model"

Rejection == tainted = Legs => state = "Withdrawn"

ReaderTyped ==
    /\ link \in {"open", "asleep", "ended"}
    /\ wait \in 0..MaxPause /\ pause \in MinPause..MaxPause
    /\ delivered \in BOOLEAN
    /\ seen \in [Legs -> Int \union {None}]

LegTyped == leg \in [Legs -> 0..(LegLimit + 1) \union {None}]
WatchTyped == silent \in Nat /\ state \in {"Pending", "Live", "Withdrawn"}
StageTyped ==
    /\ pc \in {"wait", "model", "read", "gone"}
    /\ beating \in BOOLEAN /\ spent \in 0..Busy
RuleTyped == want \in {"Quote", "Off"} /\ last \in {"Unknown", "Posted", "Withdrawn"}
TimersTyped == beat \in 0..Heartbeat /\ read \in Nat /\ started \in 0..Bound

LoopTyped ==
    /\ LegTyped /\ WatchTyped /\ StageTyped /\ RuleTyped /\ TimersTyped
    /\ tainted \subseteq Legs

Promise == SilenceBounded /\ LegsBehind /\ Down /\ Rejection

IInv == ReaderTyped /\ rx \in Seq(Events) /\ LoopTyped /\ Promise

\* The parts are the types.
LEMMA Typed == IInv => TypeOK
  BY DEF IInv, TypeOK, ReaderTyped, LoopTyped, LegTyped, WatchTyped, StageTyped,
         RuleTyped, TimersTyped

\* What the constants come to.
LEMMA Lengths ==
    /\ Bound \in Nat \ {0} /\ Busy \in Nat \ {0} /\ Heartbeat \in Nat \ {0}
    /\ Retry \in Nat \ {0}
    /\ SilenceLimit \in Nat /\ SilenceLimit = Bound - 1 + 3 * Busy
    /\ LegLimit \in Nat /\ LegLimit = Bound - 1 + SilenceLimit
    /\ None \notin Int
  BY FeedAssumption, SMT DEF SilenceLimit, LegLimit, PassTime

\* The reader, the sending of samples and the clock are not the loop's affair.
LEMMA LoopStands ==
    ASSUME IInv, UNCHANGED <<watch, loop>>
    PROVE  LoopTyped' /\ Promise'
  <1>1. /\ silent' = silent /\ state' = state /\ pc' = pc /\ beating' = beating
        /\ spent' = spent /\ leg' = leg /\ started' = started /\ want' = want
        /\ last' = last /\ beat' = beat /\ read' = read /\ tainted' = tainted
    BY DEF watch, loop, timers
  <1>2. LoopTyped'
    BY <1>1 DEF IInv, LoopTyped, LegTyped, WatchTyped, StageTyped, RuleTyped, TimersTyped
  <1>3. Promise'
    BY <1>1 DEF IInv, Promise, SilenceBounded, Begun, LegsBehind, Down, Rejection
  <1> QED
    BY <1>2, <1>3

-----------------------------------------------------------------------------
(* The reader.                                                              *)

\* The channel holds events.
LEMMA SendTyped ==
    ASSUME rx \in Seq(Events), NEW e \in Events, Send(e)
    PROVE  rx' \in Seq(Events)
  BY SMT DEF Send

LEMMA SampleTyped ==
    ASSUME NEW s \in Samples
    PROVE  s.id \in Legs /\ s.age \in Int
  BY FeedAssumption DEF Samples

\* A sample that is not accepted is refused for a reason.
LEMMA VerdictTyped ==
    ASSUME NEW s, check(s) # "Ok"
    PROVE  check(s) \in Reject
  BY DEF check, Reject

\* The reader judges a sample.
LEMMA SampleKeeps ==
    ASSUME IInv, NEW s \in Samples, Sample(s)
    PROVE  ReaderTyped' /\ rx' \in Seq(Events)
  <1>1. s.id \in Legs /\ s.age \in Int
    BY SampleTyped
  <1>2. /\ judge(s) /\ delivered' = TRUE
        /\ link' = link /\ wait' = wait /\ pause' = pause
    BY DEF Sample
  <1>3. seen \in [Legs -> Int \union {None}] /\ rx \in Seq(Events)
    BY DEF IInv, ReaderTyped
  <1>4. seen' \in [Legs -> Int \union {None}] /\ rx' \in Seq(Events)
    <2>1. CASE NotNewer(s)
      <3> DEFINE e == [kind |-> "Rejected", id |-> s.id, reason |-> "NotNewer"]
      <3>1. e \in Events
        BY <1>1 DEF Events, Reject
      <3>2. Send(e) /\ seen' = seen
        BY <1>2, <2>1 DEF judge
      <3> HIDE DEF e
      <3> QED
        BY <1>3, <3>1, <3>2, SendTyped
    <2>2. CASE ~NotNewer(s)
      <3>1. seen' = [seen EXCEPT ![s.id] = s.age]
        BY <1>2, <2>2 DEF judge
      <3>2. seen' \in [Legs -> Int \union {None}]
        BY <1>1, <1>3, <3>1
      <3>3. CASE check(s) = "Ok"
        <4> DEFINE e == [kind |-> "Price", id |-> s.id]
        <4>1. e \in Events
          BY <1>1 DEF Events
        <4>2. Send(e)
          BY <1>2, <2>2, <3>3 DEF judge
        <4> HIDE DEF e
        <4> QED
          BY <1>3, <3>2, <4>1, <4>2, SendTyped
      <3>4. CASE check(s) # "Ok"
        <4> DEFINE e == [kind |-> "Rejected", id |-> s.id, reason |-> check(s)]
        <4>1. e \in Events
          BY <1>1, <3>4, VerdictTyped DEF Events
        <4>2. Send(e)
          BY <1>2, <2>2, <3>4 DEF judge
        <4> HIDE DEF e
        <4> QED
          BY <1>3, <3>2, <4>1, <4>2, SendTyped
      <3> QED
        BY <3>3, <3>4
    <2> QED
      BY <2>1, <2>2
  <1> QED
    BY <1>2, <1>4 DEF IInv, ReaderTyped

\* A pause doubles up to its limit.
LEMMA BrokenKeeps ==
    ASSUME IInv, NEW fruitful \in BOOLEAN, Broken(fruitful), delivered' \in BOOLEAN
    PROVE  ReaderTyped' /\ rx' \in Seq(Events)
  <1> DEFINE this == IF fruitful THEN MinPause ELSE pause
             e == [kind |-> "Disconnected"]
  <1>1. /\ Send(e) /\ link' = "asleep" /\ wait' = this
        /\ pause' = Least(2 * this, MaxPause) /\ seen' = seen
    BY DEF Broken
  <1>2. e \in Events
    BY DEF Events
  <1>3. pause \in MinPause..MaxPause
    BY DEF IInv, ReaderTyped
  <1>4. this \in MinPause..MaxPause /\ this \in 0..MaxPause
    BY <1>3, FeedAssumption, SMT
  <1> HIDE DEF this, e
  <1>5. pause' \in MinPause..MaxPause
    BY <1>1, <1>4, FeedAssumption, SMT DEF Least
  <1>6. rx' \in Seq(Events)
    BY <1>1, <1>2, SendTyped DEF IInv
  <1> QED
    BY <1>1, <1>4, <1>5, <1>6 DEF IInv, ReaderTyped

\* The reader connects, fails, sleeps and ends.
LEMMA ReaderKeeps ==
    ASSUME IInv, Connect \/ Disconnect \/ ConnectFails \/ ReaderDies
    PROVE  IInv'
  <1>1. LoopTyped' /\ Promise'
    BY LoopStands DEF Connect, Disconnect, ConnectFails, Broken, ReaderDies
  <1>2. ReaderTyped' /\ rx' \in Seq(Events)
    <2>1. CASE Connect
      <3> DEFINE e == [kind |-> "Connected"]
      <3>1. e \in Events
        BY DEF Events
      <3>2. /\ Send(e) /\ link' = "open" /\ delivered' = FALSE
            /\ wait' = wait /\ pause' = pause /\ seen' = seen
        BY <2>1 DEF Connect
      <3> HIDE DEF e
      <3>3. rx' \in Seq(Events)
        BY <3>1, <3>2, SendTyped DEF IInv
      <3> QED
        BY <3>2, <3>3 DEF IInv, ReaderTyped
    <2>2. CASE Disconnect
      BY <2>2, BrokenKeeps DEF Disconnect, IInv, ReaderTyped
    <2>3. CASE ConnectFails
      BY <2>3, BrokenKeeps DEF ConnectFails, IInv, ReaderTyped
    <2>4. CASE ReaderDies
      <3>1. 0 \in 0..MaxPause
        BY FeedAssumption, SMT
      <3> QED
        BY <2>4, <3>1 DEF ReaderDies, IInv, ReaderTyped
    <2> QED
      BY <2>1, <2>2, <2>3, <2>4
  <1> QED
    BY <1>1, <1>2 DEF IInv

-----------------------------------------------------------------------------
(* The loop.                                                                *)

\* What the three kinds of mid say of the legs.
LEMMA MidMeans ==
    ASSUME NEW l
    PROVE  /\ Mid(l) \in {"Ready", "Waiting", "Withdraw"}
           /\ Mid(l) = "Ready" => \A f \in Legs : Fresh(l, f)
           /\ Mid(l) = "Waiting" => \A f \in Legs : Fresh(l, f) \/ l[f] = None
  BY DEF Mid

\* Asked for a mid, the legs are all fresh, or the model is not asked; and a quote stays
\* posted only if they are.
LEMMA AskedFresh ==
    ASSUME RuleTyped, NEW l, NEW heartbeat \in BOOLEAN, NEW after \in {"read", "wait"},
           last = "Posted" => \A f \in Legs : l[f] # None,
           price_and_post(l, heartbeat, after)
    PROVE  /\ RuleTyped' /\ StageTyped' /\ spent' = 0
           /\ pc' = after \/ (pc' = "model" /\ beating' = heartbeat)
           /\ last' = "Posted" \/ pc' = "model" => \A f \in Legs : Fresh(l, f)
  <1>0. 0 \in 0..Busy
    BY Lengths, SMT
  <1>1. CASE Mid(l) = "Ready"
    <2>1. Enter("model", heartbeat) /\ want' = "Quote" /\ last' = last
      BY <1>1 DEF price_and_post
    <2> QED
      BY <1>0, <1>1, <2>1, MidMeans DEF Enter, RuleTyped, StageTyped
  <1>2. CASE Mid(l) = "Waiting"
    <2>1. Enter(after, FALSE) /\ want' = "Quote" /\ last' = last
      BY <1>2 DEF price_and_post
    <2>2. last = "Posted" => \A f \in Legs : Fresh(l, f)
      BY <1>2, MidMeans
    <2> QED
      BY <1>0, <2>1, <2>2 DEF Enter, RuleTyped, StageTyped
  <1>3. CASE Mid(l) = "Withdraw"
    <2>1. Enter(after, FALSE) /\ withdraw
      BY <1>3 DEF price_and_post
    <2> QED
      BY <1>0, <2>1 DEF Enter, withdraw, RuleTyped, StageTyped
  <1> QED
    BY <1>1, <1>2, <1>3, MidMeans

\* A leg is fresh as it is looked at, so it is not older than the bound and the silence.
LEMMA FreshBehind ==
    ASSUME NEW l \in [Legs -> 0..(LegLimit + 1) \union {None}], NEW f \in Legs,
           Fresh(l, f), NEW s \in Nat
    PROVE  l[f] # None /\ l[f] <= Bound - 1 + s
  <1>1. l[f] \in 0..(LegLimit + 1) /\ l[f] < Bound /\ l[f] # None
    BY DEF Fresh
  <1> QED
    BY <1>1, Lengths, SMT

\* A usable price starts the silence anew.
LEMMA PriceKeeps ==
    ASSUME IInv, NEW f \in Legs, on_price(f)
    PROVE  LoopTyped' /\ Promise'
  <1>1. /\ silent' = 0 /\ state' = "Live"
        /\ leg' = [leg EXCEPT ![f] = 0] /\ tainted' = tainted \ {f}
        /\ price_and_post(leg', FALSE, "read")
        /\ started' = started /\ beat' = beat /\ read' = read
    BY DEF on_price, timers
  <1>2. LegTyped' /\ leg' \in [Legs -> 0..(LegLimit + 1) \union {None}]
    <2>1. 0 \in 0..(LegLimit + 1)
      BY Lengths, SMT
    <2> QED
      BY <1>1, <2>1 DEF IInv, LoopTyped, LegTyped
  <1>3. last = "Posted" => \A g \in Legs : leg'[g] # None
    <2>1. 0 # None
      BY Lengths
    <2>2. leg \in [Legs -> 0..(LegLimit + 1) \union {None}]
      BY DEF IInv, LoopTyped, LegTyped
    <2> QED
      BY <1>1, <2>1, <2>2 DEF IInv, Promise, LegsBehind
  <1>4. /\ RuleTyped' /\ StageTyped' /\ spent' = 0
        /\ pc' = "read" \/ (pc' = "model" /\ beating' = FALSE)
        /\ last' = "Posted" \/ pc' = "model" => \A g \in Legs : Fresh(leg', g)
    <2> DEFINE l == leg'
    <2>1. price_and_post(l, FALSE, "read") /\ (last = "Posted" => \A g \in Legs : l[g] # None)
      BY <1>1, <1>3
    <2>2. RuleTyped
      BY DEF IInv, LoopTyped
    <2> HIDE DEF l
    <2>3. /\ RuleTyped' /\ StageTyped' /\ spent' = 0
          /\ pc' = "read" \/ (pc' = "model" /\ beating' = FALSE)
          /\ last' = "Posted" \/ pc' = "model" => \A g \in Legs : Fresh(l, g)
      BY <2>1, <2>2, AskedFresh
    <2> QED
      BY <2>3 DEF l
  <1>5. LoopTyped'
    <2>1. WatchTyped'
      BY <1>1, SMT DEF WatchTyped
    <2>2. TimersTyped' /\ tainted' \subseteq Legs
      BY <1>1 DEF IInv, LoopTyped, TimersTyped
    <2> QED
      BY <1>2, <1>4, <2>1, <2>2 DEF LoopTyped
  <1>6. SilenceBounded'
    BY <1>1, <1>4, Lengths, SMT DEF SilenceBounded, Begun
  <1>7. LegsBehind'
    BY <1>1, <1>2, <1>4, FreshBehind, 0 \in Nat DEF LegsBehind
  <1>8. Down' /\ Rejection'
    BY <1>1 DEF Down, Rejection
  <1> QED
    BY <1>5, <1>6, <1>7, <1>8 DEF Promise

\* The watch withdraws: the quote goes with it, and so does all that is promised of one.
LEMMA WithdrawnKeeps ==
    ASSUME IInv, Withdrawn, withdraw, Enter("read", FALSE),
           UNCHANGED <<leg, started, timers>>, tainted' \subseteq Legs
    PROVE  LoopTyped' /\ Promise'
  <1>1. /\ state' = "Withdrawn" /\ silent' = 0 /\ want' = "Off" /\ last' = "Withdrawn"
        /\ pc' = "read" /\ beating' = FALSE /\ spent' = 0
        /\ leg' = leg /\ started' = started /\ beat' = beat /\ read' = read
    BY DEF Withdrawn, withdraw, Enter, timers
  <1>2. 0 \in Nat /\ 0 \in 0..Busy
    BY Lengths, SMT
  <1>3. LoopTyped'
    BY <1>1, <1>2
       DEF IInv, LoopTyped, LegTyped, WatchTyped, StageTyped, RuleTyped, TimersTyped
  <1>4. Promise'
    BY <1>1 DEF Promise, SilenceBounded, LegsBehind, Down, Rejection
  <1> QED
    BY <1>3, <1>4

\* A second reason to withdraw is not news.
LEMMA WithdrawalKeeps ==
    ASSUME IInv, pc = "wait", on_withdrawal, tainted' \subseteq Legs
    PROVE  LoopTyped' /\ Promise'
  <1>1. CASE state = "Withdrawn"
    <2>1. /\ pc' = "wait" /\ beating' = beating /\ spent' = spent
          /\ silent' = silent /\ state' = state /\ want' = want /\ last' = last
          /\ leg' = leg /\ started' = started /\ beat' = beat /\ read' = read
      BY <1>1 DEF on_withdrawal, Waiting, watch, timers
    <2>2. LoopTyped'
      BY <2>1 DEF IInv, LoopTyped, LegTyped, WatchTyped, StageTyped, RuleTyped, TimersTyped
    <2>3. Promise'
      BY <1>1, <2>1 DEF IInv, Promise, SilenceBounded, LegsBehind, Down, Rejection
    <2> QED
      BY <2>2, <2>3
  <1>2. CASE state # "Withdrawn"
    BY <1>2, WithdrawnKeeps DEF on_withdrawal
  <1> QED
    BY <1>1, <1>2

\* The watch and the loop take an event.
LEMMA ObserveKeeps ==
    ASSUME IInv, pc = "wait", NEW event \in Events, observe(event)
    PROVE  LoopTyped' /\ Promise'
  <1>1. CASE event.kind = "Price"
    <2>1. event.id \in Legs
      BY <1>1 DEF Events
    <2>2. on_price(event.id)
      BY <1>1 DEF observe
    <2> QED
      BY <2>1, <2>2, PriceKeeps
  <1>2. CASE event.kind = "Rejected" /\ event.reason # "NotNewer"
    <2>1. event.id \in Legs
      BY <1>2 DEF Events
    <2>2. on_withdrawal /\ tainted' = tainted \union {event.id}
      BY <1>2 DEF observe
    <2>3. tainted' \subseteq Legs
      BY <2>1, <2>2 DEF IInv, LoopTyped
    <2> QED
      BY <2>2, <2>3, WithdrawalKeeps
  <1>3. CASE event.kind # "Price" /\ ~(event.kind = "Rejected" /\ event.reason # "NotNewer")
    <2>1. Waiting /\ UNCHANGED <<watch, leg, started, want, last, timers, tainted>>
      BY <1>3 DEF observe
    <2> QED
      BY <2>1, LoopStands DEF Waiting, loop
  <1> QED
    BY <1>1, <1>2, <1>3

\* What ends a wait.
LEMMA WaitKeeps ==
    ASSUME IInv, Silence \/ Timer \/ Receive \/ reader_gone
    PROVE  IInv'
  <1>1. CASE Silence
    <2>1. tainted' \subseteq Legs
      BY <1>1 DEF Silence, IInv, LoopTyped
    <2>2. LoopTyped' /\ Promise'
      BY <1>1, <2>1, WithdrawnKeeps DEF Silence
    <2> QED
      BY <1>1, <2>2 DEF Silence, IInv, ReaderTyped, reader
  <1>2. CASE Timer
    <2>1. /\ pc = "wait" /\ ~SilenceDue /\ pc' = "read" /\ beating' = FALSE /\ spent' = 0
          /\ silent' = silent /\ state' = state /\ leg' = leg /\ started' = started
          /\ want' = want /\ last' = last /\ beat' = beat /\ read' = read
          /\ tainted' = tainted
      BY <1>2 DEF Timer, Enter, watch, timers
    <2>2. 0 \in 0..Busy
      BY Lengths, SMT
    <2>3. LoopTyped'
      BY <2>1, <2>2
         DEF IInv, LoopTyped, LegTyped, WatchTyped, StageTyped, RuleTyped, TimersTyped
    <2>4. SilenceBounded'
      <3>1. silent \in Nat
        BY DEF IInv, LoopTyped, WatchTyped
      <3> QED
        BY <2>1, <3>1, Lengths, SMT DEF SilenceDue, SilenceBounded, Begun
    <2>5. LegsBehind' /\ Down' /\ Rejection'
      BY <2>1 DEF IInv, Promise, LegsBehind, Down, Rejection
    <2> QED
      BY <1>2, <2>3, <2>4, <2>5 DEF Timer, IInv, ReaderTyped, reader, Promise
  <1>3. CASE Receive
    <2>1. /\ pc = "wait" /\ rx # <<>> /\ rx' = Tail(rx) /\ observe(Head(rx))
          /\ UNCHANGED reader
      BY <1>3 DEF Receive, Reading
    <2>2. Head(rx) \in Events /\ rx' \in Seq(Events)
      BY <2>1, SMT DEF IInv
    <2>3. LoopTyped' /\ Promise'
      BY <2>1, <2>2, ObserveKeeps
    <2> QED
      BY <2>1, <2>2, <2>3 DEF IInv, ReaderTyped, reader
  <1>4. CASE reader_gone
    <2>1. pc = "wait" /\ tainted' \subseteq Legs
      BY <1>4 DEF reader_gone, Reading, IInv, LoopTyped
    <2>2. LoopTyped' /\ Promise'
      <3>1. CASE state = "Withdrawn"
        <4>1. /\ pc' = "gone" /\ beating' = FALSE /\ spent' = 0 /\ tainted' = tainted
              /\ silent' = silent /\ state' = state /\ want' = want /\ last' = last
              /\ leg' = leg /\ started' = started /\ beat' = beat /\ read' = read
          BY <1>4, <3>1 DEF reader_gone, Enter, watch, timers
        <4>2. 0 \in 0..Busy
          BY Lengths, SMT
        <4>3. LoopTyped'
          BY <4>1, <4>2
             DEF IInv, LoopTyped, LegTyped, WatchTyped, StageTyped, RuleTyped, TimersTyped
        <4>4. Promise'
          BY <3>1, <4>1 DEF IInv, Promise, SilenceBounded, LegsBehind, Down, Rejection
        <4> QED
          BY <4>3, <4>4
      <3>2. CASE state # "Withdrawn"
        BY <1>4, <2>1, <3>2, WithdrawalKeeps DEF reader_gone
      <3> QED
        BY <3>1, <3>2
    <2> QED
      BY <1>4, <2>2 DEF reader_gone, IInv, ReaderTyped, reader
  <1> QED
    BY <1>1, <1>2, <1>3, <1>4

\* The model has answered, or has not: the pass goes on where it was to go.
AfterModel == IF beating THEN "wait" ELSE "read"

\* The model answers, or does not, within a stage.
LEMMA ModelKeeps ==
    ASSUME IInv, Quoted \/ ModelWithdraws \/ Skip
    PROVE  IInv'
  <1>1. /\ pc = "model" /\ pc' = AfterModel /\ beating' = FALSE /\ spent' = 0
        /\ silent' = silent /\ state' = state /\ leg' = leg /\ started' = started
        /\ read' = read /\ tainted' = tainted
        /\ UNCHANGED <<reader, rx>>
    BY DEF Quoted, ModelWithdraws, Skip, Enter, AfterModel, watch, timers
  <1>2. /\ beat' \in {beat, Heartbeat}
        /\ \/ want' = want /\ last' \in {last, "Posted"}
           \/ want' = "Off" /\ last' = "Withdrawn"
    BY DEF Quoted, ModelWithdraws, Skip, withdraw, timers
  <1>3. state # "Withdrawn"
    BY <1>1 DEF IInv, Promise, Down
  <1>4. LoopTyped'
    <2>1. StageTyped'
      <3>1. 0 \in 0..Busy
        BY Lengths, SMT
      <3> QED
        BY <1>1, <3>1 DEF AfterModel, StageTyped
    <2>2. RuleTyped'
      BY <1>2 DEF IInv, LoopTyped, RuleTyped
    <2>3. TimersTyped'
      <3>1. Heartbeat \in 0..Heartbeat
        BY Lengths, SMT
      <3> QED
        BY <1>1, <1>2, <3>1 DEF IInv, LoopTyped, TimersTyped
    <2> QED
      BY <1>1, <2>1, <2>2, <2>3 DEF IInv, LoopTyped, LegTyped, WatchTyped
  <1>5. SilenceBounded'
    <2>1. silent \in Nat /\ spent \in 0..Busy /\ beating \in BOOLEAN
      BY DEF IInv, LoopTyped, WatchTyped, StageTyped
    <2>2. silent <= Begun + spent
      BY <1>1, <1>3 DEF IInv, Promise, SilenceBounded
    <2>3. CASE beating
      <3>1. pc' = "wait" /\ Begun = Bound - 1 + 2 * Busy
        BY <1>1, <2>3 DEF AfterModel, Begun
      <3>2. silent <= SilenceLimit
        BY <2>1, <2>2, <3>1, Lengths, SMT
      <3> QED
        BY <1>1, <3>1, <3>2, Lengths DEF SilenceBounded
    <2>4. CASE ~beating
      <3>1. pc' = "read" /\ Begun = Bound - 1 /\ Begun' = Bound - 1 + Busy
        BY <1>1, <2>4 DEF AfterModel, Begun
      <3>2. silent <= Bound - 1 + Busy + 0
        BY <2>1, <2>2, <3>1, Lengths, SMT
      <3> QED
        BY <1>1, <3>1, <3>2 DEF SilenceBounded
    <2> QED
      BY <2>1, <2>3, <2>4
  <1>6. LegsBehind'
    BY <1>1 DEF IInv, Promise, LegsBehind
  <1>7. Down' /\ Rejection'
    BY <1>1, <1>3 DEF IInv, Promise, Down, Rejection
  <1> QED
    BY <1>1, <1>4, <1>5, <1>6, <1>7 DEF IInv, ReaderTyped, reader, Promise

\* The heartbeat asks for the mid anew.
LEMMA HousekeepingKeeps ==
    ASSUME IInv, housekeeping
    PROVE  IInv'
  <1>1. /\ pc = "read" /\ beat' = beat /\ silent' = silent /\ state' = state /\ leg' = leg
        /\ started' = started /\ tainted' = tainted
        /\ UNCHANGED <<reader, rx>>
        /\ read' = read \/ read' \in {Heartbeat, Retry}
    BY DEF housekeeping, watch
  <1>2. TimersTyped' /\ LegTyped' /\ WatchTyped' /\ tainted' \subseteq Legs
    BY <1>1, Lengths DEF IInv, LoopTyped, TimersTyped, LegTyped, WatchTyped
  <1>3. silent \in Nat /\ spent \in 0..Busy
        /\ (state # "Withdrawn" => silent <= Bound - 1 + Busy + spent)
    BY <1>1 DEF IInv, LoopTyped, WatchTyped, StageTyped, Promise, SilenceBounded, Begun
  <1>4. CASE HeartbeatDue
    <2>1. price_and_post(leg, TRUE, "wait")
      BY <1>4 DEF housekeeping
    <2>2. /\ RuleTyped' /\ StageTyped' /\ spent' = 0
          /\ pc' = "wait" \/ (pc' = "model" /\ beating' = TRUE)
          /\ last' = "Posted" \/ pc' = "model" => \A f \in Legs : Fresh(leg, f)
      BY <2>1, AskedFresh DEF IInv, LoopTyped, Promise, LegsBehind
    <2>3. SilenceBounded'
      <3>1. \/ silent <= Bound - 1 + 2 * Busy /\ silent <= SilenceLimit
            \/ state = "Withdrawn"
        BY <1>3, Lengths, SMT
      <3>2. Bound - 1 + 2 * Busy + 0 = Bound - 1 + 2 * Busy
        BY Lengths, SMT
      <3>3. CASE pc' = "wait"
        BY <1>1, <3>1, <3>3, Lengths DEF SilenceBounded
      <3>4. CASE pc' = "model" /\ beating' = TRUE
        <4>1. Begun' = Bound - 1 + 2 * Busy
          BY <3>4 DEF Begun
        <4> QED
          BY <1>1, <2>2, <3>1, <3>2, <3>4, <4>1 DEF SilenceBounded
      <3> QED
        BY <2>2, <3>3, <3>4
    <2>4. LegsBehind'
      BY <1>1, <1>3, <2>2, FreshBehind DEF IInv, LoopTyped, LegTyped, LegsBehind
    <2>5. Down' /\ Rejection'
      BY <1>1, <1>4 DEF HeartbeatDue, IInv, Promise, Down, Rejection
    <2> QED
      BY <1>1, <1>2, <2>2, <2>3, <2>4, <2>5
         DEF IInv, LoopTyped, ReaderTyped, reader, Promise
  <1>5. CASE ~HeartbeatDue
    <2>1. /\ pc' = "wait" /\ beating' = FALSE /\ spent' = 0 /\ want' = want /\ last' = last
      BY <1>5 DEF housekeeping, Enter
    <2>2. 0 \in 0..Busy
      BY Lengths, SMT
    <2>3. StageTyped' /\ RuleTyped'
      BY <2>1, <2>2 DEF IInv, LoopTyped, StageTyped, RuleTyped
    <2>4. SilenceBounded'
      <3>1. silent <= SilenceLimit \/ state = "Withdrawn"
        BY <1>3, Lengths, SMT
      <3> QED
        BY <1>1, <2>1, <3>1, Lengths DEF SilenceBounded
    <2>5. LegsBehind' /\ Down' /\ Rejection'
      BY <1>1, <2>1 DEF IInv, Promise, LegsBehind, Down, Rejection
    <2> QED
      BY <1>1, <1>2, <2>3, <2>4, <2>5 DEF IInv, LoopTyped, ReaderTyped, reader, Promise
  <1> QED
    BY <1>4, <1>5

-----------------------------------------------------------------------------
(* Time.                                                                    *)

\* An age grows by one at most.
LEMMA AgedTyped ==
    ASSUME NEW n \in Nat \union {None}, NEW cap \in Nat
    PROVE  /\ Aged(n, cap) = None <=> n = None
           /\ n # None => Aged(n, cap) \in 0..cap /\ Aged(n, cap) <= n + 1
  BY Lengths, SMT DEF Aged, Least

LEMMA SeenTyped ==
    ASSUME NEW n \in Int \union {None}
    PROVE  Aged(n, Forgotten) \in Int \union {None}
  <1>1. Forgotten \in Int
    BY FeedAssumption, SMT DEF Forgotten
  <1> QED
    BY <1>1, SMT DEF Aged, Least

LEMMA TickTyped ==
    ASSUME IInv, Tick
    PROVE  ReaderTyped' /\ LoopTyped'
  <1>1. ReaderTyped'
    <2>1. /\ wait' = Less(wait) /\ link' = link /\ pause' = pause /\ delivered' = delivered
          /\ seen' = [f \in Legs |-> Aged(seen[f], Forgotten)]
      BY DEF Tick
    <2>2. wait' \in 0..MaxPause
      BY <2>1, FeedAssumption, SMT DEF IInv, ReaderTyped, Less
    <2>3. seen' \in [Legs -> Int \union {None}]
      BY <2>1, SeenTyped DEF IInv, ReaderTyped
    <2> QED
      BY <2>1, <2>2, <2>3 DEF IInv, ReaderTyped
  <1>2. /\ leg' = [f \in Legs |-> Aged(leg[f], LegLimit + 1)]
        /\ silent' = IF state = "Withdrawn" THEN silent ELSE silent + 1
        /\ spent' = IF pc = "wait" THEN spent ELSE spent + 1
        /\ started' = Least(started + 1, Bound)
        /\ beat' = Less(beat) /\ read' = Less(read)
        /\ state' = state /\ pc' = pc /\ beating' = beating /\ want' = want
        /\ last' = last /\ tainted' = tainted
    BY DEF Tick
  <1>3. LegTyped'
    <2>1. \A f \in Legs : leg[f] \in 0..(LegLimit + 1) \union {None}
      BY DEF IInv, LoopTyped, LegTyped
    <2>2. LegLimit + 1 \in Nat /\ 0..(LegLimit + 1) \subseteq Nat
      BY Lengths, SMT
    <2>3. \A f \in Legs : Aged(leg[f], LegLimit + 1) \in 0..(LegLimit + 1) \union {None}
      BY <2>1, <2>2, AgedTyped
    <2> QED
      BY <1>2, <2>3 DEF LegTyped
  <1>4. WatchTyped'
    BY <1>2, SMT DEF IInv, LoopTyped, WatchTyped
  <1>5. StageTyped'
    <2>1. pc = "wait" \/ spent < Busy
      BY DEF Tick, MayPass
    <2> QED
      BY <1>2, <2>1, Lengths, SMT DEF IInv, LoopTyped, StageTyped
  <1>6. TimersTyped'
    BY <1>2, Lengths, SMT DEF IInv, LoopTyped, TimersTyped, Less, Least
  <1>7. RuleTyped' /\ tainted' \subseteq Legs
    BY <1>2 DEF IInv, LoopTyped, RuleTyped
  <1> QED
    BY <1>1, <1>3, <1>4, <1>5, <1>6, <1>7 DEF LoopTyped

\* Time passes in a stage within its limit, and in a wait until something is due.
LEMMA TickKeeps ==
    ASSUME IInv, Tick
    PROVE  IInv'
  <1>1. /\ leg' = [f \in Legs |-> Aged(leg[f], LegLimit + 1)]
        /\ silent' = IF state = "Withdrawn" THEN silent ELSE silent + 1
        /\ spent' = IF pc = "wait" THEN spent ELSE spent + 1
        /\ state' = state /\ pc' = pc /\ beating' = beating /\ want' = want
        /\ last' = last /\ tainted' = tainted /\ rx' = rx
    BY DEF Tick
  <1>2. silent \in Nat /\ spent \in 0..Busy
    BY DEF IInv, LoopTyped, WatchTyped, StageTyped
  <1>3. SilenceBounded'
    <2> SUFFICES ASSUME state # "Withdrawn"
                 PROVE  silent' <= (IF pc' = "wait" THEN SilenceLimit ELSE Begun' + spent')
      BY <1>1 DEF SilenceBounded
    <2>1. CASE pc = "wait"
      <3>1. silent < Bound
        BY <1>2, <2>1, Lengths, SMT DEF Tick, MayPass, SilenceDue
      <3>2. silent + 1 <= SilenceLimit
        BY <1>2, <3>1, Lengths, SMT
      <3> QED
        BY <1>1, <2>1, <3>2
    <2>2. CASE pc # "wait"
      <3>1. Begun' = Begun /\ Begun \in Int
        <4>1. Begun' = Begun
          BY <1>1 DEF Begun
        <4>2. Begun \in Int
          BY Lengths, SMT DEF Begun
        <4> QED
          BY <4>1, <4>2
      <3>2. silent <= Begun + spent
        BY <2>2 DEF IInv, Promise, SilenceBounded
      <3>3. silent + 1 <= Begun + (spent + 1)
        BY <1>2, <3>1, <3>2, SMT
      <3> QED
        BY <1>1, <2>2, <3>1, <3>3
    <2> QED
      BY <2>1, <2>2
  <1>4. LegsBehind'
    <2> SUFFICES ASSUME last = "Posted" \/ pc = "model", NEW f \in Legs
                 PROVE  leg'[f] # None /\ leg'[f] <= Bound - 1 + silent'
      BY <1>1 DEF LegsBehind
    <2>1. silent' = silent + 1
      BY <1>1 DEF IInv, Promise, Down
    <2>2. leg[f] # None /\ leg[f] <= Bound - 1 + silent
      BY DEF IInv, Promise, LegsBehind
    <2>3. leg[f] \in Nat
      <3>1. leg[f] \in 0..(LegLimit + 1)
        BY <2>2 DEF IInv, LoopTyped, LegTyped
      <3> QED
        BY <3>1, SMT
    <2>4. LegLimit + 1 \in Nat
      BY Lengths, SMT
    <2>5. /\ leg'[f] # None
          /\ leg'[f] \in 0..(LegLimit + 1) /\ leg'[f] <= leg[f] + 1
      BY <1>1, <2>2, <2>3, <2>4, AgedTyped
    <2> QED
      BY <1>2, <2>1, <2>2, <2>3, <2>5, Lengths, SMT
  <1>5. Down' /\ Rejection'
    BY <1>1 DEF IInv, Promise, Down, Rejection
  <1> QED
    BY <1>1, <1>3, <1>4, <1>5, TickTyped DEF IInv, Promise

-----------------------------------------------------------------------------
LEMMA InitKeeps == Init => IInv
  <1> SUFFICES ASSUME Init PROVE IInv
    OBVIOUS
  <1>1. /\ 0 \in 0..MaxPause /\ MinPause \in MinPause..MaxPause /\ 0 \in 0..Busy
        /\ 0 \in 0..Bound /\ 0 \in 0..Heartbeat /\ Heartbeat \in Nat /\ 0 \in Nat
    BY FeedAssumption, SMT
  <1>2. ReaderTyped
    BY <1>1 DEF Init, ReaderInit, ReaderTyped
  <1>3. rx \in Seq(Events)
    BY SMT DEF Init, ReaderInit
  <1>4. LoopTyped
    BY <1>1 DEF Init, WatchInit, LoopInit, LoopTyped, LegTyped, WatchTyped, StageTyped,
                RuleTyped, TimersTyped
  <1>5. SilenceBounded
    BY Lengths, SMT DEF Init, WatchInit, LoopInit, SilenceBounded
  <1>6. LegsBehind /\ Down /\ Rejection
    BY FeedAssumption DEF Init, WatchInit, LoopInit, LegsBehind, Down, Rejection
  <1> QED
    BY <1>2, <1>3, <1>4, <1>5, <1>6 DEF IInv, Promise

LEMMA StepKeeps == IInv /\ [Next]_vars => IInv'
  <1> SUFFICES ASSUME IInv, [Next]_vars PROVE IInv'
    OBVIOUS
  <1>1. CASE Connect \/ Disconnect \/ ConnectFails \/ ReaderDies
    BY <1>1, ReaderKeeps
  <1>2. ASSUME NEW s \in Samples, Sample(s)
        PROVE  IInv'
    <2>1. LoopTyped' /\ Promise'
      BY <1>2, LoopStands DEF Sample
    <2> QED
      BY <1>2, <2>1, SampleKeeps DEF IInv
  <1>3. CASE Silence \/ Timer \/ Receive \/ reader_gone
    BY <1>3, WaitKeeps
  <1>4. CASE Quoted \/ ModelWithdraws \/ Skip
    BY <1>4, ModelKeeps
  <1>5. CASE housekeeping
    BY <1>5, HousekeepingKeeps
  <1>6. CASE Tick
    BY <1>6, TickKeeps
  <1>7. CASE UNCHANGED vars
    <2>1. LoopTyped' /\ Promise'
      BY <1>7, LoopStands DEF vars
    <2> QED
      BY <1>7, <2>1 DEF vars, reader, IInv, ReaderTyped
  <1> QED
    BY <1>1, <1>2, <1>3, <1>4, <1>5, <1>6, <1>7 DEF Next, Pass

\* The inductive invariant of the road.
THEOREM FeedInvariant == Spec => []IInv
  BY InitKeeps, StepKeeps, PTL DEF Spec

\* Type correctness of the reader, the watch and the loop.
THEOREM FeedTyped == Spec => []TypeOK
  BY FeedInvariant, Typed, PTL

\* No leg behind a posted quote is older than two bounds and a pass, for any number of legs.
THEOREM LegsAreBounded == Spec => []LegsBounded
  <1>1. IInv => LegsBounded
    <2> SUFFICES ASSUME IInv, last = "Posted", NEW f \in Legs
                 PROVE  leg[f] # None /\ leg[f] <= LegLimit
      BY DEF LegsBounded
    <2>1. leg[f] # None /\ leg[f] <= Bound - 1 + silent
      BY DEF IInv, Promise, LegsBehind
    <2>2. leg[f] \in 0..(LegLimit + 1) /\ silent \in Nat /\ spent \in 0..Busy
      BY <2>1 DEF IInv, LoopTyped, LegTyped, WatchTyped, StageTyped
    <2>3. state # "Withdrawn"
      BY DEF IInv, Promise, Down
    <2>4. silent <= SilenceLimit
      <3>1. silent <= (IF pc = "wait" THEN SilenceLimit ELSE Begun + spent)
        BY <2>3 DEF IInv, Promise, SilenceBounded
      <3> QED
        BY <2>2, <3>1, Lengths, SMT DEF Begun
    <2> QED
      BY <2>1, <2>2, <2>4, Lengths, SMT
  <1> QED
    BY <1>1, FeedInvariant, PTL

\* The last word on every leg a rejection: no quote, whatever the timers and the model do.
THEOREM RejectedOff == Spec => []RejectedIsOff
  <1>1. IInv => RejectedIsOff
    BY DEF IInv, Promise, Down, Rejection, RejectedIsOff
  <1> QED
    BY <1>1, FeedInvariant, PTL

-----------------------------------------------------------------------------
(* The switch that falls by itself.                                         *)

\* While a quote may stand, the silence is within its limit.
Within == state # "Withdrawn" => silent <= SilenceLimit

LEMMA SilenceWithin == IInv => Within
  <1> SUFFICES ASSUME IInv, state # "Withdrawn" PROVE silent <= SilenceLimit
    BY DEF Within
  <1>1. silent \in Nat /\ spent \in 0..Busy
    BY DEF IInv, LoopTyped, WatchTyped, StageTyped
  <1>2. silent <= (IF pc = "wait" THEN SilenceLimit ELSE Begun + spent)
    BY DEF IInv, Promise, SilenceBounded
  <1> QED
    BY <1>1, <1>2, Lengths, SMT DEF Begun

\* The watch or the model takes the quote down.
LEMMA SwitchFalls ==
    ASSUME last' = "Withdrawn",
           state' = "Withdrawn" \/ UNCHANGED <<state, silent>>
    PROVE  Switch!Lower
  BY DEF Switch!Lower

\* A usable price holds the switch up, or lets it fall.
LEMMA SwitchOnPrice ==
    ASSUME NEW f \in Legs, on_price(f)
    PROVE  Switch!Price
  <1>1. silent' = 0 /\ state' = "Live" /\ price_and_post(leg', FALSE, "read")
    BY DEF on_price
  <1>2. last' = last \/ last' = "Withdrawn"
    BY <1>1, MidMeans DEF price_and_post, withdraw
  <1> QED
    BY <1>1, <1>2 DEF Switch!Price

\* Every step of the road is one of the switch.
LEMMA SwitchStep == IInv /\ Within' /\ [Next]_vars
                      => [Switch!Next]_<<last # "Withdrawn",
                             IF state = "Withdrawn" THEN SilenceLimit + 1 ELSE silent>>
  <1> DEFINE up == last # "Withdrawn"
             age == IF state = "Withdrawn" THEN SilenceLimit + 1 ELSE silent
             Goal == [Switch!Next]_<<up, age>>
  <1> SUFFICES ASSUME IInv, Within', [Next]_vars PROVE Goal
    OBVIOUS
  <1>1. CASE UNCHANGED <<last, state, silent>>
    BY <1>1
  <1>2. CASE Connect \/ Disconnect \/ ConnectFails \/ ReaderDies \/ Timer
             \/ \E s \in Samples : Sample(s)
    BY <1>1, <1>2 DEF Connect, Disconnect, ConnectFails, Broken, ReaderDies, Sample, Timer,
                      loop, watch
  <1>3. CASE Silence
    <2>1. Switch!Lower
      BY <1>3, SwitchFalls DEF Silence, withdraw, Withdrawn
    <2> QED
      BY <2>1 DEF Switch!Next
  <1>4. CASE on_withdrawal
    <2>1. CASE state = "Withdrawn"
      BY <1>1, <1>4, <2>1 DEF on_withdrawal, watch
    <2>2. CASE state # "Withdrawn"
      <3>1. Switch!Lower
        BY <1>4, <2>2, SwitchFalls DEF on_withdrawal, withdraw, Withdrawn
      <3> QED
        BY <3>1 DEF Switch!Next
    <2> QED
      BY <2>1, <2>2
  <1>5. CASE Receive
    <2>1. rx # <<>> /\ observe(Head(rx))
      BY <1>5 DEF Receive
    <2>2. Head(rx) \in Events
      BY <2>1, SMT DEF IInv
    <2>3. CASE Head(rx).kind = "Price"
      <3>1. Head(rx).id \in Legs /\ on_price(Head(rx).id)
        BY <2>1, <2>2, <2>3 DEF observe, Events
      <3>2. Switch!Price
        BY <3>1, SwitchOnPrice
      <3> QED
        BY <3>2 DEF Switch!Next
    <2>4. CASE Head(rx).kind = "Rejected" /\ Head(rx).reason # "NotNewer"
      BY <1>4, <2>1, <2>4 DEF observe
    <2>5. CASE Head(rx).kind # "Price"
               /\ ~(Head(rx).kind = "Rejected" /\ Head(rx).reason # "NotNewer")
      <3>1. UNCHANGED <<watch, last>>
        BY <2>1, <2>5 DEF observe
      <3> QED
        BY <1>1, <3>1 DEF watch
    <2> QED
      BY <2>3, <2>4, <2>5
  <1>6. CASE reader_gone
    <2>1. on_withdrawal \/ UNCHANGED <<watch, last>>
      BY <1>6 DEF reader_gone
    <2> QED
      BY <1>1, <1>4, <2>1 DEF watch
  <1>7. CASE Quoted \/ ModelWithdraws \/ Skip
    <2>1. silent' = silent /\ state' = state /\ pc = "model"
      BY <1>7 DEF Quoted, ModelWithdraws, Skip, watch
    <2>2. last' = last \/ last' = "Posted" \/ last' = "Withdrawn"
      BY <1>7 DEF Quoted, ModelWithdraws, Skip, withdraw
    <2>3. CASE last' = "Posted"
      <3>1. state # "Withdrawn"
        BY <2>1 DEF IInv, Promise, Down
      <3>2. silent <= SilenceLimit
        BY <3>1, SilenceWithin DEF Within
      <3>3. Switch!Raise
        BY <2>1, <2>3, <3>1, <3>2 DEF Switch!Raise
      <3> QED
        BY <3>3 DEF Switch!Next
    <2>4. CASE last' = "Withdrawn"
      <3>1. Switch!Lower
        BY <2>1, <2>4, SwitchFalls
      <3> QED
        BY <3>1 DEF Switch!Next
    <2> QED
      BY <1>1, <2>1, <2>2, <2>3, <2>4
  <1>8. CASE housekeeping
    <2>1. silent' = silent /\ state' = state /\ (last' = last \/ last' = "Withdrawn")
      BY <1>8, MidMeans DEF housekeeping, price_and_post, withdraw, watch
    <2>2. CASE last' = "Withdrawn"
      <3>1. Switch!Lower
        BY <2>1, <2>2, SwitchFalls
      <3> QED
        BY <3>1 DEF Switch!Next
    <2> QED
      BY <1>1, <2>1, <2>2
  <1>9. CASE Tick
    <2>1. /\ last' = last /\ state' = state
          /\ silent' = IF state = "Withdrawn" THEN silent ELSE silent + 1
      BY <1>9 DEF Tick
    <2>2. CASE state = "Withdrawn"
      BY <1>1, <2>1, <2>2
    <2>3. CASE state # "Withdrawn"
      <3>1. silent' = silent + 1 /\ silent' <= SilenceLimit
        BY <2>1, <2>3 DEF Within
      <3>2. Switch!Elapse
        BY <2>1, <2>3, <3>1 DEF Switch!Elapse
      <3> QED
        BY <3>2 DEF Switch!Next
    <2> QED
      BY <2>2, <2>3
  <1>10. CASE UNCHANGED vars
    BY <1>1, <1>10 DEF vars, watch, loop
  <1> QED
    BY <1>2, <1>3, <1>5, <1>6, <1>7, <1>8, <1>9, <1>10 DEF Next, Pass

\* No quote outlives a silence: the whole road is a switch that falls by itself.
THEOREM QuoteFalls == Spec => ImplementsDeadman
  <1>1. Init => Switch!Init
    BY DEF Init, WatchInit, LoopInit, Switch!Init
  <1> QED
    BY <1>1, SwitchStep, SilenceWithin, FeedInvariant, PTL DEF Spec, ImplementsDeadman, Switch!Spec
=============================================================================
