---------------------------- MODULE EngineProofs ----------------------------
(***************************************************************************)
(* The safety invariants of Engine for every set of quotes, threshold and   *)
(* bound.  TypeOK, BeliefIsWatched and PauseMeansUnknown are inductive      *)
(* together: the belief that survives a read is one the sender held, and    *)
(* whatever ends a send badly makes the rule forget.                        *)
(***************************************************************************)
EXTENDS Engine, TLAPS

\* Three stamps are remembered and there are four names.
LEMMA NewStampIsAStamp ==
    ASSUME TypeOK
    PROVE  NewStamp \in Stamps
  <1>1. \E s \in Stamps : s \notin {book.stamp, view.stamp, Baseline.stamp}
    BY SMT DEF Stamps
  <1> QED
    BY <1>1 DEF NewStamp

LEMMA Distinct ==
    /\ NoOrder \notin Orders /\ Unknown \notin Orders /\ Off \notin Quotes
    /\ NoOrder \notin Pendings
  BY EngineAssumption DEF Orders

\* What the engine's own variables may be, and what ties them together.
Belief == BeliefIsWatched /\ PauseMeansUnknown

Own ==
    /\ wire \in [Orders -> 0..MaxInFlight]
    /\ pc \in {"wait", "read", "redo", "beat", "stopped", "gone"}
    /\ last \in Orders \union {Unknown}
    /\ pending \in Pendings \union {NoOrder}
    /\ pause \in {"none", "on", "over"}
    /\ want \in {"Quote", "Off"}
    /\ halted \in BOOLEAN
    /\ faults \in 0..MaxFaults

\* However a send comes out, the rule believes in it only if the sender watches it.
LEMMA SendKeeps ==
    ASSUME TypeOK, Belief, Running, NEW o \in Orders,
           NEW next \in {"read", "beat", "wait"},
           want' \in {"Quote", "Off"}, UNCHANGED <<settled, view>>,
           send(o, next)
    PROVE  Own' /\ Belief'
  <1>1. Own /\ view \in Books /\ MaxInFlight \in Nat \ {0} /\ MaxFaults \in Nat
    BY EngineAssumption DEF TypeOK, Own
  <1>2. CASE Taken(o, next)
    <2> DEFINE p == [order |-> o, baseline |-> view, late |-> FALSE]
    <2>a. p \in Pendings
      BY <1>1 DEF Pendings
    <2>1. pending' = p /\ p \in Pendings /\ p # NoOrder /\ p.order = o
      BY <2>a, <1>2, Distinct DEF Taken
    <2> HIDE DEF p
    <2>2. wire' \in [Orders -> 0..MaxInFlight]
      BY <1>1, <1>2 DEF Taken, Take, Own
    <2> QED
      BY <1>1, <1>2, <2>1, <2>2 DEF Taken, Own, Belief, BeliefIsWatched, PauseMeansUnknown
  <1>3. CASE Refused(o, next)
    <2>1. wire' \in [Orders -> 0..MaxInFlight]
      BY <1>1, <1>3 DEF Refused, Take, Own
    <2>2. faults' \in 0..MaxFaults
      BY <1>1, <1>3 DEF Refused, Fault, Own
    <2> QED
      BY <1>1, <1>3, <2>1, <2>2
         DEF Refused, Own, Belief, BeliefIsWatched, PauseMeansUnknown
  <1>4. CASE RefusedAsHalted(o, next)
    BY <1>1, <1>4 DEF RefusedAsHalted, Own, Belief, BeliefIsWatched, PauseMeansUnknown
  <1>5. CASE RefusedForGood(o)
    <2>1. faults' \in 0..MaxFaults
      BY <1>1, <1>5 DEF RefusedForGood, Fault, Own
    <2> QED
      BY <1>1, <1>5, <2>1
         DEF RefusedForGood, Own, Belief, BeliefIsWatched, PauseMeansUnknown, Running
  <1> QED
    BY <1>2, <1>3, <1>4, <1>5 DEF send

LEMMA NothingKeeps ==
    ASSUME TypeOK, Belief, Running, NEW next \in {"read", "beat", "wait"},
           want' \in {"Quote", "Off"}, UNCHANGED <<settled, view>>,
           Nothing(next)
    PROVE  Own' /\ Belief'
  BY DEF Nothing, TypeOK, Own, Belief, BeliefIsWatched, PauseMeansUnknown, Running

LEMMA WithdrawKeeps ==
    ASSUME TypeOK, Belief, Running, NEW next \in {"read", "beat", "wait"},
           UNCHANGED <<settled, view>>, withdraw(next)
    PROVE  Own' /\ Belief'
  <1>1. want' \in {"Quote", "Off"} /\ Off \in Orders
    BY DEF withdraw, Orders
  <1> QED
    BY <1>1, SendKeeps, NothingKeeps DEF withdraw

LEMMA PriceKeeps ==
    ASSUME TypeOK, Belief, Running, NEW next \in {"read", "beat", "wait"},
           UNCHANGED <<settled, view>>, NEW m, NEW due, price_and_post(m, due, next)
    PROVE  Own' /\ Belief'
  <1>1. CASE m \in Quotes /\ want' = "Quote" /\ post(m, due, next)
    <2>1. m \in Orders /\ want' \in {"Quote", "Off"}
      BY <1>1 DEF Orders
    <2> QED
      BY <1>1, <2>1, SendKeeps, NothingKeeps DEF post
  <1>2. CASE m \notin Quotes /\ withdraw(next)
    BY <1>2, WithdrawKeeps
  <1>3. CASE /\ Fault
             /\ want' = "Quote"
             /\ pc' = next
             /\ UNCHANGED <<wire, last, pending, pause, halted>>
    <2>1. faults' \in 0..MaxFaults
      BY <1>3, EngineAssumption DEF Fault, TypeOK
    <2> QED
      BY <1>3, <2>1
         DEF TypeOK, Own, Belief, BeliefIsWatched, PauseMeansUnknown, Running
  <1> QED
    BY <1>1, <1>2, <1>3 DEF price_and_post

-----------------------------------------------------------------------------
(* What the passing of time and the read of the vault do to the belief.     *)

LEMMA AgesKeeps ==
    ASSUME TypeOK, Belief, PendingAges
    PROVE  Own' /\ Belief'
  <1>1. pending \in Pendings /\ pending # NoOrder
    BY DEF PendingAges, TypeOK
  <1>2. pending' \in Pendings /\ pending'.order = pending.order
    BY <1>1 DEF PendingAges, Pendings
  <1>3. pending' # NoOrder
    BY <1>2, Distinct
  <1> QED
    BY <1>1, <1>2, <1>3
       DEF chain, PendingAges, TypeOK, Own, Belief, BeliefIsWatched, PauseMeansUnknown, Running

\* A read leaves the rule with what it knew only when the sender saw it on the book or
\* still waits for it.
LEMMA RefreshKeeps ==
    ASSUME TypeOK, Belief, refresh
    PROVE  Own' /\ Belief' /\ settled' \in Orders \union {NoOrder} /\ view' \in Books
  <1> DEFINE known == IF halted /\ ~vault_halted THEN Unknown ELSE last
  <1>1. check(known) /\ known \in {last, Unknown} /\ view' = book /\ pc = "read"
    BY DEF refresh
  <1> HIDE DEF known
  <1>2. book \in Books /\ (pending # NoOrder => pending.order \in Orders)
    BY DEF TypeOK, Pendings
  <1>3. /\ wire' \in [Orders -> 0..MaxInFlight] /\ pc' = "redo"
        /\ pause' = pause /\ pause' \in {"none", "on", "over"} /\ want' \in {"Quote", "Off"}
        /\ halted' \in BOOLEAN /\ faults' \in 0..MaxFaults
    BY DEF refresh, TypeOK, chain
  <1>4. Running /\ Running'
    BY <1>1, <1>3 DEF Running
  <1>5. /\ last' \in {last, Unknown} /\ pending' \in {pending, NoOrder}
        /\ settled' \in Orders \union {NoOrder}
        /\ pending' = pending \/ last' = Unknown \/ (settled' = pending.order /\ landed)
    BY <1>1, <1>2 DEF check, TypeOK
  <1>6. BeliefIsWatched'
    <2> SUFFICES ASSUME last' # Unknown
                 PROVE  IF pending' # NoOrder THEN pending'.order = last'
                        ELSE settled' = last' /\ view'.shows = last'
      BY DEF BeliefIsWatched
    <2>1. last' = last /\ last # Unknown
      BY <1>5
    <2>2. IF pending # NoOrder THEN pending.order = last
          ELSE settled = last /\ view.shows = last
      BY <1>4, <2>1 DEF Belief, BeliefIsWatched
    <2>3. CASE pending # NoOrder /\ landed
      BY <1>1, <2>1, <2>2, <2>3 DEF check, landed
    <2>4. CASE pending # NoOrder /\ ~landed
      BY <1>1, <2>1, <2>2, <2>4 DEF check
    <2>5. CASE pending = NoOrder
      <3>1. settled = last /\ settled # NoOrder
        BY <2>1, <2>2, <2>5, Distinct, <1>2 DEF TypeOK
      <3>2. settled = book.shows /\ UNCHANGED <<pending, settled>>
        BY <1>1, <2>1, <2>5, <3>1 DEF check
      <3> QED
        BY <1>1, <2>1, <2>5, <3>1, <3>2
    <2> QED
      BY <2>3, <2>4, <2>5
  <1>7. PauseMeansUnknown'
    <2>1. pause # "none" => last = Unknown /\ pending = NoOrder
      BY <1>4 DEF Belief, PauseMeansUnknown
    <2> QED
      BY <1>3, <1>5, <2>1 DEF PauseMeansUnknown
  <1> QED
    BY <1>1, <1>2, <1>3, <1>5, <1>6, <1>7 DEF Own, Belief, TypeOK

-----------------------------------------------------------------------------
(* The initial state and the steps.                                         *)

LEMMA EngineInit ==
    ASSUME Init
    PROVE  TypeOK /\ Belief
  <1>1. Blank \in Books /\ \A q \in Quotes : [shows |-> q, stamp |-> 1] \in Books
    BY DEF Blank, Books, Orders, Stamps
  <1>2. wire \in [Orders -> 0..MaxInFlight]
    BY EngineAssumption DEF Init
  <1>3. book \in Books
    BY <1>1 DEF Init
  <1>4. TypeOK
    <2>1. faults \in 0..MaxFaults
      BY EngineAssumption DEF Init
    <2> QED
      BY <1>2, <1>3, <2>1 DEF Init, TypeOK
  <1>5. Belief
    BY DEF Init, Belief, BeliefIsWatched, PauseMeansUnknown
  <1> QED
    BY <1>4, <1>5

\* Own has the engine's variables but settled and view; these are the others.
Rest ==
    /\ book \in Books
    /\ vault_halted \in BOOLEAN /\ mine \in BOOLEAN
    /\ mid \in Mids /\ live \in BOOLEAN /\ reader \in BOOLEAN
    /\ settled \in Orders \union {NoOrder}
    /\ view \in Books
    /\ leg \in Mids \union {NoPrice}

LEMMA TypeOKParts == TypeOK <=> Own /\ Rest
  BY DEF TypeOK, Own, Rest

\* What the chain, the network and the market do to themselves.
LEMMA OutsideKeeps ==
    ASSUME TypeOK, Belief, UNCHANGED <<view, engine>>,
           \/ \E o \in Orders : Deliver(o) \/ Drop(o)
           \/ \E flag \in BOOLEAN : SetHalted(flag)
           \/ OwnerClears \/ Replaced \/ ReaderDies
           \/ \E m \in Mids : Move(m)
    PROVE  TypeOK' /\ Belief'
  <1>1. Belief'
    BY DEF engine, Belief, BeliefIsWatched, PauseMeansUnknown, Running
  <1>2. Blank \in Books /\ MaxFaults \in Nat /\ MaxInFlight \in Nat
    BY EngineAssumption DEF Blank, Books, Orders, Stamps
  <1>3. ASSUME NEW o \in Orders, Deliver(o) \/ Drop(o)
        PROVE  wire' \in [Orders -> 0..MaxInFlight]
    BY <1>2, <1>3 DEF Deliver, Drop, TypeOK
  <1>4. ASSUME Fault PROVE faults' \in 0..MaxFaults
    BY <1>2, <1>4 DEF Fault, TypeOK
  <1>5. ASSUME NEW o \in Orders, Deliver(o) PROVE TypeOK'
    <2>1. book' \in Books
      <3>1. NewStamp \in Stamps /\ book.stamp \in Stamps
        BY NewStampIsAStamp DEF TypeOK, Books
      <3>2. \A s \in Stamps : [shows |-> o, stamp |-> s] \in Books
        BY DEF Books
      <3> QED
        BY <1>2, <1>5, <3>1, <3>2 DEF Deliver, TypeOK
    <2> QED
      BY <1>3, <1>5, <2>1 DEF Deliver, TypeOK, engine, feed
  <1>6. ASSUME NEW o \in Orders, Drop(o) PROVE TypeOK'
    BY <1>3, <1>4, <1>6 DEF Drop, TypeOK, engine, feed
  <1>7. ASSUME NEW flag \in BOOLEAN, SetHalted(flag) PROVE TypeOK'
    BY <1>4, <1>7 DEF SetHalted, TypeOK, engine, feed
  <1>8. ASSUME OwnerClears \/ Replaced PROVE TypeOK'
    <2>1. CASE OwnerClears
      BY <1>2, <1>4, <2>1 DEF OwnerClears, TypeOK, engine, feed
    <2>2. CASE Replaced
      BY <1>2, <1>4, <2>2 DEF Replaced, TypeOK, engine, feed
    <2> QED
      BY <1>8, <2>1, <2>2
  <1>9. ASSUME ReaderDies PROVE TypeOK'
    BY <1>4, <1>9 DEF ReaderDies, TypeOK, engine, chain
  <1>10. ASSUME NEW m \in Mids, Move(m) PROVE TypeOK'
    BY <1>4, <1>10 DEF Move, TypeOK, engine, chain
  <1> QED
    BY <1>1, <1>5, <1>6, <1>7, <1>8, <1>9, <1>10

\* The steps of the loop, and of its clocks.
LEMMA EngineKeeps ==
    ASSUME TypeOK, Belief, Pass \/ PauseEnds \/ PendingAges \/ Restart
    PROVE  TypeOK' /\ Belief'
  <1>0. Own /\ Rest
    BY TypeOKParts
  <1> SUFFICES Own' /\ Rest' /\ Belief'
    BY DEF TypeOK, Own, Rest
  <1>1. CASE on_price
    <2>1. Running /\ UNCHANGED <<settled, view>>
      BY <1>1 DEF on_price, Running
    <2>2. Own' /\ Belief'
      BY <1>1, <2>1, PriceKeeps DEF on_price
    <2> QED
      BY <1>0, <1>1, <2>2 DEF on_price, Rest
  <1>2. CASE on_withdrawal
    <2>1. Running /\ UNCHANGED <<settled, view>>
      BY <1>2 DEF on_withdrawal, Running
    <2>2. Own' /\ Belief'
      BY <1>2, <2>1, WithdrawKeeps DEF on_withdrawal
    <2> QED
      BY <1>0, <1>2, <2>2 DEF on_withdrawal, Rest
  <1>3. CASE Timer \/ NoRead \/ NoHeartbeat
    BY <1>0, <1>3 DEF Timer, NoRead, NoHeartbeat, Own, Rest, chain, feed,
       Belief, BeliefIsWatched, PauseMeansUnknown, Running
  <1>4. CASE FeedGone \/ ReadStops
    BY <1>0, <1>4 DEF FeedGone, ReadStops, Own, Rest, chain, feed,
       Belief, BeliefIsWatched, PauseMeansUnknown, Running
  <1>5. CASE ReadFails \/ ReadUnfit
    <2>1. faults' \in 0..MaxFaults
      BY <1>0, <1>5, EngineAssumption DEF ReadFails, ReadUnfit, Fault, Own
    <2> QED
      BY <1>0, <1>5, <2>1 DEF ReadFails, ReadUnfit, Own, Rest, chain, feed,
         Belief, BeliefIsWatched, PauseMeansUnknown, Running
  <1>6. CASE refresh
    <2>1. Own' /\ Belief' /\ settled' \in Orders \union {NoOrder} /\ view' \in Books
      BY <1>6, RefreshKeeps
    <2> QED
      BY <1>0, <1>6, <2>1 DEF refresh, Rest, chain, feed
  <1>7. CASE resend
    <2>1. Running /\ UNCHANGED <<settled, view>> /\ want \in {"Quote", "Off"}
      BY <1>0, <1>7 DEF resend, Running, Own
    <2>2. CASE withdraw("beat")
      <3>1. Own' /\ Belief'
        BY <2>1, <2>2, WithdrawKeeps
      <3> QED
        BY <1>0, <1>7, <3>1 DEF resend, Rest, feed
    <2>3. CASE Nothing("beat") /\ UNCHANGED want
      <3>1. Own' /\ Belief'
        BY <2>1, <2>3, NothingKeeps
      <3> QED
        BY <1>0, <1>7, <3>1 DEF resend, Rest, feed
    <2> QED
      BY <1>7, <2>2, <2>3 DEF resend
  <1>8. CASE heartbeat
    <2>1. Running /\ UNCHANGED <<settled, view>>
      BY <1>8 DEF heartbeat, Running
    <2>2. Own' /\ Belief'
      BY <1>8, <2>1, PriceKeeps, WithdrawKeeps DEF heartbeat
    <2> QED
      BY <1>0, <1>8, <2>2 DEF heartbeat, Rest, feed
  <1>9. CASE PauseEnds
    BY <1>0, <1>9 DEF PauseEnds, Own, Rest, chain, feed,
       Belief, BeliefIsWatched, PauseMeansUnknown, Running
  <1>10. CASE PendingAges
    <2>1. Own' /\ Belief'
      BY <1>10, AgesKeeps
    <2> QED
      BY <1>0, <1>10, <2>1 DEF PendingAges, Rest, chain, feed
  <1>11. CASE Restart
    <2>1. faults' \in 0..MaxFaults
      BY <1>0, <1>11, EngineAssumption DEF Restart, Fault, Own
    <2> QED
      BY <1>0, <1>11, <2>1 DEF Restart, Started, Own, Rest, chain,
         Belief, BeliefIsWatched, PauseMeansUnknown, Running
  <1> QED
    BY <1>1, <1>2, <1>3, <1>4, <1>5, <1>6, <1>7, <1>8, <1>9, <1>10, <1>11 DEF Pass

LEMMA EngineStep ==
    ASSUME TypeOK, Belief, [Next]_vars
    PROVE  TypeOK' /\ Belief'
  <1>1. CASE UNCHANGED vars
    BY <1>1 DEF vars, chain, feed, engine, TypeOK, Belief, BeliefIsWatched,
       PauseMeansUnknown, Running
  <1>2. CASE Pass \/ PauseEnds \/ PendingAges \/ Restart
    BY <1>2, EngineKeeps
  <1>3. CASE \E o \in Orders : Deliver(o) \/ Drop(o)
    <2>1. UNCHANGED <<view, engine>>
      BY <1>3 DEF Deliver, Drop, engine
    <2> QED
      BY <1>3, <2>1, OutsideKeeps
  <1>4. CASE \/ \E flag \in BOOLEAN : SetHalted(flag)
             \/ OwnerClears \/ Replaced \/ ReaderDies
             \/ \E m \in Mids : Move(m)
    <2>1. UNCHANGED <<view, engine>>
      BY <1>4 DEF SetHalted, OwnerClears, Replaced, ReaderDies, Move, engine
    <2> QED
      BY <1>4, <2>1, OutsideKeeps
  <1> QED
    BY <1>1, <1>2, <1>3, <1>4 DEF Next

LEMMA EngineInvariant == Spec => [](TypeOK /\ Belief)
  <1>1. Init => TypeOK /\ Belief
    BY EngineInit
  <1>2. TypeOK /\ Belief /\ [Next]_vars => (TypeOK /\ Belief)'
    BY EngineStep
  <1> QED
    BY <1>1, <1>2, PTL DEF Spec

-----------------------------------------------------------------------------
(* The theorems.                                                            *)

\* Every variable keeps its type: no order is ever more often in the network than the
\* bound says, and a stamp always has a free name.
THEOREM EngineTyped == Spec => []TypeOK
  BY EngineInvariant, PTL

\* The rule compares new quotes only with an order the sender still waits for or has
\* seen on the book: losing, delaying, refusing or reordering transactions, a halt, a
\* replaced key and a restart included (policy.rs and sender.rs, kept in step by
\* cycle.rs).
THEOREM BeliefWatched == Spec => []BeliefIsWatched
  <1>1. TypeOK /\ Belief => BeliefIsWatched
    BY DEF Belief
  <1> QED
    BY <1>1, EngineInvariant, PTL

\* While posts are held back after a refusal the rule has nothing to repeat
\* (Cycle::send on Refused, Sender::send on Retry).
THEOREM PauseUnknown == Spec => []PauseMeansUnknown
  <1>1. TypeOK /\ Belief => PauseMeansUnknown
    BY DEF Belief
  <1> QED
    BY <1>1, EngineInvariant, PTL
=============================================================================
