-------------------------- MODULE HeartbeatProofs --------------------------
(***************************************************************************)
(* What holds of Heartbeat for every value of its constants, in three       *)
(* layers, each of which takes the ones before for granted.                 *)
(*                                                                          *)
(* Typed: the types, the clocks (how far the engine's runs ahead of the     *)
(* chain's) and the signatures (what the cached blockhash remembers).  It   *)
(* is inductive, and gives TypeOK and RepeatsAreNew.                        *)
(*                                                                          *)
(* Timely: no read of the book is put off, as long as no call has failed.   *)
(* It gives MisfitIsSeen.                                                   *)
(*                                                                          *)
(* Followed, while Quiet: what the rule believes, what the sender looks     *)
(* for and what is in flight or on the book belong together, and the ages   *)
(* the engine counts are not less than the book's by more than the lead.    *)
(* It gives NeverExpires.                                                   *)
(***************************************************************************)
EXTENDS Heartbeat, SequenceTheorems, TLAPS

-----------------------------------------------------------------------------
(* The types, in two parts: what a send may change, and the rest.           *)

\* What TypeOK says of a transaction, of what is looked for, and of a belief.
Flights == [order : Orders, age : 0..LANDING_SLOTS, newest : BOOLEAN]
Pendings == [order : Orders, age : Int, looked : BOOLEAN, baseline : Nat \union {None}]
Posts == [at : {"posted"}, order : Quotes, age : Int]
Beliefs == {Unknown, Withdrawn} \union Posts

\* Ticks left of the slot the engine's clock shows.
Left == IF phase = 0 THEN 0 ELSE Grain - phase

\* The engine's clock is ahead of the chain by what the slot of the chain has lasted, at
\* least, short of the tick the clock was anchored in.
Anchored == into + Left < lead * Grain + Grain

\* What a send may change.
PassTyped ==
    /\ flight \in Seq(Flights)
    /\ fetched \in [moved : BOOLEAN, twice : BOOLEAN, signed : SUBSET Orders,
                    unsure : SUBSET Orders]
    /\ pc \in {"start", "wait", "model", "read", "due", "beat", "stopped"}
    /\ last \in Beliefs
    /\ pending = None \/ pending \in Pendings
    /\ settled \in Orders \union {None}
    /\ hash = None \/ hash \in [age : Int, signed : SUBSET Orders]
    /\ pause \in Nat \union {None} /\ next_pause \in Grain..SEND_BACKOFF_MAX
    /\ next_read \in Nat
    /\ repeated \in {None, "node", "unanswered", "engine"} /\ faults \in Nat

\* What it leaves alone.
RestTyped ==
    /\ book \in [shows : Orders, age : 0..MaxStale, ours : BOOLEAN]
    /\ limit \in Limits
    /\ into \in 0..Grain /\ phase \in 0..(Grain - 1) /\ lead \in 0..MaxLead
    /\ Anchored
    /\ env \in Envs /\ config \in [Tunables -> Nat]
    /\ spent \in Nat
    /\ mid \in Quotes /\ want \in {"Quote", "Off"} /\ live \in BOOLEAN
    /\ view \in [shows : Orders, age : Nat, limit : Limits]
    /\ read_retry \in Int
    /\ misfit \in Nat /\ changes \in Nat

\* What the newest blockhash has signed is in the cache, but for what was not answered, as
\* long as the node has not handed it out twice.
CacheKnows ==
    ~fetched.twice /\ hash # None => fetched.signed \ fetched.unsure \subseteq hash.signed

\* The invariant of the types and of the signatures.
Typed == PassTyped /\ RestTyped /\ CacheKnows /\ RepeatsAreNew

\* The invariant of the types says what TypeOK says.
LEMMA TypedIsTypeOK == Typed => TypeOK
  BY DEF Typed, PassTyped, RestTyped, TypeOK, Flights, Pendings, Beliefs, Posts

\* The constants as the proofs need them.
LEMMA Constants ==
    /\ None \notin Orders /\ None \notin Int /\ None \notin Pendings
    /\ Off \in Orders /\ Quotes \subseteq Orders /\ Off \notin Quotes
    /\ None # "node" /\ None # "unanswered" /\ None # "engine"
    /\ Grain \in Nat \ {0} /\ LANDING_SLOTS \in Nat \ {0} /\ MaxStale \in Nat \ {0}
    /\ SEND_BACKOFF_MAX \in Nat /\ Grain <= SEND_BACKOFF_MAX
    /\ BLOCKHASH_MAX_AGE_SLOTS \in Nat \ {0}
    /\ MaxLead \in Nat /\ MaxFlight \in Nat /\ MaxTrouble \in Nat
    /\ Limits \subseteq Nat /\ Default \in [Tunables -> Nat]
    /\ LOST_AFTER_SLOTS = 2 * LANDING_SLOTS /\ LOST_AFTER_SLOTS \in Nat
  BY HeartbeatAssumption, SMT DEF Orders, Pendings, LOST_AFTER_SLOTS

\* A value and a kind of unreadable word are told apart by from_lookup.
LEMMA LookupTyped ==
    ASSUME NEW e \in Envs, Readable(e)
    PROVE  from_lookup(e) \in [Tunables -> Nat]
  <1>1. \A k \in Tunables : e[k] \in Nat \union {Absent}
    BY HeartbeatAssumption DEF Readable
  <1>2. \A k \in Tunables : (IF e[k] = Absent THEN Default[k] ELSE e[k]) \in Nat
    BY <1>1, HeartbeatAssumption
  <1> QED
    BY <1>2 DEF from_lookup

-----------------------------------------------------------------------------
(* Signing.                                                                 *)

\* A sequence mapped element by element keeps its length.
LEMMA Mapped ==
    ASSUME NEW S, NEW T, NEW s \in Seq(S), NEW f \in [DOMAIN s -> T]
    PROVE  f \in Seq(T) /\ Len(f) = Len(s) /\ DOMAIN s = 1..Len(s) /\ Len(s) \in Nat
  <1>1. Len(s) \in Nat /\ DOMAIN s = 1..Len(s)
    BY LenProperties
  <1>2. f \in Seq(T)
    BY <1>1, SeqDef
  <1>3. Len(f) = Len(s)
    <2>1. Len(f) \in Nat /\ DOMAIN f = 1..Len(f)
      BY <1>2, LenProperties
    <2> QED
      BY <1>1, <2>1, SMT
  <1> QED
    BY <1>1, <1>2, <1>3

\* What the node hands out is of its type, and it is new, handed out again, or the engine
\* has what it signed.
LEMMA FetchedTyped ==
    ASSUME PassTyped, NEW fetching \in BOOLEAN
    PROVE  /\ Fetched(fetching) \in [moved : BOOLEAN, twice : BOOLEAN, signed : SUBSET Orders,
                                     unsure : SUBSET Orders]
           /\ fetching => Fetched(fetching).twice \/ Fetched(fetching).signed = {}
           /\ ~fetching => Fetched(fetching) = fetched
  <1> DEFINE got == Fetched(fetching)
  <1> SUFFICES /\ got \in [moved : BOOLEAN, twice : BOOLEAN, signed : SUBSET Orders,
                          unsure : SUBSET Orders]
               /\ fetching => got.twice \/ got.signed = {}
               /\ ~fetching => got = fetched
    OBVIOUS
  <1>1. fetched \in [moved : BOOLEAN, twice : BOOLEAN, signed : SUBSET Orders,
                     unsure : SUBSET Orders]
    BY DEF PassTyped
  <1>2. CASE ~fetching
    <2>1. got = fetched
      BY <1>2 DEF Fetched
    <2> HIDE DEF got
    <2> QED
      BY <1>1, <1>2, <2>1
  <1>3. CASE fetching /\ fetched.moved
    <2>1. got = [moved |-> FALSE, twice |-> FALSE, signed |-> {}, unsure |-> {}]
      BY <1>3 DEF Fetched, HandedOut
    <2> HIDE DEF got
    <2> QED
      BY <1>3, <2>1
  <1>4. CASE fetching /\ ~fetched.moved
    <2>1. got = [fetched EXCEPT !.twice = @ \/ fetched.signed # {}]
      BY <1>4 DEF Fetched, HandedOut
    <2> HIDE DEF got
    <2>2. (fetched.twice \/ fetched.signed # {}) \in BOOLEAN
      OBVIOUS
    <2>3. /\ got \in [moved : BOOLEAN, twice : BOOLEAN, signed : SUBSET Orders,
                     unsure : SUBSET Orders]
          /\ got.twice = (fetched.twice \/ fetched.signed # {})
          /\ got.signed = fetched.signed
      BY <1>1, <2>1, <2>2
    <2> QED
      BY <1>4, <2>3
  <1> QED
    BY <1>2, <1>3, <1>4

\* What is in flight stays as it is, but for who signed it.
LEMMA InFlightTyped ==
    ASSUME PassTyped, NEW fetching \in BOOLEAN
    PROVE  /\ InFlight(fetching) \in Seq(Flights) /\ Len(flight) \in Nat
           /\ Len(InFlight(fetching)) = Len(flight)
           /\ \A i \in 1..Len(flight) : /\ InFlight(fetching)[i].order = flight[i].order
                                        /\ InFlight(fetching)[i].age = flight[i].age
  <1> DEFINE renewed == fetching /\ fetched.moved
             kept == [i \in DOMAIN flight |-> [flight[i] EXCEPT !.newest = @ /\ ~renewed]]
  <1>1. InFlight(fetching) = kept
    BY DEF InFlight
  <1>2. /\ flight \in Seq(Flights) /\ Len(flight) \in Nat /\ DOMAIN flight = 1..Len(flight)
        /\ \A i \in 1..Len(flight) : flight[i] \in Flights
    <2>1. flight \in Seq(Flights)
      BY DEF PassTyped
    <2> QED
      BY <2>1, LenProperties, ElementOfSeq
  <1>3. \A i \in DOMAIN flight :
          /\ [flight[i] EXCEPT !.newest = @ /\ ~renewed] \in Flights
          /\ [flight[i] EXCEPT !.newest = @ /\ ~renewed].order = flight[i].order
          /\ [flight[i] EXCEPT !.newest = @ /\ ~renewed].age = flight[i].age
    <2> HIDE DEF renewed
    <2> QED
      BY <1>2 DEF Flights
  <1>4. kept \in [DOMAIN flight -> Flights]
    BY <1>3
  <1>5. kept \in Seq(Flights) /\ Len(kept) = Len(flight)
    <2> HIDE DEF kept
    <2> QED
      BY <1>2, <1>4, Mapped
  <1>6. \A i \in 1..Len(flight) : kept[i].order = flight[i].order /\ kept[i].age = flight[i].age
    BY <1>2, <1>3
  <1> HIDE DEF kept
  <1> QED
    BY <1>1, <1>2, <1>5, <1>6

\* What is signed anew joins what is in flight, unless the network has it.
LEMMA SignFlight ==
    ASSUME PassTyped, NEW order \in Orders, NEW fetching \in BOOLEAN, NEW answered \in BOOLEAN,
           sign(order, fetching, answered)
    PROVE  /\ flight' \in Seq(Flights)
           /\ Len(flight) \in Nat /\ Len(flight') \in Nat
           /\ \A i \in 1..Len(flight) : /\ flight'[i].order = flight[i].order
                                        /\ flight'[i].age = flight[i].age
           /\ \/ repeated' # None
              \/ /\ Len(flight') = Len(flight) + 1
                 /\ flight'[Len(flight) + 1].order = order
                 /\ flight'[Len(flight) + 1].age = 0
  <1> DEFINE repeats == order \in Fetched(fetching).signed
             doing == IF Fetched(fetching).twice THEN "node"
                      ELSE IF order \in Fetched(fetching).unsure THEN "unanswered" ELSE "engine"
             kept == InFlight(fetching)
             new == [order |-> order, age |-> 0, newest |-> TRUE]
  <1>1. /\ flight' = IF repeats THEN kept ELSE Append(kept, new)
        /\ repeated' = IF repeats /\ repeated # "engine" THEN doing ELSE repeated
    BY DEF sign
  <1>2. /\ kept \in Seq(Flights) /\ Len(flight) \in Nat /\ Len(kept) = Len(flight)
        /\ \A i \in 1..Len(flight) : kept[i].order = flight[i].order /\ kept[i].age = flight[i].age
    BY InFlightTyped
  <1>3. new \in Flights /\ new.order = order /\ new.age = 0
    BY Constants, SMT DEF Flights
  <1>4. repeats => repeated' # None
    BY <1>1, Constants
  <1> HIDE DEF repeats, kept, new, doing
  <1>5. CASE repeats
    BY <1>1, <1>2, <1>4, <1>5
  <1>6. CASE ~repeats
    <2>1. flight' = Append(kept, new)
      BY <1>1, <1>6
    <2>2. /\ flight' \in Seq(Flights) /\ Len(flight') = Len(flight) + 1
          /\ \A i \in 1..Len(flight) : flight'[i] = kept[i]
          /\ flight'[Len(flight) + 1] = new
      BY <1>2, <1>3, <2>1, AppendProperties
    <2> QED
      BY <1>2, <1>3, <2>2, SMT
  <1> QED
    BY <1>5, <1>6

\* What the node has taken is in the cache; a repeat is the node's doing, or of what it has
\* not answered.
LEMMA SignTyped ==
    ASSUME PassTyped, CacheKnows, RepeatsAreNew, NEW order \in Orders,
           NEW fetching \in BOOLEAN, NEW answered \in BOOLEAN,
           Refreshes(order) => fetching, sign(order, fetching, answered)
    PROVE  /\ fetched' \in [moved : BOOLEAN, twice : BOOLEAN, signed : SUBSET Orders,
                            unsure : SUBSET Orders]
           /\ hash' \in [age : Int, signed : SUBSET Orders]
           /\ repeated' \in {None, "node", "unanswered", "engine"}
           /\ CacheKnows' /\ RepeatsAreNew'
  <1> DEFINE nw == Fetched(fetching)
             cached == IF fetching THEN {} ELSE hash.signed
             took == IF answered THEN {order} ELSE {}
             doubt == IF answered THEN nw.unsure \ {order} ELSE nw.unsure \union {order}
             doing == IF nw.twice THEN "node"
                      ELSE IF order \in nw.unsure THEN "unanswered" ELSE "engine"
  <1>1. /\ hash' = [age |-> IF fetching THEN 0 ELSE hash.age, signed |-> cached \union took]
        /\ fetched' = [nw EXCEPT !.signed = @ \union {order}, !.unsure = doubt]
        /\ repeated' = IF order \in nw.signed /\ repeated # "engine" THEN doing ELSE repeated
    BY DEF sign
  <1>2. /\ nw \in [moved : BOOLEAN, twice : BOOLEAN, signed : SUBSET Orders,
                   unsure : SUBSET Orders]
        /\ fetching => nw.twice \/ nw.signed = {}
        /\ ~fetching => nw = fetched
    BY FetchedTyped
  <1>3. /\ hash = None \/ hash \in [age : Int, signed : SUBSET Orders]
        /\ repeated \in {None, "node", "unanswered", "engine"} /\ repeated # "engine"
    BY DEF PassTyped, RepeatsAreNew
  <1>4. ~fetching => hash # None /\ order \notin hash.signed
    BY DEF Refreshes, stale
  <1>5. /\ cached \in SUBSET Orders /\ took \in SUBSET Orders
        /\ (IF fetching THEN 0 ELSE hash.age) \in Int
    BY <1>3, <1>4
  <1>6. ~nw.twice => nw.signed \ nw.unsure \subseteq cached /\ order \notin cached
    BY <1>2, <1>4 DEF CacheKnows
  <1> HIDE DEF nw, cached
  <1>7. doubt \in SUBSET Orders /\ nw.signed \union {order} \in SUBSET Orders
    BY <1>2
  <1>8. ~nw.twice => (nw.signed \union {order}) \ doubt \subseteq cached \union took
    BY <1>6
  <1>9. order \in nw.signed => doing \in {"node", "unanswered"}
    BY <1>6
  <1> HIDE DEF doubt, took, doing
  <1>10. hash' \in [age : Int, signed : SUBSET Orders] /\ hash'.signed = cached \union took
    BY <1>1, <1>5
  <1>11. /\ fetched' \in [moved : BOOLEAN, twice : BOOLEAN, signed : SUBSET Orders,
                          unsure : SUBSET Orders]
         /\ fetched'.twice = nw.twice /\ fetched'.signed = nw.signed \union {order}
         /\ fetched'.unsure = doubt
    BY <1>1, <1>2, <1>7
  <1>12. CacheKnows'
    BY <1>8, <1>10, <1>11 DEF CacheKnows
  <1>13. repeated' \in {None, "node", "unanswered", "engine"} /\ repeated' # "engine"
    BY <1>1, <1>3, <1>9
  <1> QED
    BY <1>10, <1>11, <1>12, <1>13 DEF RepeatsAreNew

\* So it is for a transaction that was not sent.
LEMMA UntakenTyped ==
    ASSUME PassTyped, CacheKnows, RepeatsAreNew, NEW order \in Orders, NEW answer,
           Untaken(order, answer)
    PROVE  /\ flight' \in Seq(Flights)
           /\ fetched' \in [moved : BOOLEAN, twice : BOOLEAN, signed : SUBSET Orders,
                            unsure : SUBSET Orders]
           /\ hash' = None \/ hash' \in [age : Int, signed : SUBSET Orders]
           /\ repeated' = repeated
           /\ CacheKnows' /\ RepeatsAreNew'
  <1>1. PICK fetching \in BOOLEAN :
          /\ hash' \in {IF fetching THEN [age |-> 0, signed |-> {}] ELSE hash, None}
          /\ fetched' = Fetched(fetching) /\ flight' = InFlight(fetching)
          /\ repeated' = repeated
    BY DEF Untaken
  <1>2. /\ fetched' \in [moved : BOOLEAN, twice : BOOLEAN, signed : SUBSET Orders,
                         unsure : SUBSET Orders]
        /\ fetching => fetched'.twice \/ fetched'.signed = {}
        /\ ~fetching => fetched' = fetched
    BY <1>1, FetchedTyped
  <1>3. flight' \in Seq(Flights)
    BY <1>1, InFlightTyped
  <1>4. hash = None \/ hash \in [age : Int, signed : SUBSET Orders]
    BY DEF PassTyped
  <1>5. hash' = None \/ hash' \in [age : Int, signed : SUBSET Orders]
    BY <1>1, <1>4
  <1>6. CacheKnows'
    <2>1. CASE hash' = None
      BY <2>1 DEF CacheKnows
    <2>2. CASE hash' # None /\ fetching
      BY <1>2, <2>2 DEF CacheKnows
    <2>3. CASE hash' # None /\ ~fetching
      BY <1>1, <1>2, <2>3 DEF CacheKnows
    <2> QED
      BY <2>1, <2>2, <2>3
  <1> QED
    BY <1>1, <1>2, <1>3, <1>5, <1>6 DEF RepeatsAreNew

-----------------------------------------------------------------------------
(* A send, and the ends of a pass that has one.                             *)

\* Where a pass may be.
Pcs == {"start", "wait", "model", "read", "due", "beat", "stopped"}

\* Taken, refused with the rule made to forget, or the end of the engine.
LEMMA SendCases ==
    ASSUME NEW order, NEW belief, NEW next, send(order, belief, next)
    PROVE  \/ (Taken(order) \/ Retaken(order)) /\ last' = belief /\ pc' = next
           \/ \E answer \in Answers : Refused(order, answer) /\ last' = Unknown /\ pc' = next
           \/ \E answer \in Answers :
                RefusedForGood(order, answer) /\ last' = belief /\ pc' = "stopped"
  BY DEF send

\* A fault is counted.
LEMMA FaultTyped ==
    ASSUME faults \in Nat, Fault
    PROVE  faults' \in Nat /\ faults' = faults + 1 /\ faults' # 0
  BY SMT DEF Fault

\* A transaction that the node takes keeps the types and the signatures,
LEMMA AcceptedTyped ==
    ASSUME Typed, NEW order \in Orders, NEW fetching \in BOOLEAN, Refreshes(order) => fetching,
           NEW belief \in Beliefs, NEW next \in Pcs,
           Accepted(order, fetching), faults' \in Nat, last' = belief, pc' = next
    PROVE  PassTyped' /\ CacheKnows' /\ RepeatsAreNew'
  <1>1. PassTyped /\ CacheKnows /\ RepeatsAreNew /\ view.age \in Nat
    BY DEF Typed, RestTyped
  <1>2. sign(order, fetching, TRUE) /\ TRUE \in BOOLEAN
    BY DEF Accepted
  <1>3. flight' \in Seq(Flights)
    BY <1>1, <1>2, SignFlight
  <1>4. /\ fetched' \in [moved : BOOLEAN, twice : BOOLEAN, signed : SUBSET Orders,
                         unsure : SUBSET Orders]
        /\ hash' \in [age : Int, signed : SUBSET Orders]
        /\ repeated' \in {None, "node", "unanswered", "engine"}
        /\ CacheKnows' /\ RepeatsAreNew'
    BY <1>1, <1>2, SignTyped
  <1>5. pending' \in Pendings
    <2>1. (IF view.shows = order THEN view.age ELSE None) \in Nat \union {None}
      BY <1>1
    <2> QED
      BY <2>1 DEF Accepted, Pendings
  <1>6. pause' \in Nat \union {None} /\ next_pause' \in Grain..SEND_BACKOFF_MAX
    BY Constants, SMT DEF Accepted
  <1>7. settled' \in Orders \union {None} /\ next_read' \in Nat
    BY <1>1 DEF Accepted, PassTyped
  <1> QED
    BY <1>3, <1>4, <1>5, <1>6, <1>7 DEF PassTyped, Pcs

\* and so does one that it does not, or not as far as the engine knows.
LEMMA AttemptedTyped ==
    ASSUME PassTyped, CacheKnows, RepeatsAreNew, NEW order \in Orders, NEW answer,
           Attempted(order, answer)
    PROVE  /\ flight' \in Seq(Flights)
           /\ fetched' \in [moved : BOOLEAN, twice : BOOLEAN, signed : SUBSET Orders,
                            unsure : SUBSET Orders]
           /\ hash' = None \/ hash' \in [age : Int, signed : SUBSET Orders]
           /\ repeated' \in {None, "node", "unanswered", "engine"}
           /\ CacheKnows' /\ RepeatsAreNew'
  <1>1. CASE Untaken(order, answer)
    <2>1. repeated \in {None, "node", "unanswered", "engine"}
      BY DEF PassTyped
    <2> QED
      BY <1>1, <2>1, UntakenTyped
  <1>2. CASE Unanswered(order)
    <2>1. PICK fetching \in BOOLEAN :
            (Refreshes(order) => fetching) /\ sign(order, fetching, FALSE)
      BY <1>2 DEF Unanswered
    <2>2. FALSE \in BOOLEAN
      OBVIOUS
    <2>3. flight' \in Seq(Flights)
      BY <2>1, <2>2, SignFlight
    <2> QED
      BY <2>1, <2>2, <2>3, SignTyped
  <1> QED
    BY <1>1, <1>2 DEF Attempted

\* A send keeps the types and the signatures, taken or not.
LEMMA SendTyped ==
    ASSUME Typed, NEW order \in Orders, NEW belief \in Beliefs, NEW next \in Pcs,
           send(order, belief, next)
    PROVE  PassTyped' /\ CacheKnows' /\ RepeatsAreNew'
  <1>1. PassTyped /\ CacheKnows /\ RepeatsAreNew /\ faults \in Nat
    BY DEF Typed, PassTyped
  <1>2. CASE Taken(order) /\ last' = belief /\ pc' = next
    <2>1. Accepted(order, Refreshes(order)) /\ faults' \in Nat
      BY <1>1, <1>2 DEF Taken
    <2>2. Refreshes(order) \in BOOLEAN
      BY DEF Refreshes, stale
    <2> DEFINE f == Refreshes(order)
    <2>3. Accepted(order, f) /\ f \in BOOLEAN /\ (Refreshes(order) => f)
      BY <2>1, <2>2
    <2> HIDE DEF f
    <2> QED
      BY <1>2, <2>1, <2>3, AcceptedTyped
  <1>3. CASE Retaken(order) /\ last' = belief /\ pc' = next
    <2>1. Accepted(order, TRUE) /\ faults' \in Nat /\ TRUE \in BOOLEAN
      BY <1>1, <1>3, FaultTyped DEF Retaken
    <2> QED
      BY <1>3, <2>1, AcceptedTyped
  <1>4. ASSUME NEW answer \in Answers, Refused(order, answer), last' = Unknown, pc' = next
        PROVE  PassTyped' /\ CacheKnows' /\ RepeatsAreNew'
    <2>1. pause' \in Nat \union {None} /\ next_pause' \in Grain..SEND_BACKOFF_MAX
      <3>1. next_pause \in Grain..SEND_BACKOFF_MAX
        BY <1>1 DEF PassTyped
      <3> QED
        BY <1>4, <3>1, Constants, SMT DEF Refused, Least
    <2>2. faults' \in Nat /\ pending' = None /\ next_read' = 0 /\ settled' = settled
      BY <1>1, <1>4, FaultTyped DEF Refused
    <2>3. Attempted(order, answer)
      BY <1>4 DEF Refused
    <2>4. /\ flight' \in Seq(Flights)
          /\ fetched' \in [moved : BOOLEAN, twice : BOOLEAN, signed : SUBSET Orders,
                           unsure : SUBSET Orders]
          /\ hash' = None \/ hash' \in [age : Int, signed : SUBSET Orders]
          /\ repeated' \in {None, "node", "unanswered", "engine"}
          /\ CacheKnows' /\ RepeatsAreNew'
      BY <1>1, <2>3, AttemptedTyped
    <2> QED
      BY <1>1, <1>4, <2>1, <2>2, <2>4 DEF PassTyped, Pcs, Beliefs
  <1>5. ASSUME NEW answer \in Answers, RefusedForGood(order, answer), last' = belief,
               pc' = "stopped"
        PROVE  PassTyped' /\ CacheKnows' /\ RepeatsAreNew'
    <2>1. /\ faults' \in Nat /\ pending' = None
          /\ UNCHANGED <<settled, pause, next_pause, next_read>>
      BY <1>1, <1>5, FaultTyped DEF RefusedForGood
    <2>2. Untaken(order, answer)
      BY <1>5 DEF RefusedForGood
    <2>3. /\ flight' \in Seq(Flights)
          /\ fetched' \in [moved : BOOLEAN, twice : BOOLEAN, signed : SUBSET Orders,
                           unsure : SUBSET Orders]
          /\ hash' = None \/ hash' \in [age : Int, signed : SUBSET Orders]
          /\ repeated' = repeated
          /\ CacheKnows' /\ RepeatsAreNew'
      BY <1>1, <2>2, UntakenTyped
    <2> QED
      BY <1>1, <1>5, <2>1, <2>3 DEF PassTyped
  <1> QED
    BY <1>2, <1>3, <1>4, <1>5, SendCases

\* So does a pass that sends nothing,
LEMMA NothingTyped ==
    ASSUME Typed, Nothing, pc' \in Pcs
    PROVE  PassTyped' /\ CacheKnows' /\ RepeatsAreNew'
  BY DEF Typed, PassTyped, CacheKnows, RepeatsAreNew, Nothing, sender, Pcs

\* a withdrawal,
LEMMA WithdrawTyped ==
    ASSUME Typed, NEW next \in Pcs, withdraw(next)
    PROVE  PassTyped' /\ CacheKnows' /\ RepeatsAreNew'
  <1>1. Off \in Orders /\ Withdrawn \in Beliefs
    BY Constants DEF Beliefs
  <1> QED
    BY <1>1, SendTyped, NothingTyped DEF withdraw

\* and a post.
LEMMA PostTyped ==
    ASSUME Typed, NEW next \in Pcs, NEW q \in Quotes, post(q, next)
    PROVE  PassTyped' /\ CacheKnows' /\ RepeatsAreNew'
  <1>1. q \in Orders /\ Posted(q, 0) \in Beliefs
    BY Constants DEF Beliefs, Posts, Posted
  <1> QED
    BY <1>1, SendTyped, NothingTyped DEF post

-----------------------------------------------------------------------------
(* Each action keeps the types.                                             *)

\* What a pass leaves alone, but for what it asks and wants.
LEMMA IdleTyped ==
    ASSUME Typed, Idle, spent' \in Nat, mid' \in Quotes, want' \in {"Quote", "Off"},
           live' \in BOOLEAN, view' = view
    PROVE  RestTyped'
  <1>1. UNCHANGED <<book, limit, into, phase, lead, env, config, read_retry, misfit, changes>>
    BY DEF Idle, vault, clocks
  <1>2. Anchored'
    BY <1>1 DEF Typed, RestTyped, Anchored, Left
  <1> QED
    BY <1>1, <1>2 DEF Typed, RestTyped

\* The actions of a pass keep the types.
LEMMA PassesTyped ==
    ASSUME Typed,
           \/ on_withdrawal \/ \E q \in Quotes : on_price(q)
           \/ price_and_post \/ ModelWithdraws \/ Skips \/ housekeeping
    PROVE  Typed'
  <1>1. /\ mid \in Quotes /\ want \in {"Quote", "Off"} /\ spent \in Nat /\ 0 \in Nat
        /\ live \in BOOLEAN
    BY DEF Typed, RestTyped
  <1>2. AfterModel \in Pcs /\ {"read", "wait", "model", "beat"} \subseteq Pcs
    BY DEF AfterModel, Pcs
  <1>3. CASE on_withdrawal
    <2>1. /\ withdraw("read") /\ Idle /\ UNCHANGED <<spent, mid, view>> /\ want' = "Off"
          /\ live' = FALSE
      BY <1>3 DEF on_withdrawal, withdraw
    <2> QED
      BY <1>1, <1>2, <2>1, WithdrawTyped, IdleTyped DEF Typed
  <1>4. ASSUME NEW q \in Quotes, on_price(q) PROVE Typed'
    <2>1. /\ mid' = q /\ want' = "Quote" /\ live' = TRUE /\ pc' = "model" /\ spent' = 0
          /\ view' = view /\ Nothing /\ Idle
      BY <1>4 DEF on_price
    <2>2. PassTyped' /\ CacheKnows' /\ RepeatsAreNew'
      BY <1>2, <2>1, NothingTyped
    <2>3. RestTyped'
      BY <2>1, IdleTyped
    <2> QED
      BY <2>2, <2>3 DEF Typed
  <1>5. CASE price_and_post
    <2>1. post(mid, AfterModel) /\ Idle /\ UNCHANGED <<mid, want, live, view>> /\ spent' = 0
      BY <1>5 DEF price_and_post
    <2> QED
      BY <1>1, <1>2, <2>1, PostTyped, IdleTyped DEF Typed
  <1>6. CASE ModelWithdraws
    <2>1. withdraw(AfterModel) /\ Idle /\ UNCHANGED <<mid, live, view>> /\ spent' = 0 /\ want' = "Off"
      BY <1>6 DEF ModelWithdraws, withdraw
    <2> QED
      BY <1>1, <1>2, <2>1, WithdrawTyped, IdleTyped DEF Typed
  <1>7. CASE Skips
    <2>1. /\ Fault /\ pc' = AfterModel /\ Idle
          /\ spent' = 0
          /\ UNCHANGED <<flight, fetched, sender, last, next_read, repeated, mid, want, live, view>>
      BY <1>7 DEF Skips
    <2>2. faults' \in Nat
      BY <2>1, FaultTyped DEF Typed, PassTyped
    <2>3. PassTyped' /\ CacheKnows' /\ RepeatsAreNew'
      BY <1>2, <2>1, <2>2 DEF Typed, PassTyped, CacheKnows, RepeatsAreNew, sender, Pcs
    <2> QED
      BY <1>1, <2>1, <2>3, IdleTyped DEF Typed
  <1>8. CASE housekeeping
    <2>1. Idle /\ mid' = mid /\ live' = live /\ view' = view
      BY <1>8 DEF housekeeping
    <2>2. \/ withdraw("wait") /\ spent' = spent /\ want' = "Off"
          \/ Nothing /\ pc' \in {"wait", "beat"} /\ want' = want /\ spent' \in {spent, 0}
      BY <1>8 DEF housekeeping, withdraw
    <2>3. PassTyped' /\ CacheKnows' /\ RepeatsAreNew'
      BY <1>2, <2>2, WithdrawTyped, NothingTyped
    <2>4. RestTyped'
      BY <1>1, <2>1, <2>2, IdleTyped
    <2> QED
      BY <2>3, <2>4 DEF Typed
  <1> QED
    BY <1>3, <1>4, <1>5, <1>6, <1>7, <1>8

\* The clock put on the chain's slot.
LEMMA AnchorTyped ==
    ASSUME RestTyped, anchor
    PROVE  /\ into' \in 0..Grain /\ phase' \in 0..(Grain - 1) /\ lead' \in 0..MaxLead
           /\ Anchored'
           /\ phase' = 0 /\ lead' = 0 /\ Left' = 0
  <1>1. into \in 0..Grain
    BY DEF RestTyped
  <1>2. into' = Least(into, Grain - 1) /\ phase' = 0 /\ lead' = 0
    BY DEF anchor
  <1> DEFINE i == Least(into, Grain - 1)
  <1>3. i \in 0..Grain /\ i + 0 < 0 * Grain + Grain
    BY <1>1, Constants, SMT DEF Least
  <1>4. Left' = 0
    BY <1>2 DEF Left
  <1> HIDE DEF i
  <1>5. Anchored'
    BY <1>2, <1>3, <1>4, Zenon DEF Anchored, i
  <1>6. 0 \in 0..(Grain - 1) /\ 0 \in 0..MaxLead
    BY Constants, SMT
  <1> QED
    BY <1>2, <1>3, <1>4, <1>5, <1>6 DEF i

\* A start keeps the types, whether it succeeds or not.
LEMMA StartsTyped ==
    ASSUME Typed, start \/ StartFails
    PROVE  Typed'
  <1>1. CASE start
    <2>1. CASE Readable(env) /\ fits(from_lookup(env), limit)
      <3>1. /\ pc' = "wait" /\ config' = from_lookup(env)
            /\ view' = [shows |-> book.shows, age |-> book.age, limit |-> limit]
            /\ next_read' = from_lookup(env).heartbeat
            /\ anchor
        BY <1>1, <2>1 DEF start
      <3>2. /\ UNCHANGED <<book, limit, flight, fetched, env, spent, mid, want, live, last, pending,
                           settled, hash, pause, next_pause, read_retry, misfit, repeated,
                           faults, changes>>
        BY <1>1 DEF start, vault, sender, history
      <3>3. env \in Envs /\ from_lookup(env) \in [Tunables -> Nat]
        BY <2>1, LookupTyped DEF Typed, RestTyped
      <3>4. next_read' \in Nat
        BY <3>1, <3>3 DEF Tunables
      <3>5. view' \in [shows : Orders, age : Nat, limit : Limits]
        BY <3>1, Constants DEF Typed, RestTyped
      <3>6. PassTyped' /\ CacheKnows' /\ RepeatsAreNew'
        BY <3>1, <3>2, <3>4 DEF Typed, PassTyped, CacheKnows, RepeatsAreNew
      <3>7. RestTyped'
        BY <3>1, <3>2, <3>3, <3>5, AnchorTyped DEF Typed, RestTyped
      <3> QED
        BY <3>6, <3>7 DEF Typed
    <2>2. CASE ~(Readable(env) /\ fits(from_lookup(env), limit))
      <3>1. /\ pc' = "stopped"
            /\ UNCHANGED <<book, limit, flight, fetched, env, spent, mid, want, live, last, pending,
                           settled, hash, pause, next_pause, read_retry, misfit, repeated,
                           faults, changes, config, view, next_read, into, phase, lead>>
        BY <1>1, <2>2 DEF start, vault, sender, history, clocks
      <3> QED
        BY <3>1 DEF Typed, PassTyped, RestTyped, CacheKnows, RepeatsAreNew, Anchored, Left
    <2> QED
      BY <2>1, <2>2
  <1>2. CASE StartFails
    <2>1. /\ Fault /\ pc' = "stopped"
          /\ UNCHANGED <<book, limit, flight, fetched, into, phase, lead, env, config, spent,
                         mid, want, live, last, pending, settled, hash, pause, next_pause, view,
                         next_read, read_retry, misfit, repeated, changes>>
      BY <1>2 DEF StartFails, vault, clocks, sender, reads
    <2>2. faults' \in Nat
      BY <2>1, FaultTyped DEF Typed, PassTyped
    <2> QED
      BY <2>1, <2>2 DEF Typed, PassTyped, RestTyped, CacheKnows, RepeatsAreNew, Anchored, Left
  <1> QED
    BY <1>1, <1>2

\* A read that fails, or ends the engine.
LEMMA FailuresTyped ==
    ASSUME Typed, ReadFails \/ ReadStops
    PROVE  Typed'
  <1>1. /\ Fault /\ pc' \in {"due", "stopped"} /\ read_retry' \in {LANDING_SLOTS, read_retry}
        /\ UNCHANGED <<book, limit, flight, fetched, into, phase, lead, env, config, spent,
                       mid, want, live, last, pending, settled, hash, pause, next_pause, view,
                       next_read, misfit, repeated, changes>>
    BY DEF ReadFails, ReadStops, vault, clocks, sender, reads
  <1>2. faults' \in Nat
    BY <1>1, FaultTyped DEF Typed, PassTyped
  <1>3. read_retry' \in Int
    BY <1>1, Constants, SMT DEF Typed, RestTyped
  <1> QED
    BY <1>1, <1>2, <1>3
       DEF Typed, PassTyped, RestTyped, CacheKnows, RepeatsAreNew, Anchored, Left

\* What the rule believes, with its age put back, and with the stamp found on the book.
LEMMA KnownTyped ==
    ASSUME Typed, NEW known, known = IF IsPosted(last) THEN [last EXCEPT !.age = @ - lead] ELSE last
    PROVE  /\ known \in Beliefs /\ known.at = last.at
           /\ IsPosted(last) => known.order = last.order /\ known.age = last.age - lead
           /\ landed_at(known, book.age) \in Beliefs /\ landed_at(known, book.age).at = last.at
           /\ IsPosted(last) => /\ landed_at(known, book.age).order = last.order
                                /\ landed_at(known, book.age).age
                                     = Most(last.age - lead, book.age)
  <1>1. last \in Beliefs /\ lead \in Int /\ book.age \in Int
    BY Constants, SMT DEF Typed, PassTyped, RestTyped
  <1>2. CASE IsPosted(last)
    <2>1. last \in Posts
      BY <1>1, <1>2 DEF Beliefs, IsPosted, Unknown, Withdrawn
    <2>2. last.age - lead \in Int /\ Most(last.age - lead, book.age) \in Int
      BY <1>1, <2>1, SMT DEF Posts, Most
    <2>3. known \in Posts /\ known.order = last.order /\ known.age = last.age - lead
      BY <1>2, <2>1, <2>2 DEF Posts
    <2>4. landed_at(known, book.age) = [known EXCEPT !.age = Most(last.age - lead, book.age)]
      BY <2>3 DEF landed_at, IsPosted, Posts
    <2>5. /\ landed_at(known, book.age) \in Posts
          /\ landed_at(known, book.age).order = last.order
          /\ landed_at(known, book.age).age = Most(last.age - lead, book.age)
      BY <2>2, <2>3, <2>4 DEF Posts
    <2> QED
      BY <1>2, <2>1, <2>3, <2>5 DEF Posts, Beliefs, IsPosted
  <1>3. CASE ~IsPosted(last)
    <2>1. known = last /\ landed_at(known, book.age) = last
      BY <1>3 DEF landed_at
    <2> QED
      BY <1>1, <1>3, <2>1
  <1> QED
    BY <1>2, <1>3

\* What a check leaves of the belief and of what the sender looks for.
LEMMA CheckTyped ==
    ASSUME Typed, NEW known, known = IF IsPosted(last) THEN [last EXCEPT !.age = @ - lead] ELSE last,
           check(known)
    PROVE  /\ pending' = None \/ pending' \in Pendings
           /\ settled' \in Orders \union {None}
           /\ last' \in Beliefs
  <1>1. known \in Beliefs /\ landed_at(known, book.age) \in Beliefs /\ Unknown \in Beliefs
    BY KnownTyped DEF Beliefs
  <1>2. last' \in Beliefs
    BY <1>1 DEF check
  <1>3. (pending = None \/ pending \in Pendings) /\ lead \in Int
    BY Constants, SMT DEF Typed, PassTyped, RestTyped
  <1>4. pending # None => /\ pending.order \in Orders
                          /\ [pending EXCEPT !.age = @ - lead, !.looked = TRUE] \in Pendings
    <2>1. ASSUME pending # None PROVE pending.age - lead \in Int
      BY <1>3, <2>1, SMT DEF Pendings
    <2> QED
      BY <1>3, <2>1 DEF Pendings
  <1>5. settled \in Orders \union {None}
    BY DEF Typed, PassTyped
  <1>6. settled' \in Orders \union {None}
    BY <1>4, <1>5 DEF check
  <1>7. pending' = None \/ pending' \in Pendings
    BY <1>4 DEF check
  <1> QED
    BY <1>2, <1>6, <1>7

\* A read that is answered keeps the types.
LEMMA RefreshTyped ==
    ASSUME Typed, refresh
    PROVE  Typed'
  <1>1. /\ anchor
        /\ UNCHANGED <<limit, flight, fetched, env, config, spent, mid, want, live, pause,
                       next_pause, misfit, repeated, faults, changes>>
    BY DEF refresh, history
  <1>2. /\ into' \in 0..Grain /\ phase' \in 0..(Grain - 1) /\ lead' \in 0..MaxLead
        /\ Anchored'
    BY <1>1, AnchorTyped DEF Typed
  <1>3. CASE limit = view.limit \/ fits(config, limit)
    <2> DEFINE known == IF IsPosted(last) THEN [last EXCEPT !.age = @ - lead] ELSE last
    <2>1. /\ pc' = "due" /\ check(known)
          /\ hash' = IF hash = None THEN None ELSE [hash EXCEPT !.age = @ - lead]
          /\ view' = [shows |-> book.shows, age |-> book.age, limit |-> limit]
          /\ next_read' = config.heartbeat
          /\ read_retry' = IF read_retry + lead > 0 THEN read_retry + lead ELSE -MaxLead
          /\ book' = [book EXCEPT !.ours = @ /\ last' # Unknown]
      BY <1>3 DEF refresh
    <2>2. /\ pending' = None \/ pending' \in Pendings
          /\ settled' \in Orders \union {None}
          /\ last' \in Beliefs
      <3> HIDE DEF known
      <3>1. known = IF IsPosted(last) THEN [last EXCEPT !.age = @ - lead] ELSE last
        BY DEF known
      <3> QED
        BY <2>1, <3>1, CheckTyped
    <2> HIDE DEF known
    <2>3. lead \in Int /\ read_retry \in Int /\ config.heartbeat \in Nat
      BY Constants, SMT DEF Typed, RestTyped, Tunables
    <2>4. (hash' = None \/ hash' \in [age : Int, signed : SUBSET Orders]) /\ CacheKnows'
      <3>1. CASE hash = None
        BY <1>1, <2>1, <3>1 DEF CacheKnows
      <3>2. CASE hash # None
        <4>1. hash \in [age : Int, signed : SUBSET Orders] /\ hash.age - lead \in Int
          BY <2>3, <3>2 DEF Typed, PassTyped
        <4>2. hash' \in [age : Int, signed : SUBSET Orders] /\ hash'.signed = hash.signed
          BY <2>1, <3>2, <4>1
        <4> QED
          BY <1>1, <3>2, <4>2 DEF Typed, CacheKnows
      <3> QED
        BY <3>1, <3>2
    <2>5. read_retry' \in Int
      BY <2>1, <2>3, Constants, SMT
    <2>6. book' \in [shows : Orders, age : 0..MaxStale, ours : BOOLEAN]
      BY <2>1 DEF Typed, RestTyped
    <2>7. view' \in [shows : Orders, age : Nat, limit : Limits]
      BY <2>1, Constants DEF Typed, RestTyped
    <2>8. PassTyped'
      BY <1>1, <2>1, <2>2, <2>3, <2>4 DEF Typed, PassTyped
    <2>9. RestTyped'
      BY <1>1, <1>2, <2>5, <2>6, <2>7 DEF Typed, RestTyped
    <2> QED
      BY <1>1, <2>4, <2>8, <2>9 DEF Typed, RepeatsAreNew
  <1>4. CASE ~(limit = view.limit \/ fits(config, limit))
    <2>1. pc' = "stopped" /\ UNCHANGED <<book, last, pending, settled, hash, view, next_read,
                                         read_retry>>
      BY <1>4 DEF refresh, reads
    <2> QED
      BY <1>1, <1>2, <2>1 DEF Typed, PassTyped, RestTyped, CacheKnows, RepeatsAreNew
  <1> QED
    BY <1>3, <1>4

-----------------------------------------------------------------------------
(* The network.                                                             *)

\* What leaves a sequence; without its first, the rest moves up.
LEMMA RemoveTyped ==
    ASSUME NEW S, NEW s \in Seq(S), NEW i \in DOMAIN s
    PROVE  /\ Remove(s, i) \in Seq(S)
           /\ Len(s) \in Nat /\ Len(Remove(s, i)) = Len(s) - 1
           /\ s[i] \in S
           /\ i = 1 => \A j \in 1..(Len(s) - 1) : Remove(s, i)[j] = s[j + 1]
  <1>1. Len(s) \in Nat /\ DOMAIN s = 1..Len(s) /\ i \in 1..Len(s)
    BY LenProperties
  <1>2. \A j \in 1..Len(s) : s[j] \in S
    BY <1>1, ElementOfSeq
  <1>3. /\ SubSeq(s, 1, i - 1) \in Seq(S)
        /\ Len(SubSeq(s, 1, i - 1)) = IF 1 <= i - 1 THEN (i - 1) - 1 + 1 ELSE 0
    <2>1. \A j \in 1..(i - 1) : s[j] \in S
      BY <1>1, <1>2, SMT
    <2>2. 1 \in Int /\ i - 1 \in Int
      BY <1>1, SMT
    <2> QED
      BY <2>1, <2>2, SubSeqProperties
  <1>4. /\ SubSeq(s, i + 1, Len(s)) \in Seq(S)
        /\ Len(SubSeq(s, i + 1, Len(s))) = IF i + 1 <= Len(s) THEN Len(s) - (i + 1) + 1 ELSE 0
        /\ \A j \in 1..(Len(s) - (i + 1) + 1) :
             SubSeq(s, i + 1, Len(s))[j] = s[(i + 1) + j - 1]
    <2>1. \A j \in (i + 1)..Len(s) : s[j] \in S
      BY <1>1, <1>2, SMT
    <2>2. i + 1 \in Int /\ Len(s) \in Int
      BY <1>1, SMT
    <2> QED
      BY <2>1, <2>2, SubSeqProperties
  <1> DEFINE a == SubSeq(s, 1, i - 1)
             b == SubSeq(s, i + 1, Len(s))
  <1>5. /\ a \in Seq(S) /\ Len(a) = i - 1
        /\ b \in Seq(S) /\ Len(b) = Len(s) - i
        /\ \A j \in 1..(Len(s) - i) : b[j] = s[i + j]
    BY <1>1, <1>3, <1>4, SMT
  <1>6. Remove(s, i) = a \o b
    BY DEF Remove
  <1> HIDE DEF a, b
  <1>7. /\ a \o b \in Seq(S) /\ Len(a \o b) = Len(a) + Len(b)
        /\ \A j \in 1..(Len(a) + Len(b)) : (a \o b)[j] = IF j <= Len(a) THEN a[j] ELSE b[j - Len(a)]
    BY <1>5, ConcatProperties
  <1>8. i = 1 => \A j \in 1..(Len(s) - 1) : (a \o b)[j] = s[j + 1]
    BY <1>1, <1>5, <1>7, SMT
  <1>9. Len(a \o b) = Len(s) - 1
    <2>1. Len(a) = i - 1 /\ Len(b) = Len(s) - i /\ Len(a \o b) = Len(a) + Len(b)
      BY <1>5, <1>7
    <2> QED
      BY <1>1, <2>1, SMT
  <1>10. a \o b \in Seq(S) /\ Len(s) \in Nat /\ s[i] \in S
    BY <1>1, <1>2, <1>7
  <1> QED
    BY <1>6, <1>8, <1>9, <1>10, Zenon

\* A delivery and a loss keep the types.
LEMMA NetworkTyped ==
    ASSUME Typed, NEW i \in DOMAIN flight, Deliver(i) \/ Drop(i)
    PROVE  Typed'
  <1>1. flight \in Seq(Flights)
    BY DEF Typed, PassTyped
  <1>2. Remove(flight, i) \in Seq(Flights) /\ flight[i] \in Flights
    BY <1>1, RemoveTyped
  <1>3. faults \in Nat /\ faults' \in Nat
    BY FaultTyped DEF Typed, PassTyped, Deliver, Drop
  <1>4. /\ UNCHANGED <<limit, into, phase, lead, env, config, pc, spent, mid, want, live, last,
                       pending, settled, hash, pause, next_pause, view, next_read, read_retry,
                       misfit, repeated, changes>>
        /\ flight' = Remove(flight, i)
    BY DEF Deliver, Drop, Engine, sender, reads, clocks, vault
  <1>5. book' \in [shows : Orders, age : 0..MaxStale, ours : BOOLEAN]
    <2>1. CASE Deliver(i)
      BY <1>2, <2>1, Constants, SMT DEF Deliver, Flights
    <2>2. CASE Drop(i)
      BY <2>2 DEF Drop, vault, Typed, RestTyped
    <2> QED
      BY <2>1, <2>2
  <1>6. /\ fetched' \in [moved : BOOLEAN, twice : BOOLEAN, signed : SUBSET Orders,
                         unsure : SUBSET Orders]
        /\ fetched'.twice = fetched.twice
        /\ fetched'.signed \ fetched'.unsure \subseteq fetched.signed \ fetched.unsure
    <2>1. fetched \in [moved : BOOLEAN, twice : BOOLEAN, signed : SUBSET Orders,
                       unsure : SUBSET Orders]
      BY DEF Typed, PassTyped
    <2>2. CASE Deliver(i)
      BY <2>1, <2>2 DEF Deliver
    <2>3. CASE Drop(i)
      <3>1. \/ fetched' = [fetched EXCEPT !.signed = @ \ {flight[i].order},
                                          !.unsure = @ \ {flight[i].order}]
            \/ fetched' = fetched
        BY <2>3 DEF Drop
      <3> QED
        BY <2>1, <3>1
    <2> QED
      BY <2>2, <2>3
  <1>7. CacheKnows' /\ RepeatsAreNew'
    BY <1>4, <1>6 DEF Typed, CacheKnows, RepeatsAreNew
  <1>8. PassTyped'
    BY <1>2, <1>3, <1>4, <1>6 DEF Typed, PassTyped
  <1>9. RestTyped'
    BY <1>4, <1>5 DEF Typed, RestTyped, Anchored, Left
  <1> QED
    BY <1>7, <1>8, <1>9 DEF Typed

\* A change of the limit keeps the types.
LEMMA LimitTyped ==
    ASSUME Typed, NEW l \in Limits, SetLimit(l)
    PROVE  Typed'
  <1>1. /\ limit' = l /\ misfit' = 0 /\ changes' = changes + 1
        /\ UNCHANGED <<book, flight, fetched, into, phase, lead, env, config, pc, spent, mid,
                       want, live, last, pending, settled, hash, pause, next_pause, view, next_read,
                       read_retry, repeated, faults>>
    BY DEF SetLimit, Engine, sender, reads, clocks
  <1>2. misfit' \in Nat /\ changes' \in Nat
    BY <1>1, SMT DEF Typed, RestTyped
  <1> QED
    BY <1>1, <1>2 DEF Typed, PassTyped, RestTyped, CacheKnows, RepeatsAreNew, Anchored, Left

-----------------------------------------------------------------------------
(* Time.                                                                    *)

\* The chain ends a slot only behind the engine's clock.
LEMMA SlotBehind ==
    ASSUME NEW g \in Nat \ {0}, NEW l \in Nat, NEW r \in Nat, r < g, g + r < l * g + g
    PROVE  l >= 1 /\ l - 1 \in Nat /\ 0 + r < (l - 1) * g + g
  <1>1. ASSUME l = 0 PROVE FALSE
    <2>1. l * g = 0
      BY <1>1, SMT
    <2> QED
      BY <2>1, SMT
  <1>2. l - 1 \in Nat /\ l >= 1
    BY <1>1, SMT
  <1>3. (l - 1) * g \in Nat
    BY <1>2, SMT
  <1> QED
    BY <1>2, <1>3, SMT

\* A quotient rounded up is the least natural that reaches.
LEMMA CeilBounds ==
    ASSUME NEW a \in Nat, NEW b \in Nat \ {0}
    PROVE  /\ CeilDiv(a, b) \in Nat
           /\ \A n \in Int : n * b <= a + (b - 1) => n <= CeilDiv(a, b)
  <1> DEFINE x == a + b - 1
             k == x \div b
  <1>1. x \in Nat /\ x = a + (b - 1)
    BY SMT
  <1> HIDE DEF x
  <1>2. k \in Nat /\ x < (k + 1) * b
    BY <1>1, SMT
  <1>3. CeilDiv(a, b) = k
    BY DEF CeilDiv, x
  <1> HIDE DEF k
  <1>4. ASSUME NEW n \in Int, n * b <= a + (b - 1), n > k PROVE FALSE
    <2>1. n - (k + 1) \in Nat
      BY <1>2, <1>4, SMT
    <2>2. (n - (k + 1)) * b \in Nat
      BY <2>1, SMT
    <2>3. (n - (k + 1)) * b = n * b - (k + 1) * b
      BY <1>2, SMT
    <2> QED
      BY <1>1, <1>2, <1>4, <2>2, <2>3, SMT
  <1>5. \A n \in Int : n * b <= a + (b - 1) => n <= k
    BY <1>2, <1>4, SMT
  <1> QED
    BY <1>2, <1>3, <1>5

\* How long the model may be asked, in slots.
Budget == CeilDiv(config.budget, Grain)

\* The settings as numbers.
LEMMA BudgetTyped ==
    ASSUME Typed
    PROVE  /\ Budget \in Nat /\ config.budget \in Nat /\ config.heartbeat \in Nat
           /\ LastCap \in Nat /\ LastCap = config.heartbeat + Budget + MaxLead
  <1>1. config.budget \in Nat /\ config.heartbeat \in Nat
    BY DEF Typed, RestTyped, Tunables
  <1>2. Budget \in Nat
    BY <1>1, Constants, CeilBounds DEF Budget
  <1>3. LastCap = config.heartbeat + Budget + MaxLead
    BY DEF LastCap, Budget
  <1> QED
    BY <1>1, <1>2, <1>3, Constants, SMT

\* What is left of a slot is less than a slot.
LEMMA LeftBounds ==
    ASSUME Typed
    PROVE  Left \in Nat /\ Left < Grain
  <1>1. phase \in 0..(Grain - 1) /\ Grain \in Nat
    BY Constants DEF Typed, RestTyped
  <1> QED
    BY <1>1, SMT DEF Left

\* The chain's next slot makes older what is in flight.
LEMMA ChainFlight ==
    ASSUME Typed, ChainMoves
    PROVE  /\ flight' \in Seq(Flights) /\ Len(flight') = Len(flight) /\ Len(flight) \in Nat
           /\ \A i \in 1..Len(flight) : /\ flight'[i].order = flight[i].order
                                        /\ flight'[i].age = flight[i].age + 1
  <1> DEFINE old == [i \in DOMAIN flight |-> [flight[i] EXCEPT !.age = @ + 1]]
  <1>1. flight' = old /\ \A i \in DOMAIN flight : flight[i].age < LANDING_SLOTS
    BY DEF ChainMoves
  <1>2. /\ flight \in Seq(Flights) /\ Len(flight) \in Nat /\ DOMAIN flight = 1..Len(flight)
        /\ \A i \in 1..Len(flight) : flight[i] \in Flights
    <2>1. flight \in Seq(Flights)
      BY DEF Typed, PassTyped
    <2> QED
      BY <2>1, LenProperties, ElementOfSeq
  <1>3. \A i \in DOMAIN flight : /\ [flight[i] EXCEPT !.age = @ + 1] \in Flights
                                 /\ [flight[i] EXCEPT !.age = @ + 1].order = flight[i].order
                                 /\ [flight[i] EXCEPT !.age = @ + 1].age = flight[i].age + 1
    <2> SUFFICES ASSUME NEW f \in Flights, f.age < LANDING_SLOTS
                 PROVE  /\ [f EXCEPT !.age = @ + 1] \in Flights
                        /\ [f EXCEPT !.age = @ + 1].order = f.order
                        /\ [f EXCEPT !.age = @ + 1].age = f.age + 1
      BY <1>1, <1>2
    <2>1. f.age + 1 \in 0..LANDING_SLOTS
      BY Constants, SMT DEF Flights
    <2> QED
      BY <2>1 DEF Flights
  <1>4. old \in [DOMAIN flight -> Flights]
    BY <1>3
  <1>5. old \in Seq(Flights) /\ Len(old) = Len(flight)
    <2> HIDE DEF old
    <2> QED
      BY <1>2, <1>4, Mapped
  <1> QED
    BY <1>1, <1>2, <1>3, <1>5

\* The chain's next slot keeps the types, and takes one from the lead.
LEMMA ChainTyped ==
    ASSUME Typed, ChainMoves
    PROVE  Typed' /\ lead >= 1 /\ lead' = lead - 1
  <1>1. /\ into = Grain /\ into' = 0 /\ lead' = lead - 1
        /\ book' = [book EXCEPT !.age = IF book.shows = Off THEN 0 ELSE @ + 1]
        /\ book.shows # Off => book.age < MaxStale
        /\ view' = [view EXCEPT !.age = IF view.shows = Off THEN 0 ELSE Least(@ + 1, MaxStale)]
        /\ pending' = IF pending = None THEN None
                      ELSE [pending EXCEPT !.baseline = Older(@, MaxStale)]
        /\ fetched' = [fetched EXCEPT !.moved = TRUE]
        /\ UNCHANGED <<limit, phase, env, config, pc, spent, mid, want, live, last, settled, hash,
                       pause, next_pause, next_read, read_retry, misfit, repeated, faults,
                       changes>>
    BY DEF ChainMoves, history
  <1>2. /\ lead \in Nat /\ lead <= MaxLead /\ Grain \in Nat \ {0} /\ MaxLead \in Nat
        /\ Left \in Nat /\ Left < Grain /\ Grain + Left < lead * Grain + Grain
    BY <1>1, LeftBounds, Constants, SMT DEF Typed, RestTyped, Anchored
  <1>3. lead >= 1 /\ lead - 1 \in Nat /\ 0 + Left < (lead - 1) * Grain + Grain
    BY <1>2, SlotBehind
  <1>4. lead - 1 \in 0..MaxLead /\ 0 \in 0..Grain
    BY <1>2, <1>3, SMT
  <1>5. Left' = Left
    BY <1>1 DEF Left
  <1>6. Anchored'
    BY <1>1, <1>3, <1>5, Zenon DEF Anchored
  <1>7. book' \in [shows : Orders, age : 0..MaxStale, ours : BOOLEAN]
    <2>1. book \in [shows : Orders, age : 0..MaxStale, ours : BOOLEAN]
      BY DEF Typed, RestTyped
    <2>2. (IF book.shows = Off THEN 0 ELSE book.age + 1) \in 0..MaxStale
      BY <1>1, <2>1, Constants, SMT
    <2> QED
      BY <1>1, <2>1, <2>2
  <1>8. view' \in [shows : Orders, age : Nat, limit : Limits]
    <2>1. view \in [shows : Orders, age : Nat, limit : Limits]
      BY DEF Typed, RestTyped
    <2>2. (IF view.shows = Off THEN 0 ELSE Least(view.age + 1, MaxStale)) \in Nat
      BY <2>1, Constants, SMT DEF Least
    <2> QED
      BY <1>1, <2>1, <2>2
  <1>9. pending' = None \/ pending' \in Pendings
    <2>1. CASE pending = None
      BY <1>1, <2>1
    <2>2. CASE pending # None
      <3>1. pending \in Pendings
        BY <2>2 DEF Typed, PassTyped
      <3>2. Older(pending.baseline, MaxStale) \in Nat \union {None}
        <4>1. pending.baseline \in Nat \union {None}
          BY <3>1 DEF Pendings
        <4> QED
          BY <4>1, Constants, SMT DEF Older, Least
      <3> QED
        BY <1>1, <2>2, <3>1, <3>2 DEF Pendings
    <2> QED
      BY <2>1, <2>2
  <1>10. fetched' \in [moved : BOOLEAN, twice : BOOLEAN, signed : SUBSET Orders,
                       unsure : SUBSET Orders]
         /\ fetched'.twice = fetched.twice /\ fetched'.signed = fetched.signed
         /\ fetched'.unsure = fetched.unsure
    BY <1>1 DEF Typed, PassTyped
  <1>11. flight' \in Seq(Flights)
    BY ChainFlight
  <1>12. PassTyped'
    BY <1>1, <1>9, <1>10, <1>11 DEF Typed, PassTyped
  <1>13. RestTyped'
    BY <1>1, <1>4, <1>6, <1>7, <1>8 DEF Typed, RestTyped
  <1>14. CacheKnows' /\ RepeatsAreNew'
    BY <1>1, <1>10 DEF Typed, CacheKnows, RepeatsAreNew
  <1> QED
    BY <1>1, <1>3, <1>12, <1>13, <1>14 DEF Typed

\* The engine's clock: within its slot, and at the turn of one.
LEMMA PhaseTurns ==
    ASSUME Typed, Tick
    PROVE  /\ phase' = IF phase + 1 = Grain THEN 0 ELSE phase + 1
           /\ phase' \in 0..(Grain - 1)
           /\ Left' = (IF phase = 0 THEN Grain ELSE Left) - 1
           /\ Left' \in Nat
  <1>1. phase \in 0..(Grain - 1) /\ Grain \in Nat \ {0} /\ phase' = (phase + 1) % Grain
    BY Constants DEF Typed, RestTyped, Tick
  <1>2. CASE phase + 1 = Grain
    <2>1. (phase + 1) % Grain = 0
      BY <1>1, <1>2, SMT
    <2>2. (IF phase = 0 THEN Grain ELSE Left) - 1 = 0
      BY <1>1, <1>2, SMT DEF Left
    <2>3. phase' = 0 /\ Left' = 0
      BY <1>1, <2>1 DEF Left
    <2>4. 0 \in 0..(Grain - 1) /\ 0 \in Nat
      BY <1>1, SMT
    <2> QED
      BY <1>2, <2>2, <2>3, <2>4
  <1>3. CASE phase + 1 # Grain
    <2>1. (phase + 1) % Grain = phase + 1 /\ phase + 1 \in 0..(Grain - 1) /\ phase + 1 # 0
      BY <1>1, <1>3, SMT
    <2>2. /\ (IF phase = 0 THEN Grain ELSE Left) - 1 = Grain - (phase + 1)
          /\ Grain - (phase + 1) \in Nat
      BY <1>1, <1>3, SMT DEF Left
    <2>3. phase' = phase + 1 /\ Left' = Grain - (phase + 1)
      BY <1>1, <2>1 DEF Left
    <2> QED
      BY <1>3, <2>1, <2>2, <2>3
  <1> QED
    BY <1>2, <1>3

\* A tick keeps the types.
LEMMA TickTyped ==
    ASSUME Typed, Tick
    PROVE  Typed'
  <1>1. /\ into' = Least(into + 1, Grain)
        /\ SlotBegins => lead < MaxLead
        /\ lead' = IF SlotBegins THEN lead + 1 ELSE lead
        /\ spent' = IF Asked THEN spent + 1 ELSE spent
        /\ pause' = IF pause = None THEN None ELSE Most(pause - 1, 0)
        /\ misfit' = IF Fit THEN 0 ELSE misfit + 1
        /\ UNCHANGED <<book, limit, flight, fetched, env, config, pc, mid, want, live,
                       settled, next_pause, view, repeated, faults, changes>>
    BY DEF Tick, vault
  <1>2. /\ into \in 0..Grain /\ lead \in 0..MaxLead /\ spent \in Nat /\ misfit \in Nat
        /\ pause \in Nat \union {None} /\ read_retry \in Int /\ next_read \in Nat
        /\ config \in [Tunables -> Nat]
    BY DEF Typed, PassTyped, RestTyped
  <1>3. Grain \in Nat \ {0} /\ MaxLead \in Nat /\ LOST_AFTER_SLOTS \in Nat /\ None \notin Int
        /\ BLOCKHASH_MAX_AGE_SLOTS \in Nat
    BY Constants
  <1>4. into' \in 0..Grain /\ lead' \in 0..MaxLead /\ spent' \in Nat /\ misfit' \in Nat
    <2>1. Least(into + 1, Grain) \in 0..Grain
      BY <1>2, <1>3, SMT DEF Least
    <2>2. (IF SlotBegins THEN lead + 1 ELSE lead) \in 0..MaxLead
      BY <1>1, <1>2, <1>3, SMT
    <2>3. spent + 1 \in Nat /\ misfit + 1 \in Nat
      BY <1>2, SMT
    <2> QED
      BY <1>1, <1>2, <2>1, <2>2, <2>3
  <1>5. pause' \in Nat \union {None}
    <2>1. pause # None => Most(pause - 1, 0) \in Nat
      BY <1>2, SMT DEF Most
    <2> QED
      BY <1>1, <2>1
  <1>6. Anchored'
    <2>1. Left' = (IF phase = 0 THEN Grain ELSE Left) - 1
      BY PhaseTurns
    <2>2. Left \in Nat /\ into + Left < lead * Grain + Grain
      BY LeftBounds DEF Typed, RestTyped, Anchored
    <2>3. (lead + 1) * Grain = lead * Grain + Grain /\ lead * Grain \in Nat
      BY <1>2, <1>3, SMT
    <2>4. Least(into + 1, Grain) <= into + 1 /\ Least(into + 1, Grain) \in Nat
      BY <1>2, <1>3, SMT DEF Least
    <2>5. CASE SlotBegins
      <3>1. phase = 0 /\ Left = 0
        BY <2>5 DEF SlotBegins, Left
      <3>2. Least(into + 1, Grain) + (Grain - 1) < (lead + 1) * Grain + Grain
        BY <1>2, <1>3, <2>2, <2>3, <2>4, <3>1, SMT
      <3>3. into' = Least(into + 1, Grain) /\ lead' = lead + 1 /\ Left' = Grain - 1
        BY <1>1, <2>1, <2>5, <3>1
      <3> QED
        BY <3>2, <3>3, Zenon DEF Anchored
    <2>6. CASE ~SlotBegins
      <3>1. phase # 0
        BY <2>6 DEF SlotBegins
      <3>2. Least(into + 1, Grain) + (Left - 1) < lead * Grain + Grain
        BY <1>2, <1>3, <2>2, <2>3, <2>4, SMT
      <3>3. into' = Least(into + 1, Grain) /\ lead' = lead /\ Left' = Left - 1
        BY <1>1, <2>1, <2>6, <3>1
      <3> QED
        BY <3>2, <3>3, Zenon DEF Anchored
    <2> QED
      BY <2>5, <2>6
  <1>7. /\ last' \in Beliefs /\ (pending' = None \/ pending' \in Pendings)
        /\ (hash' = None \/ hash' \in [age : Int, signed : SUBSET Orders])
        /\ hash = None => hash' = None
        /\ hash # None => hash'.signed = hash.signed
        /\ next_read' \in Nat /\ read_retry' \in Int
    <2>1. CASE SlotBegins
      <3>1. /\ last' = IF IsPosted(last) THEN [last EXCEPT !.age = Least(@ + 1, LastCap)] ELSE last
            /\ pending' = IF pending = None THEN None
                          ELSE [pending EXCEPT !.age = Least(@ + 1, LOST_AFTER_SLOTS + MaxLead)]
            /\ hash' = IF hash = None THEN None
                       ELSE [hash EXCEPT !.age = Least(@ + 1, BLOCKHASH_MAX_AGE_SLOTS + MaxLead)]
            /\ next_read' = Most(next_read - 1, 0)
            /\ read_retry' = Most(read_retry - 1, -MaxLead)
        BY <2>1 DEF Tick
      <3>2. LastCap \in Nat
        BY BudgetTyped
      <3>3. last' \in Beliefs
        <4>1. CASE IsPosted(last)
          <5>1. last \in Posts
            BY <4>1 DEF Typed, PassTyped, Beliefs, IsPosted, Unknown, Withdrawn
          <5>2. Least(last.age + 1, LastCap) \in Int
            BY <3>2, <5>1, SMT DEF Posts, Least
          <5> QED
            BY <3>1, <4>1, <5>1, <5>2 DEF Posts, Beliefs
        <4> QED
          BY <3>1, <4>1 DEF Typed, PassTyped
      <3>4. pending' = None \/ pending' \in Pendings
        <4>1. CASE pending # None
          <5>1. pending \in Pendings
            BY <4>1 DEF Typed, PassTyped
          <5>2. Least(pending.age + 1, LOST_AFTER_SLOTS + MaxLead) \in Int
            BY <1>3, <5>1, SMT DEF Pendings, Least
          <5> QED
            BY <3>1, <4>1, <5>1, <5>2 DEF Pendings
        <4> QED
          BY <3>1, <4>1
      <3>5. hash # None => hash' \in [age : Int, signed : SUBSET Orders]
                          /\ hash'.signed = hash.signed
        <4> SUFFICES ASSUME hash # None
                     PROVE  hash' \in [age : Int, signed : SUBSET Orders]
                            /\ hash'.signed = hash.signed
          OBVIOUS
        <4>1. hash \in [age : Int, signed : SUBSET Orders]
          BY DEF Typed, PassTyped
        <4>2. Least(hash.age + 1, BLOCKHASH_MAX_AGE_SLOTS + MaxLead) \in Int
          BY <1>3, <4>1, SMT DEF Least
        <4> QED
          BY <3>1, <4>1, <4>2
      <3>6. Most(next_read - 1, 0) \in Nat /\ Most(read_retry - 1, -MaxLead) \in Int
        BY <1>2, <1>3, SMT DEF Most
      <3> QED
        BY <3>1, <3>3, <3>4, <3>5, <3>6
    <2>2. CASE ~SlotBegins
      <3>1. UNCHANGED <<last, pending, hash, next_read, read_retry>>
        BY <2>2 DEF Tick
      <3> QED
        BY <3>1 DEF Typed, PassTyped, RestTyped
    <2> QED
      BY <2>1, <2>2
  <1>8. CacheKnows' /\ RepeatsAreNew'
    BY <1>1, <1>7 DEF Typed, CacheKnows, RepeatsAreNew
  <1>9. PassTyped'
    BY <1>1, <1>5, <1>7 DEF Typed, PassTyped
  <1>10. RestTyped'
    BY <1>1, <1>4, <1>6, <1>7, PhaseTurns DEF Typed, RestTyped
  <1> QED
    BY <1>8, <1>9, <1>10 DEF Typed

-----------------------------------------------------------------------------
(* The types and the signatures, always.                                    *)

\* The types hold at the beginning,
LEMMA InitTyped == Init => Typed
  <1> SUFFICES ASSUME Init PROVE Typed
    OBVIOUS
  <1>1. book \in [shows : Orders, age : 0..MaxStale, ours : BOOLEAN]
    <2>1. 0 \in 0..MaxStale /\ 1 \in 0..MaxStale
      BY Constants, SMT
    <2>2. CASE book = [shows |-> Off, age |-> 0, ours |-> FALSE]
      BY <2>1, <2>2, Constants
    <2>3. ASSUME NEW q \in Quotes, book = [shows |-> q, age |-> 1, ours |-> FALSE]
          PROVE  book \in [shows : Orders, age : 0..MaxStale, ours : BOOLEAN]
      BY <2>1, <2>3, Constants
    <2> QED
      BY <2>2, <2>3 DEF Init
  <1>2. << >> \in Seq(Flights)
    BY EmptySeq
  <1>3. /\ into \in 0..Grain /\ phase \in 0..(Grain - 1) /\ lead \in 0..MaxLead /\ Anchored
    <2>1. into \in 0..(Grain - 1) /\ phase = 0 /\ lead = 0
      BY DEF Init
    <2>2. Left = 0
      BY <2>1 DEF Left
    <2>3. Grain \in Nat \ {0} /\ MaxLead \in Nat
      BY Constants
    <2>4. into + 0 < 0 * Grain + Grain
      BY <2>1, <2>3, SMT
    <2>5. Anchored
      BY <2>1, <2>2, <2>4, Zenon DEF Anchored
    <2> QED
      BY <2>1, <2>3, <2>5, SMT
  <1>4. -MaxLead \in Int /\ Grain \in Grain..SEND_BACKOFF_MAX
    BY Constants, SMT
  <1>5. fetched \in [moved : BOOLEAN, twice : BOOLEAN, signed : SUBSET Orders,
                     unsure : SUBSET Orders]
    BY DEF Init
  <1>6. view \in [shows : Orders, age : Nat, limit : Limits]
    BY Constants DEF Init
  <1>7. PassTyped
    BY <1>2, <1>4, <1>5 DEF Init, PassTyped, Beliefs
  <1>8. RestTyped
    BY <1>1, <1>3, <1>4, <1>6, Constants DEF Init, RestTyped
  <1>9. CacheKnows /\ RepeatsAreNew
    BY Constants DEF Init, CacheKnows, RepeatsAreNew
  <1> QED
    BY <1>7, <1>8, <1>9 DEF Typed

\* every step keeps them,
LEMMA StepTyped ==
    ASSUME Typed, [Next]_vars
    PROVE  Typed'
  <1>1. CASE UNCHANGED vars
    BY <1>1 DEF vars, vault, clocks, sender, reads, history, Typed, PassTyped, RestTyped,
       CacheKnows, RepeatsAreNew, Anchored, Left
  <1>2. CASE start \/ StartFails
    BY <1>2, StartsTyped
  <1>3. CASE \/ on_withdrawal \/ \E q \in Quotes : on_price(q)
             \/ price_and_post \/ ModelWithdraws \/ Skips \/ housekeeping
    BY <1>3, PassesTyped
  <1>4. CASE ReadFails \/ ReadStops
    BY <1>4, FailuresTyped
  <1>5. CASE refresh
    BY <1>5, RefreshTyped
  <1>6. CASE \E i \in DOMAIN flight : Deliver(i) \/ Drop(i)
    BY <1>6, NetworkTyped
  <1>7. CASE \E l \in Limits : SetLimit(l)
    BY <1>7, LimitTyped
  <1>8. CASE Tick
    BY <1>8, TickTyped
  <1>9. CASE ChainMoves
    BY <1>9, ChainTyped
  <1> QED
    BY <1>1, <1>2, <1>3, <1>4, <1>5, <1>6, <1>7, <1>8, <1>9 DEF Next

\* and so they hold always.
LEMMA AlwaysTyped == Spec => []Typed
  <1>1. Init => Typed
    BY InitTyped
  <1>2. Typed /\ [Next]_vars => Typed'
    BY StepTyped
  <1> QED
    BY <1>1, <1>2, PTL DEF Spec

\* Every variable keeps its type: the engine's clock is never behind the chain's slot, and
\* nothing stays in the network longer than the landing slots.
THEOREM HeartbeatTyped == Spec => []TypeOK
  BY AlwaysTyped, TypedIsTypeOK, PTL

\* What the node has taken is sent again as another transaction: the cached blockhash
\* remembers it, through refusals, retries and reads.  Only a node that hands out one
\* blockhash twice, or one that does not answer, makes a repeat (Sender::sign).
THEOREM RepeatsNew == Spec => []RepeatsAreNew
  <1>1. Typed => RepeatsAreNew
    BY DEF Typed
  <1> QED
    BY <1>1, AlwaysTyped, PTL

-----------------------------------------------------------------------------
(* The reads of the book, as long as none fails.                            *)

\* An engine that runs, and no call of it has failed so far.
Calm == Running /\ faults = 0

\* Before the engine runs nothing is its own.
Fresh ==
    pc = "start" =>
        /\ misfit = 0 /\ read_retry = -MaxLead /\ pause = None
        /\ last = Unknown /\ pending = None /\ flight = <<>> /\ ~book.ours

\* The settings fit in the limit last read, and the count runs while they do not fit in
\* the one that is.
FitsWhatItRead ==
    Running => /\ fits(config, view.limit)
               /\ misfit > 0 => ~fits(config, limit)

\* Ticks of the slot the engine's clock shows, all of them at its turn.
Turn == IF phase = 0 THEN Grain ELSE phase

\* A read that is due comes before the engine waits or asks again, so the count is within
\* the ticks until the next one, or the model that holds it up.
ReadOnTime ==
    Calm =>
        /\ read_retry = -MaxLead
        /\ next_read <= config.heartbeat
        /\ pc = "due" => ~read_due
        /\ Asked => spent <= config.budget
        /\ IF next_read > 0
           THEN misfit + 1 + Grain * next_read <= Grain * config.heartbeat + Turn
           ELSE misfit <= Grain * config.heartbeat + (IF Asked THEN spent ELSE config.budget)

\* Nothing was refused, so nothing pauses; and nothing is posted that is not wanted.
Unhindered ==
    /\ Calm => pause = None
    /\ Asked => want = "Quote"
    /\ want = "Off" => ~IsPosted(last)
    /\ book.shows = Off => book.age = 0

\* The invariant of the reads.
Timely == Fresh /\ FitsWhatItRead /\ ReadOnTime /\ Unhindered

\* What the settings must satisfy to fit in a limit.
LEMMA FitsFacts ==
    ASSUME NEW c, NEW m, fits(c, m)
    PROVE  /\ c.heartbeat > 0
           /\ c.heartbeat + CeilDiv(c.budget, Grain) + LANDING_SLOTS <= m
  BY DEF fits, rule_fits

\* What a calm engine sends is taken.
LEMMA CalmSend ==
    ASSUME Typed, NEW order, NEW belief, NEW next, send(order, belief, next), Calm'
    PROVE  Taken(order) /\ last' = belief /\ pc' = next
  <1>1. ~Fault
    <2>1. faults \in Nat /\ faults' = 0
      BY DEF Typed, PassTyped, Calm
    <2> QED
      BY <2>1, FaultTyped
  <1> QED
    BY <1>1, SendCases DEF Retaken, Refused, RefusedForGood

\* How a pass ends.
Ends(next) ==
    /\ pc' \in {next, "stopped"}
    /\ Calm' => /\ pc' = next /\ faults = 0 /\ next_read' = next_read
                /\ pause' \in {pause, None}

\* A send, a pass that sends nothing, a withdrawal and a post end like that.
LEMMA SendEnds ==
    ASSUME Typed, NEW order, NEW belief, NEW next, send(order, belief, next)
    PROVE  Ends(next) /\ last' \in {belief, Unknown}
  <1>1. pc' \in {next, "stopped"} /\ last' \in {belief, Unknown}
    BY SendCases
  <1>2. ASSUME Calm' PROVE /\ pc' = next /\ faults = 0 /\ next_read' = next_read
                           /\ pause' \in {pause, None}
    BY <1>2, CalmSend DEF Taken, Accepted, Calm
  <1> QED
    BY <1>1, <1>2 DEF Ends

\* A pass that sends nothing leaves the belief.
LEMMA NothingEnds ==
    ASSUME NEW next, Nothing, pc' = next
    PROVE  Ends(next) /\ last' = last
  BY DEF Ends, Nothing, sender, Calm

\* A withdrawal leaves no quote believed in.
LEMMA WithdrawEnds ==
    ASSUME Typed, NEW next, withdraw(next)
    PROVE  Ends(next) /\ want' = "Off" /\ ~IsPosted(last')
  <1>1. CASE last # Withdrawn
    <2>1. send(Off, Withdrawn, next) /\ want' = "Off"
      BY <1>1 DEF withdraw
    <2> QED
      BY <2>1, SendEnds DEF IsPosted, Withdrawn, Unknown
  <1>2. CASE last = Withdrawn
    <2>1. pc' = next /\ Nothing /\ want' = "Off"
      BY <1>2 DEF withdraw
    <2> QED
      BY <1>2, <2>1, NothingEnds DEF IsPosted, Withdrawn
  <1> QED
    BY <1>1, <1>2

\* A post, sent or not.
LEMMA PostEnds ==
    ASSUME Typed, NEW next, NEW q, post(q, next)
    PROVE  Ends(next)
  BY SendEnds, NothingEnds DEF post

\* A pass puts no read off.
LEMMA PassTimely ==
    ASSUME Typed, Timely, Running, Idle, view' = view,
           pc' \in {"wait", "read", "model", "beat", "stopped"},
           Calm' => /\ faults = 0 /\ next_read' = next_read /\ pause' \in {pause, None}
                    /\ Asked' => spent' = 0 /\ next_read > 0,
           Asked' => want' = "Quote",
           want' = "Off" => ~IsPosted(last')
    PROVE  Timely'
  <1>1. UNCHANGED <<book, limit, phase, config, read_retry, misfit>> /\ view' = view
    BY DEF Idle, vault, clocks
  <1>2. Fresh'
    BY DEF Fresh
  <1>3. FitsWhatItRead'
    BY <1>1 DEF Timely, FitsWhatItRead
  <1>4. Unhindered'
    BY <1>1 DEF Timely, Unhindered, Calm
  <1>5. ReadOnTime'
    <2> SUFFICES ASSUME Calm'
                 PROVE  /\ read_retry' = -MaxLead
                        /\ next_read' <= config'.heartbeat
                        /\ pc' = "due" => ~read_due'
                        /\ Asked' => spent' <= config'.budget
                        /\ IF next_read' > 0
                           THEN misfit' + 1 + Grain * next_read' <= Grain * config'.heartbeat + Turn'
                           ELSE misfit' <= Grain * config'.heartbeat
                                             + (IF Asked' THEN spent' ELSE config'.budget)
      BY DEF ReadOnTime
    <2>1. /\ Calm /\ next_read' = next_read /\ Turn' = Turn
          /\ Asked' => spent' = 0 /\ next_read > 0
      BY <1>1 DEF Calm, Turn
    <2>2. /\ read_retry = -MaxLead /\ next_read <= config.heartbeat
          /\ Asked => spent <= config.budget
          /\ IF next_read > 0
             THEN misfit + 1 + Grain * next_read <= Grain * config.heartbeat + Turn
             ELSE misfit <= Grain * config.heartbeat + (IF Asked THEN spent ELSE config.budget)
      BY <2>1 DEF Timely, ReadOnTime
    <2>3. /\ config.budget \in Nat /\ config.heartbeat \in Nat /\ spent \in Nat /\ misfit \in Nat
          /\ Grain \in Nat
      BY BudgetTyped, Constants DEF Typed, RestTyped
    <2>4. Asked' => 0 <= config.budget /\ spent' = 0
      BY <2>1, <2>3, SMT
    <2>5. ~(next_read > 0) => misfit <= Grain * config.heartbeat + config.budget
      <3>1. Grain * config.heartbeat \in Nat
        BY <2>3, SMT
      <3> QED
        BY <2>2, <2>3, <3>1, SMT
    <2> QED
      BY <1>1, <2>1, <2>2, <2>4, <2>5
  <1> QED
    BY <1>2, <1>3, <1>4, <1>5 DEF Timely

\* The model is asked only when no read is due.
LEMMA NoReadDue ==
    ASSUME Typed, Timely, Calm, ~read_due
    PROVE  next_read > 0 /\ ~check_due
  <1>1. read_retry <= 0
    <2>1. read_retry = -MaxLead
      BY DEF Timely, ReadOnTime
    <2> QED
      BY <2>1, Constants, SMT
  <1>2. next_read \in Nat
    BY DEF Typed, PassTyped
  <1> QED
    BY <1>1, <1>2, SMT DEF read_due

\* The actions of a pass put no read off.
LEMMA PassesTimely ==
    ASSUME Typed, Timely,
           \/ on_withdrawal \/ \E q \in Quotes : on_price(q)
           \/ price_and_post \/ ModelWithdraws \/ Skips \/ housekeeping
    PROVE  Timely'
  <1>0. Unhindered
    BY DEF Timely
  <1>1. AfterModel \in {"read", "wait"}
    BY DEF AfterModel
  <1>2. CASE on_withdrawal
    <2>1. /\ withdraw("read") /\ Idle /\ view' = view /\ Running
      BY <1>2 DEF on_withdrawal, Running
    <2>2. Ends("read") /\ want' = "Off" /\ ~IsPosted(last')
      BY <2>1, WithdrawEnds
    <2> QED
      BY <2>1, <2>2, PassTimely DEF Ends, Asked
  <1>3. ASSUME NEW q \in Quotes, on_price(q) PROVE Timely'
    <2>1. /\ want' = "Quote" /\ pc' = "model" /\ spent' = 0 /\ ~WakeDue
          /\ view' = view /\ Nothing /\ Idle /\ Running
      BY <1>3 DEF on_price, Running
    <2>2. /\ faults' = faults /\ next_read' = next_read /\ pause' = pause /\ last' = last
      BY <2>1 DEF Nothing, sender
    <2>3. Calm' => Calm
      BY <2>1, <2>2 DEF Calm
    <2>4. Calm' => next_read > 0
      BY <2>1, <2>3, NoReadDue DEF WakeDue
    <2> QED
      BY <2>1, <2>2, <2>3, <2>4, PassTimely DEF Calm
  <1>4. CASE price_and_post
    <2>1. /\ Asked /\ post(mid, AfterModel) /\ Idle /\ view' = view /\ want' = want /\ Running
      BY <1>4 DEF price_and_post, Asked, Running
    <2>2. Ends(AfterModel)
      BY <2>1, PostEnds
    <2>3. want' = "Quote"
      BY <1>0, <2>1 DEF Unhindered
    <2> QED
      BY <1>1, <2>1, <2>2, <2>3, PassTimely DEF Ends, Asked
  <1>5. CASE ModelWithdraws
    <2>1. /\ withdraw(AfterModel) /\ Idle /\ view' = view /\ Running
      BY <1>5 DEF ModelWithdraws, Asked, Running
    <2>2. Ends(AfterModel) /\ want' = "Off" /\ ~IsPosted(last')
      BY <2>1, WithdrawEnds
    <2> QED
      BY <1>1, <2>1, <2>2, PassTimely DEF Ends, Asked
  <1>6. CASE Skips
    <2>1. /\ Fault /\ pc' = AfterModel /\ Idle /\ view' = view /\ want' = want /\ last' = last
          /\ Running
      BY <1>6 DEF Skips, Asked, Running
    <2>2. ~Calm'
      <3>1. faults \in Nat
        BY DEF Typed, PassTyped
      <3> QED
        BY <2>1, <3>1, FaultTyped DEF Calm
    <2>3. ~Asked'
      BY <1>1, <2>1 DEF Asked
    <2> QED
      BY <1>0, <1>1, <2>1, <2>2, <2>3, PassTimely DEF Unhindered
  <1>7. CASE housekeeping
    <2>1. /\ Due /\ Idle /\ view' = view /\ Running
      BY <1>7 DEF housekeeping, Due, Woken, Running
    <2>2. CASE withdraw("wait")
      <3>1. Ends("wait") /\ want' = "Off" /\ ~IsPosted(last')
        BY <2>2, WithdrawEnds
      <3> QED
        BY <2>1, <3>1, PassTimely DEF Ends, Asked
    <2>3. CASE Nothing /\ pc' = "wait" /\ want' = want
      <3>1. faults' = faults /\ next_read' = next_read /\ pause' = pause /\ last' = last
        BY <2>3 DEF Nothing, sender
      <3> QED
        BY <1>0, <2>1, <2>3, <3>1, PassTimely DEF Unhindered, Calm, Asked
    <2>4. CASE Nothing /\ HeartbeatDue /\ pc' = "beat" /\ spent' = 0 /\ want' = want
      <3>1. faults' = faults /\ next_read' = next_read /\ pause' = pause /\ last' = last
        BY <2>4 DEF Nothing, sender
      <3>2. want' = "Quote"
        BY <2>4 DEF HeartbeatDue
      <3>3. Calm' => Calm
        BY <2>1, <3>1 DEF Calm
      <3>4. Calm => ~read_due
        BY <2>1 DEF Due, Timely, ReadOnTime
      <3>5. Calm' => next_read > 0
        BY <3>3, <3>4, NoReadDue
      <3> QED
        BY <2>1, <2>4, <3>1, <3>2, <3>3, <3>5, PassTimely DEF Calm
    <2> QED
      BY <1>7, <2>2, <2>3, <2>4 DEF housekeeping
  <1> QED
    BY <1>2, <1>3, <1>4, <1>5, <1>6, <1>7

\* A start counts from its read.
LEMMA StartsTimely ==
    ASSUME Typed, Typed', Timely, start \/ StartFails
    PROVE  Timely'
  <1>1. /\ pc = "start" /\ pc' \in {"wait", "stopped"}
        /\ UNCHANGED <<book, want, live, last, pause, misfit, read_retry, limit>>
    BY DEF start, StartFails, vault, sender, reads, history
  <1>2. Fresh' /\ ~Asked'
    BY <1>1 DEF Fresh, Asked
  <1>3. misfit = 0 /\ read_retry = -MaxLead /\ pause = None
    BY <1>1 DEF Timely, Fresh
  <1>4. Unhindered'
    BY <1>1, <1>2, <1>3 DEF Timely, Unhindered
  <1>5. CASE pc' = "stopped"
    BY <1>2, <1>4, <1>5 DEF Timely, FitsWhatItRead, ReadOnTime, Calm, Running
  <1>6. CASE pc' = "wait"
    <2>1. /\ start /\ fits(from_lookup(env), limit)
          /\ config' = from_lookup(env) /\ view'.limit = limit
          /\ next_read' = config'.heartbeat /\ phase' = 0
      BY <1>6 DEF start, StartFails, anchor
    <2>2. FitsWhatItRead'
      BY <1>1, <1>3, <2>1 DEF FitsWhatItRead
    <2>3. config'.heartbeat \in Nat /\ Grain \in Nat \ {0}
      BY BudgetTyped, Constants DEF Typed, RestTyped, Tunables
    <2> DEFINE h == config'.heartbeat
    <2>4. h \in Nat /\ next_read' = h
      BY <2>1, <2>3
    <2> HIDE DEF h
    <2>5. h <= h /\ 0 + 1 + Grain * h <= Grain * h + Grain /\ (~(h > 0) => h = 0)
      BY <2>3, <2>4, SMT
    <2>6. h > 0
      BY <2>1, FitsFacts DEF h
    <2>7. Turn' = Grain
      BY <2>1 DEF Turn
    <2> QED
      BY <1>1, <1>2, <1>3, <1>4, <1>6, <2>2, <2>4, <2>5, <2>6, <2>7 DEF Timely, ReadOnTime, h
  <1> QED
    BY <1>1, <1>5, <1>6

\* After a read that failed nothing is promised.
LEMMA FailuresTimely ==
    ASSUME Typed, Timely, ReadFails \/ ReadStops
    PROVE  Timely'
  <1>1. /\ Fault /\ pc' \in {"due", "stopped"} /\ Running
        /\ UNCHANGED <<book, limit, config, want, live, last, view, misfit>>
    BY DEF ReadFails, ReadStops, vault, sender, reads, Reading, Woken, Running
  <1>2. ~Calm'
    <2>1. faults \in Nat
      BY DEF Typed, PassTyped
    <2> QED
      BY <1>1, <2>1, FaultTyped DEF Calm
  <1> QED
    BY <1>1, <1>2 DEF Timely, Fresh, FitsWhatItRead, ReadOnTime, Unhindered, Asked

\* What a check leaves to look for is younger than what is lost.
LEMMA CheckLooked ==
    ASSUME Typed, NEW known, check(known)
    PROVE  pending' # None => pending'.looked = TRUE /\ pending'.age < LOST_AFTER_SLOTS
  <1>1. CASE /\ pending # None /\ ~landed /\ pending.age - lead < LOST_AFTER_SLOTS
    <2>1. pending' = [pending EXCEPT !.age = @ - lead, !.looked = TRUE] /\ pending \in Pendings
      BY <1>1 DEF check, Typed, PassTyped
    <2>2. pending'.looked = TRUE /\ pending'.age = pending.age - lead
      BY <2>1 DEF Pendings
    <2> QED
      BY <1>1, <2>2
  <1>2. CASE ~(/\ pending # None /\ ~landed /\ pending.age - lead < LOST_AFTER_SLOTS)
    BY <1>2 DEF check
  <1> QED
    BY <1>1, <1>2

\* A read that is answered starts the count anew, or stops the engine.
LEMMA RefreshTimely ==
    ASSUME Typed, Typed', Timely, refresh
    PROVE  Timely'
  <1>1. /\ phase' = 0 /\ pc \in {"read", "wait"} /\ Running
        /\ UNCHANGED <<limit, config, want, pause, misfit, faults>>
    BY DEF refresh, anchor, history, Reading, Woken, Running
  <1>2. CASE limit = view.limit \/ fits(config, limit)
    <2> DEFINE known == IF IsPosted(last) THEN [last EXCEPT !.age = @ - lead] ELSE last
    <2>1. /\ pc' = "due" /\ check(known)
          /\ view' = [shows |-> book.shows, age |-> book.age, limit |-> limit]
          /\ next_read' = config.heartbeat
          /\ read_retry' = IF read_retry + lead > 0 THEN read_retry + lead ELSE -MaxLead
          /\ book' = [book EXCEPT !.ours = @ /\ last' # Unknown]
      BY <1>2 DEF refresh
    <2>2. known = IF IsPosted(last) THEN [last EXCEPT !.age = @ - lead] ELSE last
      BY DEF known
    <2> HIDE DEF known
    <2>3. pending' # None => pending'.looked = TRUE /\ pending'.age < LOST_AFTER_SLOTS
      BY <2>1, CheckLooked
    <2>4. fits(config, limit) /\ misfit = 0
      <3>1. fits(config, limit)
        BY <1>1, <1>2 DEF Timely, FitsWhatItRead
      <3>2. misfit \in Nat /\ ~(misfit > 0)
        BY <1>1, <3>1 DEF Timely, FitsWhatItRead, Typed, RestTyped
      <3> QED
        BY <3>1, <3>2, SMT
    <2>5. FitsWhatItRead'
      BY <1>1, <2>1, <2>4 DEF FitsWhatItRead
    <2>6. Fresh' /\ ~Asked'
      BY <2>1 DEF Fresh, Asked
    <2>7. IsPosted(last') => IsPosted(last)
      <3>1. known.at = last.at /\ landed_at(known, book.age).at = last.at
        BY <2>2, KnownTyped
      <3>2. last' \in {known, landed_at(known, book.age), Unknown}
        BY <2>1 DEF check
      <3> QED
        BY <3>1, <3>2 DEF IsPosted, Unknown
    <2>8. book'.shows = book.shows /\ book'.age = book.age
      BY <2>1 DEF Typed, RestTyped
    <2>9. Unhindered'
      BY <1>1, <2>6, <2>7, <2>8 DEF Timely, Unhindered, Calm
    <2>10. ASSUME Calm'
           PROVE  /\ read_retry' = -MaxLead
                  /\ next_read' <= config'.heartbeat
                  /\ ~read_due'
                  /\ next_read' > 0
                  /\ misfit' + 1 + Grain * next_read' <= Grain * config'.heartbeat + Turn'
      <3>1. read_retry = -MaxLead /\ lead \in 0..MaxLead /\ MaxLead \in Nat
        BY <1>1, <2>10, Constants DEF Timely, ReadOnTime, Calm, Typed, RestTyped
      <3>2. ~(-MaxLead + lead > 0)
        BY <3>1, SMT
      <3>3. read_retry' = -MaxLead
        BY <2>1, <3>1, <3>2
      <3>4. config.heartbeat \in Nat /\ config.heartbeat > 0 /\ Grain \in Nat \ {0}
        BY <2>4, FitsFacts, BudgetTyped, Constants
      <3>5. /\ config.heartbeat <= config.heartbeat /\ ~(config.heartbeat <= 0)
            /\ 0 + 1 + Grain * config.heartbeat <= Grain * config.heartbeat + Grain
        BY <3>4, SMT
      <3>6. Turn' = Grain /\ config' = config /\ misfit' = 0
        BY <1>1, <2>4 DEF Turn
      <3>7. ~check_due'
        <4>1. ASSUME pending' # None PROVE ~(pending'.age >= LOST_AFTER_SLOTS)
          <5>1. pending' \in Pendings
            BY <4>1 DEF Typed, PassTyped
          <5> DEFINE a == pending'.age
          <5>2. a \in Int /\ a < LOST_AFTER_SLOTS
            BY <2>3, <4>1, <5>1 DEF Pendings
          <5> HIDE DEF a
          <5>3. ~(a >= LOST_AFTER_SLOTS)
            BY <5>2, Constants, SMT
          <5> QED
            BY <5>3 DEF a
        <4> QED
          BY <2>3, <4>1 DEF check_due
      <3>8. ~read_due'
        BY <2>1, <3>5, <3>7 DEF read_due
      <3> QED
        BY <2>1, <3>3, <3>4, <3>5, <3>6, <3>8
    <2>11. ReadOnTime'
      BY <2>6, <2>10 DEF ReadOnTime
    <2> QED
      BY <2>5, <2>6, <2>9, <2>11 DEF Timely
  <1>3. CASE ~(limit = view.limit \/ fits(config, limit))
    <2>1. pc' = "stopped" /\ book' = book /\ last' = last
      BY <1>3 DEF refresh
    <2> QED
      BY <1>1, <2>1 DEF Timely, Fresh, FitsWhatItRead, ReadOnTime, Unhindered, Calm, Running,
         Asked
  <1> QED
    BY <1>2, <1>3

\* A step of the network or the owner leaves the engine alone.
LEMMA OutsideTimely ==
    ASSUME Typed, Typed', Timely,
           \/ \E i \in DOMAIN flight : Deliver(i) \/ Drop(i)
           \/ \E l \in Limits : SetLimit(l)
    PROVE  Timely'
  <1>1. /\ UNCHANGED <<config, pc, phase, spent, want, live, last, pending, pause, view, next_read,
                       read_retry>>
        /\ pc # "due" /\ (Calm' => Calm)
    <2>1. /\ UNCHANGED <<config, pc, phase, spent, want, live, last, pending, pause, view, next_read,
                         read_retry>>
          /\ pc # "due"
          /\ faults' = faults \/ Fault
      <3>1. ASSUME NEW i \in DOMAIN flight, Deliver(i) PROVE Engine' = Engine
        BY <3>1 DEF Deliver, Engine
      <3>2. ASSUME NEW i \in DOMAIN flight, Drop(i) PROVE Engine' = Engine
        BY <3>2 DEF Drop, Engine
      <3>3. ASSUME NEW l \in Limits, SetLimit(l) PROVE Engine' = Engine
        BY <3>3 DEF SetLimit, Engine
      <3>4. Engine' = Engine
        BY <3>1, <3>2, <3>3
      <3>5. phase' = phase /\ pc # "due" /\ (faults' = faults \/ Fault)
        BY DEF Deliver, Drop, SetLimit, clocks
      <3> QED
        BY <3>4, <3>5 DEF Engine, sender, reads
    <2>2. faults \in Nat
      BY DEF Typed, PassTyped
    <2> QED
      BY <2>1, <2>2, FaultTyped DEF Calm, Running
  <1>2. \/ misfit' = misfit /\ limit' = limit
        \/ misfit' = 0
    BY DEF Deliver, Drop, SetLimit, vault
  <1>3. book'.shows = Off => book'.age = 0
    <2>1. book' = book \/ book'.age = 0
      <3>1. ASSUME NEW i \in DOMAIN flight, Deliver(i) PROVE book'.age = 0
        BY <3>1 DEF Deliver
      <3>2. ASSUME NEW i \in DOMAIN flight, Drop(i) PROVE book' = book
        BY <3>2 DEF Drop, vault
      <3>3. ASSUME NEW l \in Limits, SetLimit(l) PROVE book' = book
        BY <3>3 DEF SetLimit
      <3> QED
        BY <3>1, <3>2, <3>3
    <2>2. book.shows = Off => book.age = 0
      BY DEF Timely, Unhindered
    <2> QED
      BY <2>1, <2>2
  <1>4. pc = "start" => flight = <<>>
    BY DEF Timely, Fresh
  <1>5. Fresh'
    <2>1. CASE pc = "start"
      <3>1. \A i \in DOMAIN flight : FALSE
        BY <1>4, <2>1
      <3>2. \E l \in Limits : SetLimit(l)
        BY <3>1
      <3>3. misfit' = 0 /\ UNCHANGED <<flight, book>>
        BY <3>2 DEF SetLimit
      <3> QED
        BY <1>1, <2>1, <3>3 DEF Timely, Fresh
    <2>2. CASE pc # "start"
      BY <1>1, <2>2 DEF Fresh
    <2> QED
      BY <2>1, <2>2
  <1>6. FitsWhatItRead'
    BY <1>1, <1>2 DEF Timely, FitsWhatItRead, Running
  <1>7. Unhindered'
    BY <1>1, <1>3 DEF Timely, Unhindered, Asked
  <1>8. ReadOnTime'
    <2> SUFFICES ASSUME Calm
                 PROVE  /\ read_retry' = -MaxLead
                        /\ next_read' <= config'.heartbeat
                        /\ pc' = "due" => ~read_due'
                        /\ Asked' => spent' <= config'.budget
                        /\ IF next_read' > 0
                           THEN misfit' + 1 + Grain * next_read' <= Grain * config'.heartbeat + Turn'
                           ELSE misfit' <= Grain * config'.heartbeat
                                             + (IF Asked' THEN spent' ELSE config'.budget)
      BY <1>1 DEF ReadOnTime
    <2>1. /\ read_retry = -MaxLead /\ next_read <= config.heartbeat
          /\ Asked => spent <= config.budget
          /\ IF next_read > 0
             THEN misfit + 1 + Grain * next_read <= Grain * config.heartbeat + Turn
             ELSE misfit <= Grain * config.heartbeat + (IF Asked THEN spent ELSE config.budget)
      BY DEF Timely, ReadOnTime
    <2>2. Turn' = Turn /\ Asked' = Asked
      BY <1>1 DEF Turn, Asked
    <2>3. IF next_read > 0
          THEN 0 + 1 + Grain * next_read <= Grain * config.heartbeat + Turn
          ELSE 0 <= Grain * config.heartbeat + (IF Asked THEN spent ELSE config.budget)
      <3>1. /\ config.budget \in Nat /\ config.heartbeat \in Nat /\ spent \in Nat
            /\ misfit \in Nat /\ Grain \in Nat /\ next_read \in Nat /\ phase \in 0..(Grain - 1)
        BY BudgetTyped, Constants DEF Typed, RestTyped, PassTyped
      <3>2. Turn \in Nat /\ Grain * config.heartbeat \in Nat /\ Grain * next_read \in Nat
        BY <3>1, SMT DEF Turn
      <3> QED
        BY <2>1, <3>1, <3>2, SMT
    <2> QED
      BY <1>1, <1>2, <2>1, <2>2, <2>3
  <1> QED
    BY <1>5, <1>6, <1>7, <1>8 DEF Timely

\* The chain's next slot puts no read off.
LEMMA ChainTimely ==
    ASSUME Typed, Typed', Timely, ChainMoves
    PROVE  Timely'
  <1>1. /\ pc # "due" /\ pc' = pc
        /\ book' = [book EXCEPT !.age = IF book.shows = Off THEN 0 ELSE @ + 1]
        /\ view' = [view EXCEPT !.age = IF view.shows = Off THEN 0 ELSE Least(@ + 1, MaxStale)]
        /\ pending = None => pending' = None
        /\ UNCHANGED <<limit, phase, config, spent, want, live, last, pause, next_read, read_retry,
                       misfit, faults>>
    BY DEF ChainMoves, history
  <1>2. /\ book'.shows = book.shows /\ book'.ours = book.ours /\ view'.limit = view.limit
        /\ book.shows = Off => book'.age = 0
    BY <1>1 DEF Typed, RestTyped
  <1>3. flight = <<>> => flight' = <<>>
    <2>1. flight' \in Seq(Flights) /\ Len(flight') = Len(flight)
      BY ChainFlight
    <2>2. flight = <<>> => Len(flight') = 0
      BY <2>1, EmptySeq
    <2> QED
      BY <2>1, <2>2, EmptySeq
  <1>4. Turn' = Turn /\ (Asked' <=> Asked) /\ (Calm' <=> Calm) /\ (Running' <=> Running)
    BY <1>1 DEF Turn, Asked, Calm, Running
  <1>5. Fresh'
    BY <1>1, <1>2, <1>3 DEF Timely, Fresh
  <1>6. FitsWhatItRead'
    BY <1>1, <1>2, <1>4 DEF Timely, FitsWhatItRead
  <1>7. Unhindered'
    BY <1>1, <1>2, <1>4 DEF Timely, Unhindered
  <1>8. ReadOnTime'
    BY <1>1, <1>4 DEF Timely, ReadOnTime
  <1> QED
    BY <1>5, <1>6, <1>7, <1>8 DEF Timely

\* A tick brings the read nearer by as much as the misfit lasts longer.
LEMMA TickTimely ==
    ASSUME Typed, Typed', Timely, Tick
    PROVE  Timely'
  <1>1. /\ MayPass
        /\ spent' = IF Asked THEN spent + 1 ELSE spent
        /\ pause' = IF pause = None THEN None ELSE Most(pause - 1, 0)
        /\ misfit' = IF Fit THEN 0 ELSE misfit + 1
        /\ next_read' = IF SlotBegins THEN Most(next_read - 1, 0) ELSE next_read
        /\ read_retry' = IF SlotBegins THEN Most(read_retry - 1, -MaxLead) ELSE read_retry
        /\ pending = None => pending' = None
        /\ UNCHANGED <<book, limit, config, pc, want, view, faults>>
    BY DEF Tick, vault
  <1>2. /\ \/ pc = "wait" /\ ~WakeDue
           \/ Asked /\ spent < config.budget
        /\ pc # "start" /\ pc # "due" /\ Running
    BY <1>1 DEF MayPass, Asked, Running
  <1>3. (Asked' <=> Asked) /\ (Calm' <=> Calm) /\ (Running' <=> Running)
    BY <1>1 DEF Asked, Calm, Running
  <1>4. IsPosted(last') <=> IsPosted(last)
    <2>1. \/ last' = last
          \/ IsPosted(last) /\ last' = [last EXCEPT !.age = Least(@ + 1, LastCap)]
      <3>1. CASE SlotBegins
        BY <3>1 DEF Tick
      <3>2. CASE ~SlotBegins
        BY <3>2 DEF Tick
      <3> QED
        BY <3>1, <3>2
    <2>2. IsPosted(last) => last \in Posts
      BY DEF Typed, PassTyped, Beliefs, IsPosted, Unknown, Withdrawn
    <2> QED
      BY <2>1, <2>2 DEF IsPosted, Posts
  <1>5. Fresh'
    BY <1>1, <1>2 DEF Fresh
  <1>6. FitsWhatItRead'
    <2>1. misfit' > 0 => ~fits(config, limit)
      <3>1. Fit => misfit' = 0
        BY <1>1
      <3>2. ~(0 > 0)
        BY SMT
      <3> QED
        BY <3>1, <3>2 DEF Fit
    <2> QED
      BY <1>1, <1>3, <2>1 DEF Timely, FitsWhatItRead
  <1>7. Unhindered'
    BY <1>1, <1>3, <1>4 DEF Timely, Unhindered
  <1>8. ReadOnTime'
    <2> SUFFICES ASSUME Calm
                 PROVE  /\ read_retry' = -MaxLead
                        /\ next_read' <= config'.heartbeat
                        /\ Asked' => spent' <= config'.budget
                        /\ IF next_read' > 0
                           THEN misfit' + 1 + Grain * next_read' <= Grain * config'.heartbeat + Turn'
                           ELSE misfit' <= Grain * config'.heartbeat
                                             + (IF Asked' THEN spent' ELSE config'.budget)
      BY <1>1, <1>2, <1>3 DEF ReadOnTime
    <2>1. /\ read_retry = -MaxLead /\ next_read <= config.heartbeat
          /\ IF next_read > 0
             THEN misfit + 1 + Grain * next_read <= Grain * config.heartbeat + Turn
             ELSE misfit <= Grain * config.heartbeat + (IF Asked THEN spent ELSE config.budget)
      BY DEF Timely, ReadOnTime
    <2>2. /\ config.budget \in Nat /\ config.heartbeat \in Nat /\ spent \in Nat
          /\ misfit \in Nat /\ next_read \in Nat
          /\ Grain \in Nat \ {0} /\ phase \in 0..(Grain - 1) /\ MaxLead \in Nat
      BY BudgetTyped, Constants DEF Typed, RestTyped, PassTyped
    <2>3. ~Asked => next_read > 0
      BY <1>2, NoReadDue DEF WakeDue
    <2>4. read_retry' = -MaxLead
      <3>1. Most(-MaxLead - 1, -MaxLead) = -MaxLead
        BY <2>2, SMT DEF Most
      <3> QED
        BY <1>1, <2>1, <3>1
    <2>5. Asked => spent + 1 <= config.budget
      BY <1>2, <2>2, SMT DEF Asked
    <2> DEFINE mm == IF Fit THEN 0 ELSE misfit + 1
               nn == IF phase = 0 THEN Most(next_read - 1, 0) ELSE next_read
               tt == (IF phase = 0 THEN 0 ELSE phase) + 1
               s == IF Asked THEN spent ELSE config.budget
    <2>6. mm \in Nat /\ mm <= misfit + 1 /\ s \in Nat
      BY <2>2, SMT
    <2>7. Turn = (IF phase = 0 THEN Grain ELSE phase)
      BY DEF Turn
    <2>8. Turn' = tt
      <3>1. phase' = IF phase + 1 = Grain THEN 0 ELSE phase + 1
        BY PhaseTurns
      <3>2. phase + 1 # 0
        BY <2>2, SMT
      <3>3. CASE phase + 1 = Grain
        <4>1. tt = Grain
          BY <2>2, <3>3, SMT
        <4> QED
          BY <3>1, <3>3, <4>1 DEF Turn
      <3>4. CASE phase + 1 # Grain
        <4>1. tt = phase + 1
          BY <2>2, SMT
        <4> QED
          BY <3>1, <3>2, <3>4, <4>1 DEF Turn
      <3> QED
        BY <3>3, <3>4
    <2>9. misfit' = mm /\ next_read' = nn
      BY <1>1 DEF SlotBegins
    <2>20. /\ next_read > 0 =>
                misfit + 1 + Grain * next_read <= Grain * config.heartbeat + Turn
           /\ ~(next_read > 0) => misfit <= Grain * config.heartbeat + s
      BY <2>1
    <2> HIDE DEF mm, s
    <2>10. IF nn > 0 THEN mm + 1 + Grain * nn <= Grain * config.heartbeat + tt
           ELSE /\ mm <= Grain * config.heartbeat + (s + 1)
                /\ next_read > 0 => mm <= Grain * config.heartbeat + config.budget
      <3> DEFINE q == Grain * next_read
                 r == Grain * config.heartbeat
      <3>1. q \in Nat /\ r \in Nat
        BY <2>2, SMT
      <3>2. CASE phase = 0 /\ next_read > 0
        <4>1. nn = next_read - 1 /\ Turn = Grain /\ tt = 0 + 1
          BY <2>2, <2>7, <3>2, SMT DEF Most
        <4> DEFINE q1 == Grain * (next_read - 1)
        <4>2. q1 = q - Grain /\ (next_read = 1 => q = Grain)
          BY <2>2, SMT
        <4>3. misfit + 1 + q <= r + Grain
          BY <2>20, <3>2, <4>1
        <4> HIDE DEF q, r, q1
        <4>4. /\ next_read - 1 > 0 => mm + 1 + q1 <= r + (0 + 1)
              /\ ~(next_read - 1 > 0) => mm <= r + (s + 1) /\ mm <= r + config.budget
          BY <2>2, <2>6, <3>1, <3>2, <4>2, <4>3, SMT
        <4> HIDE DEF nn, tt
        <4> QED
          BY <4>1, <4>4 DEF q, r, q1
      <3>3. CASE phase = 0 /\ ~(next_read > 0)
        <4>1. nn = 0 /\ ~(0 > 0)
          BY <2>2, <3>3, SMT DEF Most
        <4>2. misfit <= r + s
          BY <2>20, <3>3
        <4> HIDE DEF nn, tt, r
        <4>3. mm <= r + (s + 1)
          BY <2>2, <2>6, <3>1, <4>2, SMT
        <4> QED
          BY <3>3, <4>1, <4>3 DEF r
      <3>4. CASE phase # 0
        <4>1. Turn = phase /\ nn = next_read /\ tt = phase + 1
          BY <2>7, <3>4
        <4>2. /\ next_read > 0 => misfit + 1 + q <= r + phase
              /\ ~(next_read > 0) => misfit <= r + s
          BY <2>20, <4>1
        <4> HIDE DEF nn, tt, q, r
        <4>3. /\ next_read > 0 => mm + 1 + q <= r + (phase + 1)
              /\ ~(next_read > 0) => mm <= r + (s + 1)
          BY <2>2, <2>6, <3>1, <4>2, SMT
        <4> QED
          BY <4>1, <4>3 DEF q, r
      <3> QED
        BY <3>2, <3>3, <3>4
    <2>11. nn <= config.heartbeat
      BY <2>1, <2>2, SMT DEF Most
    <2> HIDE DEF nn, tt
    <2>12. CASE Asked
      <3>1. s = spent /\ spent' = spent + 1
        BY <1>1, <2>12 DEF s
      <3> QED
        BY <1>1, <1>3, <2>4, <2>5, <2>8, <2>9, <2>10, <2>11, <2>12, <3>1
    <2>13. CASE ~Asked
      BY <1>1, <1>3, <2>3, <2>4, <2>8, <2>9, <2>10, <2>11, <2>13
    <2> QED
      BY <2>12, <2>13
  <1> QED
    BY <1>5, <1>6, <1>7, <1>8 DEF Timely

\* The reads are on time at the beginning,
LEMMA InitTimely == Init => Timely
  <1> SUFFICES ASSUME Init PROVE Timely
    OBVIOUS
  <1>1. pc = "start" /\ ~Running /\ ~Asked
    BY DEF Init, Running, Asked
  <1>2. Fresh
    BY DEF Init, Fresh
  <1>3. Unhindered
    <2>1. book.shows = Off => book.age = 0
      BY Constants DEF Init
    <2>2. ~IsPosted(last) /\ pause = None
      BY DEF Init, IsPosted, Unknown
    <2> QED
      BY <1>1, <2>1, <2>2 DEF Unhindered
  <1> QED
    BY <1>1, <1>2, <1>3 DEF Timely, FitsWhatItRead, ReadOnTime, Calm

\* after every step,
LEMMA StepTimely ==
    ASSUME Typed, Typed', Timely, [Next]_vars
    PROVE  Timely'
  <1>1. CASE UNCHANGED vars
    <2>1. /\ UNCHANGED <<book, limit, flight, phase, config, pc, spent, want, live, last, pending,
                         pause, view, next_read, read_retry, misfit, faults>>
      BY <1>1 DEF vars, vault, clocks, sender, reads, history
    <2> QED
      BY <2>1 DEF Timely, Fresh, FitsWhatItRead, ReadOnTime, Unhindered, Calm, Running, Asked,
         Turn, read_due, check_due
  <1>2. CASE start \/ StartFails
    BY <1>2, StartsTimely
  <1>3. CASE \/ on_withdrawal \/ \E q \in Quotes : on_price(q)
             \/ price_and_post \/ ModelWithdraws \/ Skips \/ housekeeping
    BY <1>3, PassesTimely
  <1>4. CASE ReadFails \/ ReadStops
    BY <1>4, FailuresTimely
  <1>5. CASE refresh
    BY <1>5, RefreshTimely
  <1>6. CASE \/ \E i \in DOMAIN flight : Deliver(i) \/ Drop(i)
             \/ \E l \in Limits : SetLimit(l)
    BY <1>6, OutsideTimely
  <1>7. CASE Tick
    BY <1>7, TickTimely
  <1>8. CASE ChainMoves
    BY <1>8, ChainTimely
  <1> QED
    BY <1>1, <1>2, <1>3, <1>4, <1>5, <1>6, <1>7, <1>8 DEF Next

\* and so always.
LEMMA AlwaysTimely == Spec => [](Typed /\ Timely)
  <1>1. Init => Typed /\ Timely
    BY InitTyped, InitTimely
  <1>2. Typed /\ Timely /\ [Next]_vars => (Typed /\ Timely)'
    BY StepTyped, StepTimely
  <1> QED
    BY <1>1, <1>2, PTL DEF Spec

\* With the reads on time a misfit lasts no longer than MisfitIsSeen allows.
LEMMA TimelyIsSeen ==
    ASSUME Typed, Timely
    PROVE  MisfitIsSeen
  <1> SUFFICES ASSUME Running, faults = 0
               PROVE  misfit <= Grain * config.heartbeat + config.budget
    BY DEF MisfitIsSeen
  <1>1. /\ Asked => spent <= config.budget
        /\ IF next_read > 0
           THEN misfit + 1 + Grain * next_read <= Grain * config.heartbeat + Turn
           ELSE misfit <= Grain * config.heartbeat + (IF Asked THEN spent ELSE config.budget)
    BY DEF Timely, ReadOnTime, Calm
  <1>2. /\ config.budget \in Nat /\ config.heartbeat \in Nat /\ spent \in Nat /\ misfit \in Nat
        /\ next_read \in Nat /\ Grain \in Nat \ {0} /\ phase \in 0..(Grain - 1)
    BY BudgetTyped, Constants DEF Typed, RestTyped, PassTyped
  <1>3. Turn <= Grain /\ Turn \in Nat
    BY <1>2, SMT DEF Turn
  <1>4. Grain * next_read \in Nat /\ Grain * config.heartbeat \in Nat
    BY <1>2, SMT
  <1>5. next_read > 0 => Grain <= Grain * next_read
    BY <1>2, SMT
  <1> QED
    BY <1>1, <1>2, <1>3, <1>4, <1>5, SMT

\* The engine stops within a heartbeat, and the time the model may take, of a change of
\* the limit its settings do not fit in: no read is put off by what the feed or the
\* sender does (Cycle::refresh, Rule::validate).
THEOREM MisfitSeen == Spec => []MisfitIsSeen
  <1>1. Typed /\ Timely => MisfitIsSeen
    BY TimelyIsSeen
  <1> QED
    BY <1>1, AlwaysTimely, PTL

-----------------------------------------------------------------------------
(* The book, as long as nothing is lost, refused or taken for a repeat, and *)
(* the heartbeat outlasts the search for a lost transaction.                *)

\* Nothing is lost, refused or taken for a repeat, and the heartbeat is long enough.
Quiet == Calm /\ repeated = None /\ Outlasts

\* So many slots of the engine's clock, the one that shows included, fit into the ticks
\* the model has been asked for.
Spans(n, ticks, left) == n * Grain <= ticks + left
Within(n) == Spans(n, spent, Left)

\* What was sent last, of what is in flight.
Newest == flight[Len(flight)]

\* The rule believes in an order.
Believes(order) == IF order = Off THEN last = Withdrawn ELSE IsPosted(last) /\ last.order = order

\* What was sent last is the newest in flight, or has landed.
SentIsBelieved ==
    /\ flight # <<>> => Believes(Newest.order)
    /\ flight = <<>> /\ book.ours => Believes(book.shows)
    /\ flight = <<>> /\ last # Unknown => book.ours

\* An order in flight is one the sender still looks for, or its last look, which took an
\* older one for it, was not a heartbeat ago.
FlightIsWatched ==
    flight # <<>> =>
        IF pending # None THEN pending.age <= Newest.age + lead
        ELSE config.heartbeat <= next_read + lead + Newest.age

\* A decision found on the book before its time, while what was sent after it is in
\* flight: the heartbeat is due at once.
Overdue ==
    /\ pending = None /\ last.age >= config.heartbeat
    /\ \/ pc = "due" /\ phase = 0 /\ lead = 0 /\ flight # <<>>
       \/ pc = "beat" /\ Within(lead) /\ (flight = <<>> => Within(book.age + lead))

\* A decision is replaced by its heartbeat or while the model is asked about it.
DecisionIsRenewed ==
    IsPosted(last) =>
        \/ last.age <= config.heartbeat
        \/ Asked /\ Within(last.age - config.heartbeat)
        \/ Overdue

\* A decision the sender looks for is found, or found lost.
DecisionIsChecked ==
    pending # None =>
        /\ Believes(pending.order)
        /\ IsPosted(last) =>
              /\ last.age = pending.age \/ pending.age >= LOST_AFTER_SLOTS + lead
              /\ last.age <= LOST_AFTER_SLOTS + Budget
              /\ Asked => Within(last.age - LOST_AFTER_SLOTS)

\* The decision is not older than the stamp on the book by more than the lead it was made
\* with; and not older at all once it was found there.
Slack == IF pending = None THEN 0 ELSE MaxLead
StampIsKnown ==
    IsPosted(last) =>
        /\ lead <= last.age + Slack
        /\ flight = <<>> /\ book.ours => book.age + lead <= last.age + Slack \/ Overdue

\* What is on the book while its replacement is on the way.
BookIsReplaced ==
    book.ours /\ flight # <<>> => book.age <= config.heartbeat + Budget + flight[1].age

\* The invariant of the book.
Followed ==
    /\ SentIsBelieved /\ FlightIsWatched /\ DecisionIsRenewed /\ DecisionIsChecked
    /\ StampIsKnown /\ BookIsReplaced

-----------------------------------------------------------------------------
(* What the arithmetic needs.                                               *)

\* Fewer slots fit as well,
LEMMA SpansLess ==
    ASSUME NEW n \in Int, NEW m \in Int, NEW s \in Nat, NEW l \in Nat, n <= m, Spans(m, s, l)
    PROVE  Spans(n, s, l)
  <1>1. Grain \in Nat
    BY Constants
  <1>2. n * Grain <= m * Grain
    <2>1. m - n \in Nat
      BY SMT
    <2>2. (m - n) * Grain \in Nat
      BY <1>1, <2>1, SMT
    <2>3. (m - n) * Grain = m * Grain - n * Grain
      BY <1>1, SMT
    <2> QED
      BY <1>1, <2>2, <2>3, SMT
  <1> QED
    BY <1>1, <1>2, SMT DEF Spans

\* none always does,
LEMMA SpansNone ==
    ASSUME NEW n \in Int, NEW s \in Nat, NEW l \in Nat, n <= 0
    PROVE  Spans(n, s, l)
  <1>1. Spans(0, s, l)
    BY Constants, SMT DEF Spans
  <1> QED
    BY <1>1, SpansLess, SMT

\* a tick changes nothing,
LEMMA SpansTick ==
    ASSUME NEW n \in Int, NEW s \in Nat, NEW l \in Nat, Spans(n, s, l)
    PROVE  Spans(n, s + 1, l - 1)
  BY Constants, SMT DEF Spans

\* and the turn of a slot adds one.
LEMMA SpansSlot ==
    ASSUME NEW n \in Int, NEW s \in Nat, Spans(n, s, 0)
    PROVE  Spans(n + 1, s + 1, Grain - 1)
  <1>1. Grain \in Nat
    BY Constants
  <1>2. (n + 1) * Grain = n * Grain + Grain
    BY <1>1, SMT
  <1> QED
    BY <1>1, <1>2, SMT DEF Spans

\* What the model is asked for fits into its budget.
LEMMA WithinBudget ==
    ASSUME Typed, NEW n \in Int, NEW s \in Nat, NEW l \in Nat,
           s <= config.budget, l < Grain, Spans(n, s, l)
    PROVE  n <= Budget
  <1>1. Grain \in Nat \ {0} /\ config.budget \in Nat
    BY Constants, BudgetTyped
  <1>2. n * Grain <= config.budget + (Grain - 1)
    BY <1>1, SMT DEF Spans
  <1> QED
    BY <1>1, <1>2, CeilBounds DEF Budget

\* The numbers the state consists of.
LEMMA Numbers ==
    ASSUME Typed
    PROVE  /\ lead \in Nat /\ lead <= MaxLead /\ MaxLead \in Nat
           /\ book.age \in Nat /\ book.shows \in Orders /\ spent \in Nat /\ next_read \in Nat
           /\ Left \in Nat /\ Left < Grain /\ Grain \in Nat \ {0}
           /\ Budget \in Nat /\ config.heartbeat \in Nat /\ config.budget \in Nat
           /\ LANDING_SLOTS \in Nat \ {0} /\ LOST_AFTER_SLOTS = 2 * LANDING_SLOTS
           /\ LOST_AFTER_SLOTS \in Nat
           /\ IsPosted(last) => last.age \in Int /\ last.order \in Quotes
           /\ pending # None => pending.age \in Int /\ pending.order \in Orders
           /\ Slack \in Nat
  <1>1. lead \in 0..MaxLead /\ MaxLead \in Nat
    BY Constants DEF Typed, RestTyped
  <1>2. book.age \in 0..MaxStale /\ MaxStale \in Nat /\ book.shows \in Orders
    BY Constants DEF Typed, RestTyped
  <1>3. spent \in Nat /\ next_read \in Nat
    BY DEF Typed, PassTyped, RestTyped
  <1>4. IsPosted(last) => last.age \in Int /\ last.order \in Quotes
    <2>1. IsPosted(last) => last \in Posts
      BY DEF Typed, PassTyped, Beliefs, IsPosted, Unknown, Withdrawn
    <2> QED
      BY <2>1 DEF Posts
  <1>5. pending # None => pending.age \in Int /\ pending.order \in Orders
    BY DEF Typed, PassTyped, Pendings
  <1>6. lead \in Nat /\ lead <= MaxLead
    BY <1>1, SMT
  <1>7. book.age \in Nat
    BY <1>2, SMT
  <1> QED
    BY <1>1, <1>2, <1>3, <1>4, <1>5, <1>6, <1>7, LeftBounds, BudgetTyped, Constants, SMT DEF Slack

\* The newest and the oldest in flight.
LEMMA FlightNumbers ==
    ASSUME flight \in Seq(Flights)
    PROVE  /\ Len(flight) \in Nat
           /\ flight # <<>> <=> Len(flight) # 0
           /\ flight # <<>> =>
                 /\ Len(flight) \in 1..Len(flight) /\ 1 \in 1..Len(flight)
                 /\ Newest.order \in Orders /\ Newest.age \in Nat /\ Newest.age <= LANDING_SLOTS
                 /\ flight[1].order \in Orders /\ flight[1].age \in Nat
                 /\ flight[1].age <= LANDING_SLOTS
  <1>1. Len(flight) \in Nat /\ (flight # <<>> <=> Len(flight) # 0)
    BY EmptySeq, LenProperties
  <1>2. \A i \in 1..Len(flight) : flight[i] \in Flights
    BY ElementOfSeq
  <1>3. ASSUME NEW f \in Flights
        PROVE  f.order \in Orders /\ f.age \in Nat /\ f.age <= LANDING_SLOTS
    <2>1. f.order \in Orders /\ f.age \in 0..LANDING_SLOTS
      BY DEF Flights
    <2> QED
      BY <2>1, Constants, SMT
  <1>4. flight # <<>> => Len(flight) \in 1..Len(flight) /\ 1 \in 1..Len(flight)
    BY <1>1, SMT
  <1> QED
    BY <1>1, <1>2, <1>3, <1>4 DEF Newest

\* An engine that outlasts a lost transaction follows its book: what is up is not older
\* than a heartbeat and the model take.
LEMMA BookIsYoung ==
    ASSUME Typed, Timely, Quiet, Followed, flight = <<>>, book.ours
    PROVE  book.age <= config.heartbeat + Budget
  <1>0. /\ lead \in Nat /\ book.age \in Nat /\ config.heartbeat \in Nat /\ Budget \in Nat
        /\ MaxLead \in Nat /\ LOST_AFTER_SLOTS \in Nat
        /\ IsPosted(last) => last.age \in Int
    BY Numbers
  <1>1. CASE book.shows = Off
    <2>1. book.age = 0
      BY <1>1 DEF Timely, Unhindered
    <2> QED
      BY <2>1, <1>0, SMT
  <1>2. CASE book.shows # Off
    <2>1. IsPosted(last)
      BY <1>2 DEF Followed, SentIsBelieved, Believes
    <2>2. book.age + lead <= last.age + Slack \/ Overdue
      BY <2>1 DEF Followed, StampIsKnown
    <2>3. Asked => spent <= config.budget
      BY DEF Timely, ReadOnTime, Quiet
    <2>4. ASSUME NEW n \in Int, Asked, Within(n) PROVE n <= Budget
      BY <2>3, <2>4, Numbers, WithinBudget DEF Within
    <2>5. CASE Overdue
      <3>1. pc = "beat" /\ Within(book.age + lead) /\ Asked
        BY <2>5 DEF Overdue, Asked
      <3>2. book.age + lead \in Int
        BY <1>0, SMT
      <3>3. book.age + lead <= Budget
        BY <2>4, <3>1, <3>2
      <3> QED
        BY <3>3, <1>0, SMT
    <2>6. CASE book.age + lead <= last.age + Slack /\ pending = None /\ ~Overdue
      <3>1. last.age \in Int /\ last.age - config.heartbeat \in Int
        BY <2>1, <1>0, SMT
      <3>2. last.age <= config.heartbeat \/ last.age - config.heartbeat <= Budget
        BY <2>1, <2>4, <2>6, <3>1 DEF Followed, DecisionIsRenewed
      <3>3. Slack = 0
        BY <2>6 DEF Slack
      <3> QED
        BY <1>0, <2>6, <3>1, <3>2, <3>3, SMT
    <2>7. CASE book.age + lead <= last.age + Slack /\ pending # None
      <3>1. last.age <= LOST_AFTER_SLOTS + Budget
        BY <2>1, <2>7 DEF Followed, DecisionIsChecked
      <3>2. Slack = MaxLead
        BY <2>7 DEF Slack
      <3>3. LOST_AFTER_SLOTS + Budget + MaxLead <= config.heartbeat
        BY DEF Quiet, Outlasts, Budget
      <3> QED
        BY <1>0, <2>1, <2>7, <3>1, <3>2, <3>3, SMT
    <2> QED
      BY <2>2, <2>5, <2>6, <2>7
  <1> QED
    BY <1>1, <1>2

-----------------------------------------------------------------------------
(* The passes follow the book.                                              *)

\* A repeat is never forgotten.
LEMMA SignRemembers ==
    ASSUME NEW order, NEW fetching, NEW answered, sign(order, fetching, answered),
           repeated' = None
    PROVE  repeated = None
  BY Constants DEF sign

\* What a pass that sends nothing keeps of the quiet.
LEMMA QuietBefore ==
    ASSUME Quiet', Running, faults' = faults, repeated' = None => repeated = None,
           config' = config
    PROVE  Quiet
  BY DEF Quiet, Calm, Outlasts

\* What is sent takes the place of what was followed.
LEMMA SendFollowed ==
    ASSUME Typed, Timely, Quiet => Followed, Quiet', Running, Idle, view' = view,
           NEW order \in Orders, NEW belief, NEW next \in {"read", "wait"},
           belief = IF order = Off THEN Withdrawn ELSE Posted(order, 0),
           send(order, belief, next)
    PROVE  Followed'
  <1>1. Taken(order) /\ last' = belief /\ pc' = next
    BY CalmSend DEF Quiet
  <1>2. /\ sign(order, Refreshes(order), TRUE) /\ faults' = faults
        /\ pending' = [order |-> order, age |-> 0, looked |-> FALSE,
                       baseline |-> IF view.shows = order THEN view.age ELSE None]
    BY <1>1 DEF Taken, Accepted
  <1>3. UNCHANGED <<book, phase, lead, config>>
    BY DEF Idle, vault, clocks
  <1>4. Quiet /\ Followed /\ repeated' = None
    <2>1. repeated' = None /\ repeated = None
      BY <1>2, SignRemembers DEF Quiet
    <2> QED
      BY <1>2, <1>3, <2>1, QuietBefore
  <1>5. /\ flight' \in Seq(Flights) /\ Len(flight) \in Nat
        /\ \A i \in 1..Len(flight) : /\ flight'[i].order = flight[i].order
                                     /\ flight'[i].age = flight[i].age
        /\ Len(flight') = Len(flight) + 1
        /\ flight'[Len(flight) + 1].order = order /\ flight'[Len(flight) + 1].age = 0
    <2>1. Refreshes(order) \in BOOLEAN /\ TRUE \in BOOLEAN /\ PassTyped
      BY DEF Refreshes, stale, Typed
    <2> QED
      BY <1>2, <1>4, <2>1, SignFlight
  <1>6. flight' # <<>> /\ Newest'.order = order /\ Newest'.age = 0
    <2>1. Len(flight) + 1 # 0
      BY <1>5, SMT
    <2> QED
      BY <1>5, <2>1, EmptySeq DEF Newest
  <1>7. /\ pending' # None /\ pending'.order = order /\ pending'.age = 0
    <2>1. pending' \in Pendings
      <3>1. (IF view.shows = order THEN view.age ELSE None) \in Nat \union {None}
        BY DEF Typed, RestTyped
      <3> QED
        BY <1>2, <3>1 DEF Pendings
    <2> QED
      BY <1>2, <2>1, Constants
  <1>8. ~Asked' /\ Slack' = MaxLead /\ LOST_AFTER_SLOTS \in Nat
    BY <1>1, <1>7, Constants DEF Asked, Slack
  <1>9. /\ IsPosted(last') => last'.age = 0 /\ last'.order = order /\ order # Off
        /\ order # Off => IsPosted(last') /\ last'.order = order
        /\ order = Off => last' = Withdrawn
    BY <1>1 DEF IsPosted, Posted, Withdrawn
  <1>10. Believes(order)'
    BY <1>9 DEF Believes
  <1>11. SentIsBelieved'
    BY <1>6, <1>9, <1>10 DEF SentIsBelieved, Believes
  <1>12. lead' = lead /\ lead \in Nat /\ lead <= MaxLead /\ MaxLead \in Nat /\ book.age \in Nat
         /\ config.heartbeat \in Nat /\ Budget \in Nat /\ Budget' = Budget
    BY <1>3, Numbers DEF Budget
  <1>13. FlightIsWatched'
    <2>1. 0 <= 0 + lead
      BY <1>12, SMT
    <2> QED
      BY <1>6, <1>7, <1>12, <2>1 DEF FlightIsWatched
  <1>14. DecisionIsRenewed'
    <2>1. 0 <= config.heartbeat
      BY <1>12, SMT
    <2> QED
      BY <1>3, <1>9, <2>1 DEF DecisionIsRenewed
  <1>15. DecisionIsChecked'
    <2>1. 0 <= LOST_AFTER_SLOTS + Budget
      BY <1>8, <1>12, SMT
    <2> QED
      BY <1>7, <1>8, <1>9, <1>10, <1>12, <2>1 DEF DecisionIsChecked
  <1>16. StampIsKnown'
    <2>1. lead <= 0 + MaxLead
      BY <1>12, SMT
    <2> QED
      BY <1>6, <1>8, <1>9, <1>12, <2>1 DEF StampIsKnown
  <1>17. BookIsReplaced'
    <2>1. CASE flight = <<>>
      <3>1. flight'[1].age = 0
        <4>1. Len(flight) = 0
          BY <2>1, EmptySeq
        <4> QED
          BY <1>5, <4>1, SMT
      <3>2. book.ours => book.age <= config.heartbeat + Budget + 0
        BY <1>4, <1>12, <2>1, BookIsYoung, SMT
      <3> QED
        BY <1>3, <1>12, <3>1, <3>2 DEF BookIsReplaced
    <2>2. CASE flight # <<>>
      <3>1. flight'[1].age = flight[1].age
        BY <1>5, <2>2, FlightNumbers DEF Typed, PassTyped
      <3> QED
        BY <1>3, <1>4, <1>12, <2>2, <3>1 DEF BookIsReplaced, Followed
    <2> QED
      BY <2>1, <2>2
  <1> QED
    BY <1>11, <1>13, <1>14, <1>15, <1>16, <1>17 DEF Followed

\* A pass that leaves what it follows, before the heartbeat.
LEMMA RestFollowed ==
    ASSUME Typed, Quiet => Followed, Quiet', Running, Idle, Nothing,
           pc' \in {"read", "wait"}, IsPosted(last) => last.age < config.heartbeat
    PROVE  Followed'
  <1>1. UNCHANGED <<book, phase, lead, config, flight, last, pending, next_read, faults, repeated>>
    BY DEF Idle, vault, clocks, Nothing, sender
  <1>2. Quiet /\ Followed
    BY <1>1, QuietBefore
  <1>3. ~Asked' /\ Slack' = Slack /\ Newest' = Newest /\ Budget' = Budget
    BY <1>1 DEF Asked, Slack, Newest, Budget
  <1>4. \A order : Believes(order)' <=> Believes(order)
    BY <1>1 DEF Believes
  <1>5. IsPosted(last) => last.age <= config.heartbeat /\ ~(last.age >= config.heartbeat)
    BY Numbers, SMTT(30)
  <1>6. ~Overdue \/ ~IsPosted(last)
    BY <1>5 DEF Overdue
  <1>7. SentIsBelieved' /\ FlightIsWatched' /\ BookIsReplaced'
    BY <1>1, <1>2, <1>3, <1>4 DEF Followed, SentIsBelieved, FlightIsWatched, BookIsReplaced,
       Believes
  <1>8. DecisionIsRenewed' /\ DecisionIsChecked'
    BY <1>1, <1>2, <1>3, <1>4, <1>5 DEF Followed, DecisionIsRenewed, DecisionIsChecked,
       Believes
  <1>9. StampIsKnown'
    BY <1>1, <1>2, <1>3, <1>6 DEF Followed, StampIsKnown
  <1> QED
    BY <1>7, <1>8, <1>9 DEF Followed

\* The model is asked about a decision that is still looked for, or due.
LEMMA AskFollowed ==
    ASSUME Typed, Quiet => Followed, Quiet', Running, Idle, Nothing, spent' = 0,
           ~Asked, ~check_due,
           \/ pc' = "model" /\ pc = "wait"
           \/ pc' = "beat"
    PROVE  Followed'
  <1>1. UNCHANGED <<book, phase, lead, config, flight, last, pending, next_read, faults, repeated>>
    BY DEF Idle, vault, clocks, Nothing, sender
  <1>2. Quiet /\ Followed
    BY <1>1, QuietBefore
  <1>3. Asked' /\ Slack' = Slack /\ Newest' = Newest /\ Budget' = Budget /\ Left' = Left
    BY <1>1 DEF Asked, Slack, Newest, Budget, Left
  <1>4. \A order : Believes(order)' <=> Believes(order)
    BY <1>1 DEF Believes
  <1>5. SentIsBelieved' /\ FlightIsWatched' /\ BookIsReplaced'
    BY <1>1, <1>2, <1>3, <1>4 DEF Followed, SentIsBelieved, FlightIsWatched, BookIsReplaced,
       Believes
  <1>6. \A n : Within(n)' <=> Spans(n, 0, Left)
    BY <1>3 DEF Within
  <1>7. 0 \in Nat /\ Left \in Nat /\ lead \in Nat
    BY Numbers
  <1>8. ASSUME Overdue PROVE Overdue' /\ flight # <<>>
    <2>1. pc = "due" /\ lead = 0 /\ flight # <<>> /\ pending = None
          /\ last.age >= config.heartbeat
      BY <1>8 DEF Overdue, Asked
    <2>2. pc' = "beat"
      BY <2>1
    <2>3. Spans(lead, 0, Left)
      BY <1>7, <2>1, SpansNone, SMT
    <2> QED
      BY <1>1, <1>3, <2>1, <2>2, <2>3 DEF Overdue, Within
  <1>9. DecisionIsRenewed'
    BY <1>1, <1>2, <1>8 DEF Followed, DecisionIsRenewed
  <1>10. StampIsKnown'
    BY <1>1, <1>2, <1>3, <1>8 DEF Followed, StampIsKnown
  <1>11. DecisionIsChecked'
    <2>1. ASSUME pending # None, IsPosted(last)
          PROVE  Spans(last.age - LOST_AFTER_SLOTS, 0, Left)
      <3>1. pending.age \in Int /\ last.age \in Int /\ LOST_AFTER_SLOTS \in Nat
            /\ LANDING_SLOTS \in Nat /\ LOST_AFTER_SLOTS = 2 * LANDING_SLOTS
        BY <2>1, Numbers
      <3>2. ~(pending.age >= (IF pending.looked THEN LOST_AFTER_SLOTS ELSE LANDING_SLOTS))
        BY <2>1 DEF check_due
      <3>3. pending.age < LOST_AFTER_SLOTS
        BY <3>1, <3>2, SMT
      <3>4. last.age = pending.age \/ pending.age >= LOST_AFTER_SLOTS + lead
        BY <1>2, <2>1 DEF Followed, DecisionIsChecked
      <3>5. last.age - LOST_AFTER_SLOTS \in Int /\ last.age - LOST_AFTER_SLOTS <= 0
        BY <1>7, <3>1, <3>3, <3>4, SMT
      <3> QED
        BY <1>7, <3>5, SpansNone
    <2> QED
      BY <1>1, <1>2, <1>3, <1>4, <2>1 DEF Followed, DecisionIsChecked, Within, Believes
  <1> QED
    BY <1>5, <1>9, <1>10, <1>11 DEF Followed

\* A withdrawal is followed, sent or not.
LEMMA WithdrawFollowed ==
    ASSUME Typed, Timely, Quiet => Followed, Quiet', Running, Idle, view' = view,
           NEW next \in {"read", "wait"}, withdraw(next)
    PROVE  Followed'
  <1>1. CASE last # Withdrawn
    BY <1>1, SendFollowed, Constants DEF withdraw
  <1>2. CASE last = Withdrawn
    <2>1. ~IsPosted(last) /\ Nothing /\ pc' = next
      BY <1>2 DEF withdraw, IsPosted, Withdrawn
    <2> QED
      BY <2>1, RestFollowed
  <1> QED
    BY <1>1, <1>2

\* A post is followed; it is not sent only before the heartbeat.
LEMMA PostFollowed ==
    ASSUME Typed, Timely, Quiet => Followed, Quiet', Running, Idle, view' = view,
           NEW next \in {"read", "wait"}, NEW q \in Quotes, post(q, next)
    PROVE  Followed'
  <1>1. CASE ~is_paused /\ WorthPosting(q)
    <2>1. send(q, Posted(q, 0), next) /\ q \in Orders /\ q # Off
      BY <1>1, Constants DEF post
    <2> QED
      BY <2>1, SendFollowed
  <1>2. CASE ~(~is_paused /\ WorthPosting(q))
    <2>1. pc' = next /\ Nothing
      BY <1>2 DEF post
    <2>2. Calm
      BY <2>1 DEF Quiet, Calm, Nothing
    <2>3. ~is_paused
      BY <2>2 DEF Timely, Unhindered, is_paused
    <2>4. IsPosted(last) /\ ~(last.age >= config.heartbeat)
      BY <1>2, <2>3 DEF WorthPosting
    <2>5. last.age < config.heartbeat
      BY <2>4, Numbers, SMTT(30)
    <2> QED
      BY <2>1, <2>5, RestFollowed
  <1> QED
    BY <1>1, <1>2

\* The actions of a pass follow the book.
LEMMA PassesFollowed ==
    ASSUME Typed, Timely, Quiet => Followed, Quiet',
           \/ on_withdrawal \/ \E q \in Quotes : on_price(q)
           \/ price_and_post \/ ModelWithdraws \/ Skips \/ housekeeping
    PROVE  Followed'
  <1>1. AfterModel \in {"read", "wait"}
    BY DEF AfterModel
  <1>2. CASE on_withdrawal
    <2>1. withdraw("read") /\ Idle /\ view' = view /\ Running
      BY <1>2 DEF on_withdrawal, Running
    <2> QED
      BY <2>1, WithdrawFollowed
  <1>3. ASSUME NEW q \in Quotes, on_price(q) PROVE Followed'
    <2>1. /\ pc' = "model" /\ pc = "wait" /\ spent' = 0 /\ ~WakeDue
          /\ Nothing /\ Idle /\ Running
      BY <1>3 DEF on_price, Running
    <2>2. Calm
      BY <2>1 DEF Quiet, Calm, Nothing
    <2>3. ~check_due
      BY <2>1, <2>2, NoReadDue DEF WakeDue
    <2>4. ~Asked
      BY <2>1 DEF Asked
    <2> QED
      BY <2>1, <2>3, <2>4, AskFollowed
  <1>4. CASE price_and_post
    <2>1. post(mid, AfterModel) /\ Idle /\ view' = view /\ Running /\ mid \in Quotes
      BY <1>4 DEF price_and_post, Asked, Running, Typed, RestTyped
    <2> QED
      BY <1>1, <2>1, PostFollowed
  <1>5. CASE ModelWithdraws
    <2>1. withdraw(AfterModel) /\ Idle /\ view' = view /\ Running
      BY <1>5 DEF ModelWithdraws, Asked, Running
    <2> QED
      BY <1>1, <2>1, WithdrawFollowed
  <1>6. CASE Skips
    <2>1. Fault /\ faults \in Nat /\ faults' = 0
      BY <1>6 DEF Skips, Typed, PassTyped, Quiet, Calm
    <2> QED
      BY <2>1, FaultTyped
  <1>7. CASE housekeeping
    <2>1. /\ Due /\ Idle /\ view' = view /\ Running /\ ~Asked
      BY <1>7 DEF housekeeping, Due, Woken, Running, Asked
    <2>2. CASE withdraw("wait")
      BY <2>1, <2>2, WithdrawFollowed
    <2>3. CASE Nothing /\ pc' = "wait" /\ ~IsPosted(last)
      BY <2>1, <2>3, RestFollowed
    <2>4. CASE Nothing /\ pc' = "wait" /\ want = "Quote" /\ ~HeartbeatDue
      <3>1. IsPosted(last) => ~(last.age >= config.heartbeat)
        BY <2>4 DEF HeartbeatDue
      <3>2. IsPosted(last) => last.age < config.heartbeat
        BY <3>1, Numbers, SMTT(30)
      <3> QED
        BY <2>1, <2>4, <3>2, RestFollowed
    <2>5. CASE Nothing /\ pc' = "beat" /\ spent' = 0
      <3>1. Calm
        BY <2>1, <2>5 DEF Quiet, Calm, Nothing
      <3>2. ~read_due
        BY <2>1, <3>1 DEF Due, Timely, ReadOnTime
      <3>3. ~check_due
        BY <3>1, <3>2, NoReadDue
      <3> QED
        BY <2>1, <2>5, <3>3, AskFollowed
    <2>6. want = "Off" => ~IsPosted(last)
      BY DEF Timely, Unhindered
    <2> QED
      BY <1>7, <2>2, <2>3, <2>4, <2>5, <2>6 DEF housekeeping
  <1> QED
    BY <1>2, <1>3, <1>4, <1>5, <1>6, <1>7

-----------------------------------------------------------------------------
(* A read follows the book.                                                 *)

\* What has not been found in a heartbeat is not in flight, nor is what was lost.
LEMMA NothingMissed ==
    ASSUME Typed, Timely, Quiet, Followed, next_read = 0, pending = None
    PROVE  flight = <<>>
  <1> SUFFICES ASSUME flight # <<>> PROVE FALSE
    OBVIOUS
  <1>1. /\ config.heartbeat <= next_read + lead + Newest.age
        /\ LOST_AFTER_SLOTS + Budget + MaxLead <= config.heartbeat
    BY DEF Followed, FlightIsWatched, Quiet, Outlasts, Budget
  <1>2. Newest.age \in Nat /\ Newest.age <= LANDING_SLOTS
    BY FlightNumbers DEF Typed, PassTyped
  <1>3. /\ lead \in Nat /\ lead <= MaxLead /\ MaxLead \in Nat /\ Budget \in Nat
        /\ config.heartbeat \in Nat
        /\ LANDING_SLOTS \in Nat \ {0} /\ LOST_AFTER_SLOTS = 2 * LANDING_SLOTS
    BY Numbers
  <1> QED
    BY <1>1, <1>2, <1>3, SMT

\* What the sender gives up is not in flight.
LEMMA LostIsLost ==
    ASSUME Typed, Followed, pending # None, ~(pending.age - lead < LOST_AFTER_SLOTS)
    PROVE  flight = <<>>
  <1> SUFFICES ASSUME flight # <<>> PROVE FALSE
    OBVIOUS
  <1>1. pending.age <= Newest.age + lead
    BY DEF Followed, FlightIsWatched
  <1>2. Newest.age \in Nat /\ Newest.age <= LANDING_SLOTS
    BY FlightNumbers DEF Typed, PassTyped
  <1>3. /\ lead \in Nat /\ pending.age \in Int
        /\ LANDING_SLOTS \in Nat \ {0} /\ LOST_AFTER_SLOTS = 2 * LANDING_SLOTS
    BY Numbers
  <1> QED
    BY <1>1, <1>2, <1>3, SMT

\* A read finds what was decided, waits for it, or finds it lost.
LEMMA RefreshFollowed ==
    ASSUME Typed, Typed', Timely, Quiet => Followed, Quiet', refresh
    PROVE  Followed'
  <1>1. /\ phase' = 0 /\ lead' = 0 /\ pc \in {"read", "wait"} /\ Running /\ ~Asked
        /\ UNCHANGED <<flight, config, faults, repeated>>
    BY DEF refresh, anchor, history, Reading, Woken, Running, Asked
  <1>2. Quiet /\ Followed
    BY <1>1, QuietBefore
  <1>3. limit = view.limit \/ fits(config, limit)
    BY DEF refresh, Quiet, Calm, Running
  <1> DEFINE known == IF IsPosted(last) THEN [last EXCEPT !.age = @ - lead] ELSE last
             found == landed_at(known, book.age)
  <1>4. /\ pc' = "due" /\ check(known)
        /\ next_read' = config.heartbeat
        /\ book' = [book EXCEPT !.ours = @ /\ last' # Unknown]
    BY <1>3 DEF refresh
  <1>5. /\ known.at = last.at /\ found.at = last.at
        /\ IsPosted(last) => /\ known.order = last.order /\ known.age = last.age - lead
                             /\ found.order = last.order
                             /\ found.age = Most(last.age - lead, book.age)
        /\ ~IsPosted(last) => known = last /\ found = last
    <2>1. known = IF IsPosted(last) THEN [last EXCEPT !.age = @ - lead] ELSE last
      OBVIOUS
    <2> HIDE DEF known
    <2>2. ~IsPosted(last) => known = last
      BY <2>1
    <2>3. ~IsPosted(last) => found = last
      BY <2>2 DEF landed_at
    <2> QED
      BY <2>1, <2>2, <2>3, KnownTyped
  <1> HIDE DEF known, found
  <1>6. /\ lead \in Nat /\ lead <= MaxLead /\ MaxLead \in Nat /\ book.age \in Nat
        /\ config.heartbeat \in Nat /\ Budget \in Nat /\ LOST_AFTER_SLOTS \in Nat
        /\ LANDING_SLOTS \in Nat \ {0} /\ LOST_AFTER_SLOTS = 2 * LANDING_SLOTS
        /\ IsPosted(last) => last.age \in Int /\ last.order \in Quotes
        /\ pending # None => pending.age \in Int /\ pending.order \in Orders
        /\ LOST_AFTER_SLOTS + Budget + MaxLead <= config.heartbeat
    BY <1>2, Numbers DEF Quiet, Outlasts, Budget
  <1>7. /\ book'.shows = book.shows /\ book'.age = book.age
        /\ book'.ours = (book.ours /\ last' # Unknown)
        /\ Budget' = Budget /\ Newest' = Newest /\ ~Asked'
    BY <1>1, <1>4 DEF Typed, RestTyped, Budget, Newest, Asked
  <1>8. BookIsReplaced'
    BY <1>1, <1>2, <1>7 DEF Followed, BookIsReplaced
  <1>9. IsPosted(last) => last.age <= config.heartbeat
    <2>1. ~Overdue
      BY <1>1 DEF Overdue
    <2> QED
      BY <1>1, <1>2, <2>1 DEF Followed, DecisionIsRenewed
  <1>10. IsPosted(last) =>
            /\ lead <= last.age + Slack
            /\ flight = <<>> => book.ours /\ book.age + lead <= last.age + Slack
    <2>1. ~Overdue
      BY <1>1 DEF Overdue
    <2>2. IsPosted(last) => last # Unknown
      BY DEF IsPosted, Unknown
    <2> QED
      BY <1>2, <2>1, <2>2 DEF Followed, StampIsKnown, SentIsBelieved
  <1>11. CASE last' = Unknown /\ pending' = None /\ flight = <<>>
    <2>1. ~book'.ours /\ ~IsPosted(last')
      BY <1>7, <1>11 DEF IsPosted, Unknown
    <2> QED
      BY <1>1, <1>8, <1>11, <2>1 DEF Followed, SentIsBelieved, FlightIsWatched,
         DecisionIsRenewed, DecisionIsChecked, StampIsKnown
  \* The belief that is kept is about the same order.
  <1>12. ASSUME last' \in {known, found}
         PROVE  /\ SentIsBelieved'
                /\ IsPosted(last') <=> IsPosted(last)
                /\ \A order : Believes(order)' <=> Believes(order)
    <2>1. IsPosted(last') <=> IsPosted(last)
      BY <1>5, <1>12 DEF IsPosted
    <2>2. IsPosted(last) => last'.order = last.order
      BY <1>5, <1>12
    <2>3. /\ last' = Withdrawn <=> last = Withdrawn
          /\ last' = Unknown <=> last = Unknown
      BY <1>5, <1>12, <2>1 DEF IsPosted, Withdrawn, Unknown
    <2>4. \A order : Believes(order)' <=> Believes(order)
      BY <2>1, <2>2, <2>3 DEF Believes
    <2>5. SentIsBelieved'
      BY <1>1, <1>2, <1>7, <2>3, <2>4 DEF Followed, SentIsBelieved, Believes
    <2> QED
      BY <2>1, <2>4, <2>5
  \* A decision that has landed, or had before.
  <1>13. CASE /\ last' \in {known, found} /\ pending' = None
              /\ IsPosted(last) =>
                    /\ last' = found \/ pending = None
                    /\ flight # <<>> => last' = found
                    /\ flight = <<>> => book.age <= config.heartbeat
    <2>1. Slack' = 0
      BY <1>13 DEF Slack
    <2>2. FlightIsWatched'
      <3>1. flight # <<>> => Newest.age \in Nat
        BY FlightNumbers DEF Typed, PassTyped
      <3>2. flight # <<>> => config.heartbeat <= config.heartbeat + 0 + Newest.age
        BY <1>6, <3>1, SMT
      <3> QED
        BY <1>1, <1>4, <1>7, <1>13, <3>2 DEF FlightIsWatched
    <2>3. DecisionIsChecked'
      BY <1>13 DEF DecisionIsChecked
    <2>4. ASSUME IsPosted(last)
          PROVE  /\ \/ last'.age <= config.heartbeat
                    \/ last'.age >= config.heartbeat /\ flight # <<>>
                 /\ 0 <= last'.age + 0
                 /\ flight = <<>> => book.age + 0 <= last'.age + 0
      <3>1. last.age \in Int /\ last.age <= config.heartbeat
        BY <1>6, <1>9, <2>4
      <3>2. CASE last' = found
        <4> DEFINE a == Most(last.age - lead, book.age)
        <4>1. /\ a <= config.heartbeat \/ a = book.age
              /\ a >= book.age /\ a \in Nat
          BY <1>6, <3>1, SMT DEF Most
        <4>2. last'.age = a
          BY <1>5, <2>4, <3>2
        <4> HIDE DEF a
        <4>3. flight = <<>> => book.age <= config.heartbeat
          BY <1>13, <2>4
        <4>4. /\ a <= config.heartbeat \/ (a >= config.heartbeat /\ flight # <<>>)
              /\ 0 <= a + 0 /\ book.age + 0 <= a + 0
          BY <1>6, <4>1, <4>3, SMT
        <4> QED
          BY <4>2, <4>4
      <3>3. CASE last' = known /\ flight = <<>> /\ pending = None
        <4>1. last'.age = last.age - lead /\ Slack = 0
          BY <1>5, <2>4, <3>3 DEF Slack
        <4>2. lead <= last.age + 0 /\ book.age + lead <= last.age + 0
          BY <1>10, <2>4, <3>3, <4>1
        <4>3. /\ last.age - lead <= config.heartbeat
              /\ 0 <= last.age - lead + 0 /\ book.age + 0 <= last.age - lead + 0
          BY <1>6, <3>1, <4>2, SMT
        <4> QED
          BY <4>1, <4>3
      <3> QED
        BY <1>13, <2>4, <3>2, <3>3
    <2>5. IsPosted(last') <=> IsPosted(last)
      BY <1>12, <1>13
    <2>6. DecisionIsRenewed'
      <3>1. ASSUME last'.age >= config.heartbeat, flight # <<>> PROVE Overdue'
        BY <1>1, <1>4, <1>13, <3>1 DEF Overdue
      <3> QED
        BY <1>1, <2>4, <2>5, <3>1 DEF DecisionIsRenewed
    <2>7. StampIsKnown'
      BY <1>1, <1>7, <2>1, <2>4, <2>5 DEF StampIsKnown
    <2> QED
      BY <1>8, <1>12, <1>13, <2>2, <2>3, <2>6, <2>7 DEF Followed
  <1>14. CASE pending # None /\ landed
    <2>1. /\ pending' = None
          /\ last' = IF book.shows # Off THEN found ELSE known
      BY <1>4, <1>14 DEF check, found
    <2>2. Believes(book.shows)
      BY <1>2, <1>14 DEF Followed, DecisionIsChecked, landed
    <2>3. IsPosted(last) => book.shows # Off
      BY <2>2 DEF Believes, IsPosted, Withdrawn
    <2>4. ASSUME IsPosted(last), flight = <<>> PROVE book.age <= config.heartbeat
      <3>1. last.age <= LOST_AFTER_SLOTS + Budget /\ last.age \in Int
        BY <1>2, <1>6, <1>14, <2>4 DEF Followed, DecisionIsChecked
      <3>2. book.age + lead <= last.age + MaxLead
        BY <1>10, <1>14, <2>4 DEF Slack
      <3> QED
        BY <1>6, <3>1, <3>2, SMT
    <2>5. IsPosted(last) => last' = found
      BY <2>1, <2>3
    <2> QED
      BY <1>13, <2>1, <2>4, <2>5
  <1>15. CASE pending # None /\ ~landed /\ pending.age - lead < LOST_AFTER_SLOTS
    <2>1. pending' = [pending EXCEPT !.age = @ - lead, !.looked = TRUE] /\ last' = known
      BY <1>4, <1>15 DEF check
    <2>2. pending \in Pendings
      BY <1>15 DEF Typed, PassTyped
    <2>3. /\ pending'.age = pending.age - lead /\ pending'.order = pending.order
      BY <2>1, <2>2 DEF Pendings
    <2>4. pending' # None
      <3>1. pending.age - lead \in Int
        BY <1>6, <1>15, SMT
      <3>2. pending' \in Pendings
        BY <2>1, <2>2, <3>1 DEF Pendings
      <3> QED
        BY <3>2, Constants
    <2>5. Slack' = MaxLead /\ Slack = MaxLead
      BY <1>15, <2>4 DEF Slack
    <2>6. IsPosted(last) => last'.age = last.age - lead
      BY <1>5, <2>1
    <2>7. FlightIsWatched'
      <3>1. ASSUME flight # <<>> PROVE pending.age - lead <= Newest.age + 0
        <4>1. pending.age <= Newest.age + lead /\ Newest.age \in Nat
          BY <1>2, <1>15, <3>1, FlightNumbers DEF Followed, FlightIsWatched, Typed, PassTyped
        <4> QED
          BY <1>6, <1>15, <4>1, SMT
      <3> QED
        BY <1>1, <1>7, <2>3, <2>4, <3>1 DEF FlightIsWatched
    <2>8. ASSUME IsPosted(last)
          PROVE  /\ last.age - lead <= config.heartbeat
                 /\ last.age = pending.age
                 /\ last.age - lead <= LOST_AFTER_SLOTS + Budget
                 /\ 0 <= last.age - lead + MaxLead
                 /\ flight = <<>> => book.age + 0 <= last.age - lead + MaxLead
      <3>1. /\ last.age = pending.age \/ pending.age >= LOST_AFTER_SLOTS + lead
            /\ last.age <= LOST_AFTER_SLOTS + Budget
        BY <1>2, <1>15, <2>8 DEF Followed, DecisionIsChecked
      <3>2. /\ lead <= last.age + MaxLead
            /\ flight = <<>> => book.age + lead <= last.age + MaxLead
        BY <1>10, <2>5, <2>8
      <3>3. last.age \in Int /\ last.age <= config.heartbeat /\ pending.age \in Int
        BY <1>6, <1>9, <1>15, <2>8
      <3>4. /\ lead \in Nat /\ MaxLead \in Nat /\ LOST_AFTER_SLOTS \in Nat /\ Budget \in Nat
            /\ config.heartbeat \in Nat /\ book.age \in Nat
        BY <1>6
      <3>5. last.age = pending.age
        <4>1. ~(pending.age - lead < LOST_AFTER_SLOTS) <=> pending.age >= LOST_AFTER_SLOTS + lead
          BY <3>3, <3>4, SMT
        <4> QED
          BY <1>15, <3>1, <4>1
      <3>6. last.age - lead <= config.heartbeat
        BY <3>3, <3>4, SMT
      <3>7. last.age - lead <= LOST_AFTER_SLOTS + Budget
        BY <3>1, <3>3, <3>4, SMT
      <3>8. 0 <= last.age - lead + MaxLead
        BY <3>2, <3>3, <3>4, SMT
      <3>9. flight = <<>> => book.age + 0 <= last.age - lead + MaxLead
        BY <3>2, <3>3, <3>4, SMT
      <3> QED
        BY <3>5, <3>6, <3>7, <3>8, <3>9
    <2>9. IsPosted(last') <=> IsPosted(last)
      BY <1>12, <2>1
    <2>10. DecisionIsRenewed'
      BY <1>1, <2>6, <2>8, <2>9 DEF DecisionIsRenewed
    <2>11. DecisionIsChecked'
      <3>1. Believes(pending.order)'
        <4>1. Believes(pending.order)
          BY <1>2, <1>15 DEF Followed, DecisionIsChecked
        <4> QED
          BY <1>12, <2>1, <2>3, <4>1 DEF Believes
      <3> QED
        BY <1>7, <2>3, <2>6, <2>8, <2>9, <3>1 DEF DecisionIsChecked
    <2>12. StampIsKnown'
      BY <1>1, <1>7, <2>5, <2>6, <2>8, <2>9 DEF StampIsKnown
    <2> QED
      BY <1>8, <1>12, <2>1, <2>7, <2>10, <2>11, <2>12 DEF Followed
  <1>16. CASE pending # None /\ ~landed /\ ~(pending.age - lead < LOST_AFTER_SLOTS)
    <2>1. pending' = None /\ last' = Unknown
      BY <1>4, <1>16 DEF check
    <2>2. flight = <<>>
      BY <1>2, <1>16, LostIsLost
    <2> QED
      BY <1>11, <2>1, <2>2
  <1>17. CASE pending = None
    <2>1. flight = <<>>
      <3>1. next_read <= 0 /\ next_read \in Nat
        BY <1>17 DEF refresh, Reading, read_due, check_due, Typed, PassTyped
      <3>2. next_read = 0
        BY <3>1, SMT
      <3> QED
        BY <1>2, <1>17, <3>2, NothingMissed
    <2>2. pending' = None /\ last' \in {known, found, Unknown}
      BY <1>4, <1>17 DEF check, found
    <2>3. ASSUME IsPosted(last) PROVE book.age <= config.heartbeat
      <3>1. book.age + lead <= last.age + 0
        BY <1>10, <1>17, <2>1, <2>3 DEF Slack
      <3>2. last.age \in Int /\ last.age <= config.heartbeat
        BY <1>6, <1>9, <2>3
      <3> QED
        BY <1>6, <3>1, <3>2, SMT
    <2>4. CASE last' = Unknown
      BY <1>11, <2>1, <2>2, <2>4
    <2>5. CASE last' \in {known, found}
      BY <1>13, <1>17, <2>1, <2>2, <2>3, <2>5
    <2> QED
      BY <2>2, <2>4, <2>5
  <1> QED
    BY <1>14, <1>15, <1>16, <1>17

-----------------------------------------------------------------------------
(* The start, the network and the owner.                                    *)

\* An engine that starts has nothing to follow.
LEMMA StartFollowed ==
    ASSUME Timely, start
    PROVE  Followed'
  <1>1. flight' = <<>> /\ ~book'.ours /\ last' = Unknown /\ pending' = None
    BY DEF start, Timely, Fresh, vault, sender
  <1>2. ~IsPosted(last')
    BY <1>1 DEF IsPosted, Unknown
  <1> QED
    BY <1>1, <1>2 DEF Followed, SentIsBelieved, FlightIsWatched, DecisionIsRenewed,
       DecisionIsChecked, StampIsKnown, BookIsReplaced

\* What leaves the book, the flight and the engine alone keeps what is followed.
LEMMA KeptFollowed ==
    ASSUME Quiet => Followed, Quiet',
           UNCHANGED <<book, flight, config, pc, phase, lead, spent, last, pending, next_read,
                       repeated, faults>>
    PROVE  Followed'
  <1>1. Quiet /\ Followed
    BY DEF Quiet, Calm, Running, Outlasts
  <1>2. /\ Slack' = Slack /\ Newest' = Newest /\ Budget' = Budget /\ Left' = Left
        /\ Asked' = Asked /\ Overdue' = Overdue
        /\ \A order : Believes(order)' = Believes(order)
    BY DEF Slack, Newest, Budget, Left, Asked, Overdue, Within, Spans, Believes
  <1> QED
    BY <1>1, <1>2 DEF Followed, SentIsBelieved, FlightIsWatched, DecisionIsRenewed,
       DecisionIsChecked, StampIsKnown, BookIsReplaced, Within, Believes

\* The oldest in flight lands, and what is sent last stays the last.
LEMMA DeliverFollowed ==
    ASSUME Typed, Quiet, Followed, flight # <<>>, Deliver(1)
    PROVE  Followed'
  <1>1. /\ pc # "due" /\ flight' = Remove(flight, 1)
        /\ book' = [shows |-> flight[1].order, age |-> 0, ours |-> TRUE]
        /\ UNCHANGED <<config, pc, phase, lead, spent, last, pending, next_read>>
    BY DEF Deliver, clocks, Engine, sender, reads
  <1>2. /\ flight \in Seq(Flights) /\ Len(flight) \in Nat /\ Len(flight) # 0
        /\ 1 \in DOMAIN flight
    <2>1. flight \in Seq(Flights)
      BY DEF Typed, PassTyped
    <2> QED
      BY <2>1, FlightNumbers, LenProperties
  <1>3. /\ flight' \in Seq(Flights) /\ Len(flight') = Len(flight) - 1
        /\ \A j \in 1..(Len(flight) - 1) : flight'[j] = flight[j + 1]
    BY <1>1, <1>2, RemoveTyped
  <1>4. book'.shows = flight[1].order /\ book'.age = 0 /\ book'.ours
    BY <1>1
  <1>5. /\ Slack' = Slack /\ Budget' = Budget /\ Left' = Left /\ Asked' = Asked
        /\ \A n : Within(n)' <=> Spans(n, spent, Left)
        /\ \A order : Believes(order)' <=> Believes(order)
    BY <1>1 DEF Slack, Budget, Left, Asked, Within, Believes
  <1>6. lead \in Nat /\ 0 + lead = lead
    BY Numbers, SMTT(30)
  <1>7. Overdue => Overdue'
    BY <1>1, <1>4, <1>5, <1>6 DEF Overdue, Within
  <1>8. DecisionIsRenewed' /\ DecisionIsChecked'
    BY <1>1, <1>5, <1>7 DEF Followed, DecisionIsRenewed, DecisionIsChecked, Within, Believes
  <1>9. StampIsKnown'
    BY <1>1, <1>4, <1>5, <1>6 DEF Followed, StampIsKnown
  <1>10. Believes(Newest.order)
    BY DEF Followed, SentIsBelieved
  <1>11. CASE Len(flight) = 1
    <2>1. Newest = flight[1]
      BY <1>11 DEF Newest
    <2>2. flight' = <<>>
      <3>1. Len(flight) - 1 = 0
        BY <1>11, SMT
      <3> QED
        BY <1>3, <3>1, EmptySeq
    <2>3. SentIsBelieved'
      BY <1>1, <1>4, <1>5, <1>10, <2>1, <2>2 DEF SentIsBelieved, Believes
    <2> QED
      BY <1>8, <1>9, <2>2, <2>3 DEF Followed, FlightIsWatched, BookIsReplaced
  <1>12. CASE Len(flight) # 1
    <2>1. /\ Len(flight) - 1 \in 1..(Len(flight) - 1) /\ 1 \in 1..(Len(flight) - 1)
          /\ (Len(flight) - 1) + 1 = Len(flight) /\ Len(flight) - 1 # 0
          /\ 1 + 1 \in 1..Len(flight)
      <3> DEFINE n == Len(flight)
      <3>1. n \in Nat /\ n # 0 /\ n # 1
        BY <1>2, <1>12
      <3> HIDE DEF n
      <3>2. /\ n - 1 \in 1..(n - 1) /\ 1 \in 1..(n - 1) /\ (n - 1) + 1 = n /\ n - 1 # 0
            /\ 1 + 1 \in 1..n
        BY <3>1, SMT
      <3> QED
        BY <3>2 DEF n
    <2>2. Newest' = Newest /\ flight'[1] = flight[1 + 1] /\ flight' # <<>>
      <3>1. flight'[Len(flight')] = flight[Len(flight)]
        BY <1>3, <2>1
      <3> QED
        BY <1>3, <2>1, <3>1, EmptySeq DEF Newest
    <2>3. SentIsBelieved' /\ FlightIsWatched'
      BY <1>1, <1>5, <1>10, <2>2 DEF Followed, SentIsBelieved, FlightIsWatched, Believes
    <2>4. BookIsReplaced'
      <3> DEFINE a == flight[1 + 1].age
      <3>1. a \in Nat
        <4>1. flight[1 + 1] \in Flights
          BY <1>2, <2>1, ElementOfSeq
        <4>2. a \in 0..LANDING_SLOTS
          BY <4>1 DEF Flights
        <4> QED
          BY <4>2, Constants, SMT
      <3>2. config.heartbeat \in Nat /\ Budget \in Nat
        BY Numbers
      <3> HIDE DEF a
      <3>3. 0 <= config.heartbeat + Budget + a
        BY <3>1, <3>2, SMT
      <3> QED
        BY <1>1, <1>4, <1>5, <2>2, <3>3 DEF BookIsReplaced, a
    <2> QED
      BY <1>8, <1>9, <2>3, <2>4 DEF Followed
  <1> QED
    BY <1>11, <1>12

\* A loss, and a delivery out of order, is a fault.
LEMMA NetworkFollowed ==
    ASSUME Typed, Quiet => Followed, Quiet', NEW i \in DOMAIN flight, Deliver(i) \/ Drop(i)
    PROVE  Followed'
  <1>1. ~Fault
    <2>1. faults \in Nat /\ faults' = 0
      BY DEF Typed, PassTyped, Quiet, Calm
    <2> QED
      BY <2>1, FaultTyped
  <1>2. i = 1 /\ Deliver(1) /\ faults' = faults
    BY <1>1 DEF Deliver, Drop
  <1>3. Quiet /\ Followed
    <2>1. UNCHANGED <<config, pc, repeated>>
      BY <1>2 DEF Deliver, Engine
    <2> QED
      BY <1>2, <2>1 DEF Quiet, Calm, Running, Outlasts
  <1>4. flight # <<>>
    <2>1. flight \in Seq(Flights)
      BY DEF Typed, PassTyped
    <2>2. Len(flight) \in Nat /\ i \in 1..Len(flight)
      BY <2>1, LenProperties
    <2>3. Len(flight) # 0
      BY <2>2, SMT
    <2> QED
      BY <2>1, <2>3, FlightNumbers
  <1> QED
    BY <1>2, <1>3, <1>4, DeliverFollowed

-----------------------------------------------------------------------------
(* Time, the book followed.                                                 *)

\* The chain's next slot leaves what is looked for, but for the baseline.
LEMMA ChainPending ==
    ASSUME Typed, ChainMoves
    PROVE  /\ pending' = None <=> pending = None
           /\ pending # None => pending'.age = pending.age /\ pending'.order = pending.order
  <1>1. pending' = IF pending = None THEN None
                   ELSE [pending EXCEPT !.baseline = Older(@, MaxStale)]
    BY DEF ChainMoves
  <1>2. CASE pending # None
    <2>1. pending \in Pendings
      BY <1>2 DEF Typed, PassTyped
    <2>2. Older(pending.baseline, MaxStale) \in Nat \union {None}
      <3>1. pending.baseline \in Nat \union {None}
        BY <2>1 DEF Pendings
      <3> QED
        BY <3>1, Constants, SMT DEF Older, Least
    <2>3. pending' \in Pendings
      BY <1>1, <1>2, <2>1, <2>2 DEF Pendings
    <2>4. pending' # None
      BY <2>3, Constants
    <2>5. pending'.age = pending.age /\ pending'.order = pending.order
      BY <1>1, <1>2, <2>1 DEF Pendings
    <2> QED
      BY <1>2, <2>4, <2>5
  <1> QED
    BY <1>1, <1>2

\* The chain's next slot: what the book ages the lead loses.
LEMMA ChainFollowed ==
    ASSUME Typed, Quiet => Followed, Quiet', ChainMoves
    PROVE  Followed'
  <1>1. /\ pc # "due"
        /\ book' = [book EXCEPT !.age = IF book.shows = Off THEN 0 ELSE @ + 1]
        /\ UNCHANGED <<phase, config, pc, spent, last, next_read, repeated, faults>>
    BY DEF ChainMoves, history
  <1>2. Quiet /\ Followed
    BY <1>1 DEF Quiet, Calm, Running, Outlasts
  <1>3. lead' = lead - 1 /\ lead >= 1
    BY ChainTyped
  <1>4. /\ lead \in Nat /\ book.age \in Nat /\ Slack \in Nat /\ spent \in Nat /\ Left \in Nat
        /\ Budget \in Nat /\ config.heartbeat \in Nat /\ LOST_AFTER_SLOTS \in Nat
        /\ next_read \in Nat
        /\ IsPosted(last) => last.age \in Int
        /\ pending # None => pending.age \in Int
    BY Numbers
  <1>5. /\ book'.shows = book.shows /\ book'.ours = book.ours
        /\ book'.age = IF book.shows = Off THEN 0 ELSE book.age + 1
    BY <1>1 DEF Typed, RestTyped
  <1>6. /\ pending' = None <=> pending = None
        /\ pending # None => pending'.age = pending.age /\ pending'.order = pending.order
    BY ChainPending
  <1>7. /\ Slack' = Slack /\ Budget' = Budget /\ Left' = Left /\ Asked' = Asked
        /\ \A n : Within(n) <=> Spans(n, spent, Left)
        /\ \A order : Believes(order)' <=> Believes(order)
    BY <1>1, <1>6 DEF Slack, Budget, Left, Asked, Within, Believes
  <1>8. /\ flight' = <<>> <=> flight = <<>>
        /\ flight # <<>> => /\ Newest'.order = Newest.order /\ Newest'.age = Newest.age + 1
                            /\ flight'[1].age = flight[1].age + 1
                            /\ Newest.age \in Nat /\ flight[1].age \in Nat
    <2>1. /\ flight' \in Seq(Flights) /\ Len(flight') = Len(flight) /\ Len(flight) \in Nat
          /\ \A i \in 1..Len(flight) : /\ flight'[i].order = flight[i].order
                                       /\ flight'[i].age = flight[i].age + 1
      BY ChainFlight
    <2>2. flight \in Seq(Flights)
      BY DEF Typed, PassTyped
    <2>3. flight' = <<>> <=> flight = <<>>
      BY <2>1, <2>2, EmptySeq
    <2> QED
      BY <2>1, <2>2, <2>3, FlightNumbers DEF Newest
  <1> DEFINE b == IF book.shows = Off THEN 0 ELSE book.age + 1
  <1>9. /\ b + (lead - 1) <= book.age + lead \/ b + (lead - 1) <= lead
        /\ b \in Nat /\ b <= book.age + 1 /\ lead - 1 \in Nat
        /\ lead - 1 <= lead /\ b + (lead - 1) \in Nat /\ book.age + lead \in Nat
    BY <1>3, <1>4, SMT
  <1>10. book'.age = b
    BY <1>5
  <1> HIDE DEF b
  <1>11. SentIsBelieved'
    BY <1>1, <1>2, <1>5, <1>7, <1>8 DEF Followed, SentIsBelieved, Believes
  <1>12. FlightIsWatched'
    <2>1. ASSUME flight # <<>>, pending # None
          PROVE  pending.age <= (Newest.age + 1) + (lead - 1)
      <3>1. pending.age <= Newest.age + lead /\ Newest.age \in Nat /\ pending.age \in Int
        BY <1>2, <1>4, <1>8, <2>1 DEF Followed, FlightIsWatched
      <3> QED
        BY <1>4, <3>1, SMT
    <2>2. ASSUME flight # <<>>, pending = None
          PROVE  config.heartbeat <= next_read + (lead - 1) + (Newest.age + 1)
      <3>1. config.heartbeat <= next_read + lead + Newest.age /\ Newest.age \in Nat
        BY <1>2, <1>8, <2>2 DEF Followed, FlightIsWatched
      <3> QED
        BY <1>4, <3>1, SMT
    <2> QED
      BY <1>1, <1>3, <1>6, <1>8, <2>1, <2>2 DEF FlightIsWatched
  <1>13. Overdue => Overdue'
    <2> SUFFICES ASSUME Overdue PROVE Overdue'
      OBVIOUS
    <2>1. /\ pending = None /\ last.age >= config.heartbeat
          /\ pc = "beat" /\ Spans(lead, spent, Left)
          /\ flight = <<>> => Spans(book.age + lead, spent, Left)
      BY <1>1, <1>7 DEF Overdue
    <2>2. Spans(lead - 1, spent, Left)
      BY <1>4, <1>9, <2>1, SpansLess
    <2>3. flight = <<>> => Spans(b + (lead - 1), spent, Left)
      BY <1>4, <1>9, <2>1, SpansLess
    <2> QED
      BY <1>1, <1>3, <1>6, <1>7, <1>8, <1>10, <2>1, <2>2, <2>3 DEF Overdue, Within
  <1>14. DecisionIsRenewed'
    BY <1>1, <1>2, <1>7, <1>13 DEF Followed, DecisionIsRenewed, Within
  <1>15. DecisionIsChecked'
    <2>1. ASSUME pending # None, pending.age >= LOST_AFTER_SLOTS + lead
          PROVE  pending.age >= LOST_AFTER_SLOTS + (lead - 1)
      BY <1>4, <2>1, SMT
    <2> QED
      BY <1>1, <1>2, <1>3, <1>6, <1>7, <2>1 DEF Followed, DecisionIsChecked, Within, Believes
  <1>16. StampIsKnown'
    <2>1. ASSUME IsPosted(last)
          PROVE  /\ lead - 1 <= last.age + Slack
                 /\ book.age + lead <= last.age + Slack => b + (lead - 1) <= last.age + Slack
      <3>1. lead <= last.age + Slack /\ last.age \in Int
        BY <1>2, <1>4, <2>1 DEF Followed, StampIsKnown
      <3> QED
        BY <1>4, <1>9, <3>1, SMT
    <2>2. IsPosted(last) /\ flight = <<>> /\ book.ours =>
            book.age + lead <= last.age + Slack \/ Overdue
      BY <1>2 DEF Followed, StampIsKnown
    <2> QED
      BY <1>1, <1>3, <1>5, <1>7, <1>8, <1>10, <1>13, <2>1, <2>2 DEF StampIsKnown
  <1>17. BookIsReplaced'
    <2>1. ASSUME book.ours, flight # <<>>
          PROVE  b <= config.heartbeat + Budget + (flight[1].age + 1)
      <3>1. book.age <= config.heartbeat + Budget + flight[1].age /\ flight[1].age \in Nat
        BY <1>2, <1>8, <2>1 DEF Followed, BookIsReplaced
      <3> QED
        BY <1>4, <1>9, <3>1, SMT
    <2> QED
      BY <1>1, <1>5, <1>7, <1>8, <1>10, <2>1 DEF BookIsReplaced
  <1> QED
    BY <1>11, <1>12, <1>14, <1>15, <1>16, <1>17 DEF Followed

\* The lesser of two.
LEMMA LeastIs ==
    ASSUME NEW m \in Int, NEW n \in Int
    PROVE  /\ Least(m, n) \in Int /\ Least(m, n) <= m
           /\ \/ Least(m, n) = m
              \/ Least(m, n) = n /\ n <= m
  BY SMT DEF Least

\* What a tick of the clock does to what is followed.
LEMMA TickAges ==
    ASSUME Typed, Tick
    PROVE  /\ UNCHANGED <<book, flight, config, pc, repeated, faults>>
           /\ spent' = IF Asked THEN spent + 1 ELSE spent
           /\ phase # 0 => UNCHANGED <<last, pending, lead, next_read>>
           /\ phase = 0 =>
                 /\ lead < MaxLead /\ lead' = lead + 1 /\ next_read' = Most(next_read - 1, 0)
                 /\ IsPosted(last) => last'.age = Least(last.age + 1, LastCap)
                 /\ pending # None => pending'.age = Least(pending.age + 1,
                                                           LOST_AFTER_SLOTS + MaxLead)
           /\ IsPosted(last') <=> IsPosted(last)
           /\ IsPosted(last) => last'.order = last.order
           /\ ~IsPosted(last) => last' = last
           /\ pending' = None <=> pending = None
           /\ pending # None => pending'.order = pending.order
  <1>1. /\ UNCHANGED <<book, flight, config, pc, repeated, faults>>
        /\ spent' = IF Asked THEN spent + 1 ELSE spent
    BY DEF Tick, vault
  <1>2. CASE phase # 0
    <2>1. UNCHANGED <<last, pending, lead, next_read>>
      BY <1>2 DEF Tick, SlotBegins
    <2> QED
      BY <1>1, <1>2, <2>1 DEF IsPosted
  <1>3. CASE phase = 0
    <2>1. /\ lead < MaxLead /\ lead' = lead + 1 /\ next_read' = Most(next_read - 1, 0)
          /\ last' = IF IsPosted(last) THEN [last EXCEPT !.age = Least(@ + 1, LastCap)] ELSE last
          /\ pending' = IF pending = None THEN None
                        ELSE [pending EXCEPT !.age = Least(@ + 1, LOST_AFTER_SLOTS + MaxLead)]
      BY <1>3 DEF Tick, SlotBegins
    <2>2. IsPosted(last) => last'.age = Least(last.age + 1, LastCap) /\ last'.order = last.order
                            /\ last'.at = "posted"
      <3>1. IsPosted(last) => last \in Posts
        BY DEF Typed, PassTyped, Beliefs, IsPosted, Unknown, Withdrawn
      <3> QED
        BY <2>1, <3>1 DEF Posts
    <2>3. ASSUME pending # None
          PROVE  /\ pending' # None /\ pending'.order = pending.order
                 /\ pending'.age = Least(pending.age + 1, LOST_AFTER_SLOTS + MaxLead)
      <3>1. pending \in Pendings
        BY <2>3 DEF Typed, PassTyped
      <3>2. Least(pending.age + 1, LOST_AFTER_SLOTS + MaxLead) \in Int
        <4>1. pending.age \in Int
          BY <3>1 DEF Pendings
        <4> QED
          BY <4>1, Constants, SMT DEF Least
      <3>3. pending' \in Pendings
        BY <2>1, <2>3, <3>1, <3>2 DEF Pendings
      <3>4. pending' # None
        BY <3>3, Constants
      <3> QED
        BY <2>1, <2>3, <3>1, <3>4 DEF Pendings
    <2> QED
      BY <1>1, <1>3, <2>1, <2>2, <2>3 DEF IsPosted
  <1> QED
    BY <1>2, <1>3

\* What fits in the ticks the model is asked for still does, a slot more when one begins.
LEMMA TickWithin ==
    ASSUME Typed, Tick, Asked, NEW n \in Int, Within(n)
    PROVE  /\ Spans(n, spent', Left')
           /\ phase = 0 => Spans(n + 1, spent', Left')
  <1>1. spent' = spent + 1 /\ Left' = (IF phase = 0 THEN Grain ELSE Left) - 1
    BY TickAges, PhaseTurns
  <1>2. spent \in Nat /\ Left \in Nat /\ Grain \in Nat \ {0} /\ Spans(n, spent, Left)
    BY Numbers DEF Within
  <1>3. CASE phase = 0
    <2>1. Left = 0
      BY <1>3 DEF Left
    <2>2. Spans(n + 1, spent + 1, Grain - 1)
      BY <1>2, <2>1, SpansSlot
    <2>3. /\ n + 1 \in Int /\ spent + 1 \in Nat /\ Grain - 1 \in Nat /\ n <= n + 1
      BY <1>2, SMT
    <2>4. Spans(n, spent + 1, Grain - 1)
      BY <2>2, <2>3, SpansLess
    <2> QED
      BY <1>1, <1>3, <2>2, <2>4
  <1>4. CASE phase # 0
    <2>1. Spans(n, spent + 1, Left - 1)
      BY <1>2, SpansTick
    <2> QED
      BY <1>1, <1>4, <2>1
  <1> QED
    BY <1>3, <1>4

\* A decision found before its time is overdue until the model answers.
LEMMA OverdueStays ==
    ASSUME Typed, Tick, IsPosted(last), Overdue
    PROVE  Overdue' /\ Asked
  <1>1. /\ UNCHANGED <<book, flight, config, pc>>
        /\ pending' = None <=> pending = None
        /\ phase # 0 => UNCHANGED <<last, lead>>
        /\ phase = 0 => lead' = lead + 1 /\ last'.age = Least(last.age + 1, LastCap)
    BY TickAges
  <1>2. pc # "due"
    BY DEF Tick, MayPass, Asked
  <1>3. /\ pending = None /\ last.age >= config.heartbeat /\ pc = "beat" /\ Asked
        /\ Within(lead) /\ (flight = <<>> => Within(book.age + lead))
    BY <1>2 DEF Overdue, Asked
  <1>4. /\ lead \in Nat /\ book.age \in Nat /\ last.age \in Int /\ config.heartbeat \in Nat
        /\ Budget \in Nat /\ MaxLead \in Nat /\ LastCap = config.heartbeat + Budget + MaxLead
    BY Numbers, BudgetTyped
  <1>5. lead \in Int /\ book.age + lead \in Int /\ (book.age + lead) + 1 = book.age + (lead + 1)
    BY <1>4, SMT
  <1>6. /\ Spans(lead, spent', Left')
        /\ phase = 0 => Spans(lead + 1, spent', Left')
    BY <1>3, <1>5, TickWithin
  <1>7. flight = <<>> =>
          /\ Spans(book.age + lead, spent', Left')
          /\ phase = 0 => Spans((book.age + lead) + 1, spent', Left')
    BY <1>3, <1>5, TickWithin
  <1>8. Least(last.age + 1, LastCap) >= config.heartbeat
    BY <1>3, <1>4, SMT DEF Least
  <1>9. CASE phase = 0
    BY <1>1, <1>3, <1>5, <1>6, <1>7, <1>8, <1>9 DEF Overdue, Within
  <1>10. CASE phase # 0
    BY <1>1, <1>3, <1>6, <1>7, <1>10 DEF Overdue, Within
  <1> QED
    BY <1>9, <1>10

\* When no slot begins, only the model has less time.
LEMMA MidSlotFollowed ==
    ASSUME Typed, Followed, Tick, phase # 0
    PROVE  Followed'
  <1>1. /\ UNCHANGED <<book, flight, config, pc, last, pending, lead, next_read>>
    BY TickAges
  <1>2. /\ Slack' = Slack /\ Newest' = Newest /\ Budget' = Budget /\ Asked' = Asked
        /\ \A order : Believes(order)' <=> Believes(order)
    BY <1>1 DEF Slack, Newest, Budget, Asked, Believes
  <1>3. IsPosted(last) /\ Overdue => Overdue'
    BY OverdueStays
  <1>4. SentIsBelieved' /\ FlightIsWatched' /\ BookIsReplaced'
    BY <1>1, <1>2 DEF Followed, SentIsBelieved, FlightIsWatched, BookIsReplaced, Believes
  <1>5. StampIsKnown'
    BY <1>1, <1>2, <1>3 DEF Followed, StampIsKnown
  <1>6. IsPosted(last) => /\ last.age - config.heartbeat \in Int
                          /\ last.age - LOST_AFTER_SLOTS \in Int
    BY Numbers, SMTT(30)
  <1>7. DecisionIsRenewed'
    <2>1. ASSUME IsPosted(last), Asked, Within(last.age - config.heartbeat)
          PROVE  Spans(last.age - config.heartbeat, spent', Left')
      BY <1>6, <2>1, TickWithin
    <2> QED
      BY <1>1, <1>2, <1>3, <2>1 DEF Followed, DecisionIsRenewed, Within
  <1>8. DecisionIsChecked'
    <2>1. ASSUME IsPosted(last), Asked, Within(last.age - LOST_AFTER_SLOTS)
          PROVE  Spans(last.age - LOST_AFTER_SLOTS, spent', Left')
      BY <1>6, <2>1, TickWithin
    <2> QED
      BY <1>1, <1>2, <2>1 DEF Followed, DecisionIsChecked, Within, Believes
  <1> QED
    BY <1>4, <1>5, <1>7, <1>8 DEF Followed

\* When a slot begins, what the engine counts gets older with its clock: up to the caps,
\* which nothing that is still looked at reaches.
LEMMA SlotFollowed ==
    ASSUME Typed, Timely, Quiet, Followed, Tick, phase = 0
    PROVE  Followed'
  <1>1. /\ UNCHANGED <<book, flight, config, pc>>
        /\ spent' = IF Asked THEN spent + 1 ELSE spent
        /\ lead < MaxLead /\ lead' = lead + 1 /\ next_read' = Most(next_read - 1, 0)
        /\ IsPosted(last) => last'.age = Least(last.age + 1, LastCap) /\ last'.order = last.order
        /\ pending # None => /\ pending'.age = Least(pending.age + 1, LOST_AFTER_SLOTS + MaxLead)
                             /\ pending'.order = pending.order
        /\ IsPosted(last') <=> IsPosted(last)
        /\ ~IsPosted(last) => last' = last
        /\ pending' = None <=> pending = None
    BY TickAges
  <1>2. /\ Slack' = Slack /\ Newest' = Newest /\ Budget' = Budget /\ Asked' = Asked
    BY <1>1 DEF Slack, Newest, Budget, Asked
  <1>3. \A order : Believes(order)' <=> Believes(order)
    <2>1. last' = Withdrawn <=> last = Withdrawn
      BY <1>1 DEF IsPosted, Withdrawn
    <2> QED
      BY <1>1, <2>1 DEF Believes
  <1>4. /\ lead \in Nat /\ MaxLead \in Nat /\ book.age \in Nat /\ next_read \in Nat
        /\ config.heartbeat \in Nat /\ Budget \in Nat /\ LOST_AFTER_SLOTS \in Nat
        /\ Slack \in Nat
    BY Numbers
  <1>5. /\ IsPosted(last) => last.age \in Int
        /\ pending # None => pending.age \in Int
    BY Numbers
  <1>6. LastCap = config.heartbeat + Budget + MaxLead
    BY BudgetTyped
  <1>7. LOST_AFTER_SLOTS + Budget + MaxLead <= config.heartbeat
    BY DEF Quiet, Outlasts, Budget
  <1>8. IsPosted(last) =>
            /\ last'.age <= last.age + 1 /\ last'.age \in Int
            /\ \/ last'.age = last.age + 1
               \/ last'.age = LastCap /\ LastCap <= last.age + 1
    <2> SUFFICES ASSUME IsPosted(last)
                 PROVE  LET a == Least(last.age + 1, LastCap)
                        IN /\ a <= last.age + 1 /\ a \in Int
                           /\ \/ a = last.age + 1
                              \/ a = LastCap /\ LastCap <= last.age + 1
      BY <1>1
    <2>1. last.age + 1 \in Int /\ LastCap \in Int
      BY <1>5, BudgetTyped, SMT
    <2> QED
      BY <2>1, LeastIs
  <1>9. \/ pc = "wait" /\ ~WakeDue /\ ~Asked
        \/ Asked /\ spent < config.budget
    BY DEF Tick, MayPass, Asked
  \* Waiting, the engine has nothing due.
  <1>10. ASSUME ~Asked, IsPosted(last)
         PROVE  /\ last.age < config.heartbeat
                /\ pending # None => pending.age < LOST_AFTER_SLOTS
    <2>1. Calm /\ ~HeartbeatDue /\ ~read_due
      BY <1>9, <1>10 DEF WakeDue, Quiet
    <2>2. want = "Quote"
      BY <1>10 DEF Timely, Unhindered, Typed, RestTyped
    <2>3. ~(last.age >= config.heartbeat)
      BY <1>10, <2>1, <2>2 DEF HeartbeatDue
    <2>4. last.age < config.heartbeat
      BY <1>4, <1>5, <1>10, <2>3, SMT
    <2>5. ASSUME pending # None PROVE pending.age < LOST_AFTER_SLOTS
      <3>1. ~(pending.age >= (IF pending.looked THEN LOST_AFTER_SLOTS ELSE LANDING_SLOTS))
        BY <2>1, <2>5, NoReadDue DEF check_due
      <3>2. /\ pending.age \in Int /\ LOST_AFTER_SLOTS \in Nat
            /\ LANDING_SLOTS \in Nat /\ LOST_AFTER_SLOTS = 2 * LANDING_SLOTS
        BY <2>5, Numbers
      <3> QED
        BY <3>1, <3>2, SMT
    <2> QED
      BY <2>4, <2>5
  \* Asked, the model has a slot less, and one at least.
  <1>11. ASSUME Asked, NEW n \in Int, NEW m \in Int, m <= n + 1, Spans(n, spent, Left)
         PROVE  Spans(m, spent', Left')
    <2>1. Spans(n + 1, spent', Left')
      BY <1>11, TickWithin DEF Within
    <2>2. spent' \in Nat
      <3>1. spent' = spent + 1 /\ spent \in Nat
        BY <1>1, <1>11, Numbers
      <3>2. spent + 1 \in Nat
        BY <3>1, SMT
      <3> QED
        BY <3>1, <3>2
    <2>3. Left' \in Nat
      BY PhaseTurns
    <2>4. n + 1 \in Int
      BY <1>11, SMT
    <2> QED
      BY <1>11, <2>1, <2>2, <2>3, <2>4, SpansLess
  <1>12. SentIsBelieved' /\ BookIsReplaced'
    BY <1>1, <1>2, <1>3 DEF Followed, SentIsBelieved, BookIsReplaced, Believes, IsPosted, Unknown
  <1>13. FlightIsWatched'
    <2>1. flight # <<>> => Newest.age \in Nat
      BY FlightNumbers DEF Typed, PassTyped
    <2>2. ASSUME flight # <<>>, pending # None
          PROVE  Least(pending.age + 1, LOST_AFTER_SLOTS + MaxLead) <= Newest.age + (lead + 1)
      <3>1. pending.age <= Newest.age + lead /\ Newest.age \in Nat /\ pending.age \in Int
        BY <1>5, <2>1, <2>2 DEF Followed, FlightIsWatched
      <3> QED
        BY <1>4, <3>1, SMT DEF Least
    <2>3. ASSUME flight # <<>>, pending = None
          PROVE  config.heartbeat <= Most(next_read - 1, 0) + (lead + 1) + Newest.age
      <3>1. config.heartbeat <= next_read + lead + Newest.age /\ Newest.age \in Nat
        BY <2>1, <2>3 DEF Followed, FlightIsWatched
      <3> QED
        BY <1>4, <3>1, SMT DEF Most
    <2> QED
      BY <1>1, <1>2, <2>2, <2>3 DEF FlightIsWatched
  <1>14. IsPosted(last) /\ Overdue => Overdue'
    BY OverdueStays
  <1>15. DecisionIsRenewed'
    <2> SUFFICES ASSUME IsPosted(last)
                 PROVE  \/ last'.age <= config.heartbeat
                        \/ Asked /\ Spans(last'.age - config.heartbeat, spent', Left')
                        \/ Overdue'
      BY <1>1, <1>2 DEF DecisionIsRenewed, Within
    <2> DEFINE a == last'.age
    <2>1. a \in Int /\ a <= last.age + 1 /\ last.age \in Int
      BY <1>5, <1>8
    <2> HIDE DEF a
    <2>2. /\ a - config.heartbeat \in Int
          /\ a - config.heartbeat <= (last.age - config.heartbeat) + 1
          /\ last.age - config.heartbeat \in Int
          /\ last.age < config.heartbeat => a <= config.heartbeat
          /\ last.age <= config.heartbeat => a - config.heartbeat <= 0 + 1
      BY <1>4, <2>1, SMT
    <2>3. CASE ~Asked
      BY <1>10, <2>2, <2>3 DEF a
    <2>4. CASE Asked /\ last.age <= config.heartbeat
      <3>1. Spans(0, spent, Left)
        BY Numbers, SpansNone, SMT
      <3>2. Spans(a - config.heartbeat, spent', Left')
        BY <1>11, <2>2, <2>4, <3>1, SMT
      <3> QED
        BY <2>4, <3>2 DEF a
    <2>5. CASE Asked /\ Within(last.age - config.heartbeat)
      <3>1. Spans(a - config.heartbeat, spent', Left')
        BY <1>11, <2>2, <2>5 DEF Within
      <3> QED
        BY <2>5, <3>1 DEF a
    <2>6. CASE Overdue
      BY <1>14, <2>6
    <2> QED
      BY <2>3, <2>4, <2>5, <2>6 DEF Followed, DecisionIsRenewed
  <1>16. DecisionIsChecked'
    <2> DEFINE a == last'.age
               p == Least(pending.age + 1, LOST_AFTER_SLOTS + MaxLead)
    <2>1. ASSUME pending # None, IsPosted(last)
          PROVE  /\ a = p \/ p >= LOST_AFTER_SLOTS + (lead + 1)
                 /\ a <= LOST_AFTER_SLOTS + Budget
                 /\ Asked => Spans(a - LOST_AFTER_SLOTS, spent', Left')
      <3>1. /\ last.age = pending.age \/ pending.age >= LOST_AFTER_SLOTS + lead
            /\ last.age <= LOST_AFTER_SLOTS + Budget
            /\ Asked => Within(last.age - LOST_AFTER_SLOTS)
        BY <2>1 DEF Followed, DecisionIsChecked
      <3>2. /\ last.age \in Int /\ pending.age \in Int
            /\ a \in Int /\ a <= last.age + 1
            /\ \/ a = last.age + 1
               \/ a = LastCap /\ LastCap <= last.age + 1
        BY <1>5, <1>8, <2>1
      <3>3. pending.age < LOST_AFTER_SLOTS \/ Asked
        BY <1>10, <2>1
      <3>4. lead < MaxLead
        BY <1>1
      <3> HIDE DEF a
      <3>5. a = p \/ p >= LOST_AFTER_SLOTS + (lead + 1)
        BY <1>4, <1>6, <1>7, <3>1, <3>2, <3>4, SMT DEF Least
      <3>6. ASSUME Asked
            PROVE  /\ Spans(a - LOST_AFTER_SLOTS, spent', Left')
                   /\ a <= LOST_AFTER_SLOTS + Budget
        <4>1. /\ last.age - LOST_AFTER_SLOTS \in Int /\ a - LOST_AFTER_SLOTS \in Int
              /\ a - LOST_AFTER_SLOTS <= (last.age - LOST_AFTER_SLOTS) + 1
          BY <1>4, <3>2, SMT
        <4>2. Spans(a - LOST_AFTER_SLOTS, spent', Left')
          BY <1>11, <3>1, <3>6, <4>1 DEF Within
        <4>3. /\ spent' = spent + 1 /\ spent + 1 \in Nat /\ spent + 1 <= config.budget
          BY <1>1, <1>9, <3>6, Numbers, SMTT(30)
        <4>4. Left' = Grain - 1 /\ Grain - 1 \in Nat /\ Grain - 1 < Grain
          <5>1. Left' = Grain - 1
            BY PhaseTurns
          <5> QED
            BY <5>1, Constants, SMT
        <4>5. Spans(a - LOST_AFTER_SLOTS, spent + 1, Grain - 1)
          BY <4>2, <4>3, <4>4
        <4>6. a - LOST_AFTER_SLOTS <= Budget
          BY <4>1, <4>3, <4>4, <4>5, WithinBudget
        <4>7. a <= LOST_AFTER_SLOTS + Budget
          BY <1>4, <3>2, <4>6, SMT
        <4> QED
          BY <4>2, <4>7
      <3>7. ASSUME ~Asked PROVE a <= LOST_AFTER_SLOTS + Budget
        <4>1. pending.age < LOST_AFTER_SLOTS
          BY <3>3, <3>7
        <4> QED
          BY <1>4, <3>1, <3>2, <4>1, SMT
      <3> QED
        BY <3>5, <3>6, <3>7
    <2> HIDE DEF a, p
    <2>2. pending # None => pending'.age = p
      BY <1>1 DEF p
    <2> QED
      BY <1>1, <1>2, <1>3, <2>1, <2>2 DEF Followed, DecisionIsChecked, Within, Believes, a
  <1>17. StampIsKnown'
    <2> DEFINE a == last'.age
    <2>1. ASSUME IsPosted(last)
          PROVE  /\ lead + 1 <= a + Slack
                 /\ flight = <<>> /\ book.ours /\ ~Overdue => book.age + (lead + 1) <= a + Slack
      <3>1. /\ last.age \in Int /\ a \in Int
            /\ a = last.age + 1 \/ a = LastCap
        BY <1>5, <1>8, <2>1
      <3>2. /\ lead <= last.age + Slack
            /\ flight = <<>> /\ book.ours /\ ~Overdue => book.age + lead <= last.age + Slack
        BY <2>1 DEF Followed, StampIsKnown
      <3>3. flight = <<>> /\ book.ours => book.age <= config.heartbeat + Budget
        BY BookIsYoung
      <3>4. lead < MaxLead
        BY <1>1
      <3> HIDE DEF a
      <3>5. lead + 1 <= a + Slack
        BY <1>4, <1>6, <3>1, <3>2, <3>4, SMT
      <3>6. ASSUME book.age + lead <= last.age + Slack, book.age <= config.heartbeat + Budget
            PROVE  book.age + (lead + 1) <= a + Slack
        BY <1>4, <1>6, <3>1, <3>4, <3>6, SMT
      <3> QED
        BY <3>2, <3>3, <3>5, <3>6
    <2> HIDE DEF a
    <2>2. IsPosted(last) => last'.age = a
      BY DEF a
    <2> QED
      BY <1>1, <1>2, <1>14, <2>1, <2>2 DEF StampIsKnown
  <1> QED
    BY <1>12, <1>13, <1>15, <1>16, <1>17 DEF Followed

\* A tick, at the turn of a slot or within it.
LEMMA TickFollowed ==
    ASSUME Typed, Timely, Quiet => Followed, Quiet', Tick
    PROVE  Followed'
  <1>1. Quiet /\ Followed
    BY TickAges DEF Quiet, Calm, Running, Outlasts
  <1> QED
    BY <1>1, MidSlotFollowed, SlotFollowed

-----------------------------------------------------------------------------
(* The book, always.                                                        *)

\* Every step keeps the book followed while it is quiet.
LEMMA StepFollowed ==
    ASSUME Typed, Typed', Timely, Quiet => Followed, [Next]_vars, Quiet'
    PROVE  Followed'
  <1>1. faults \in Nat /\ faults' = 0
    BY DEF Typed, PassTyped, Quiet, Calm
  <1>2. ~Fault
    BY <1>1, FaultTyped
  <1>3. CASE UNCHANGED vars
    BY <1>3, KeptFollowed DEF vars, vault, clocks, sender, reads, history
  <1>4. CASE start
    BY <1>4, StartFollowed
  <1>5. CASE StartFails \/ ReadFails \/ ReadStops
    BY <1>2, <1>5 DEF StartFails, ReadFails, ReadStops
  <1>6. CASE \/ on_withdrawal \/ \E q \in Quotes : on_price(q)
             \/ price_and_post \/ ModelWithdraws \/ Skips \/ housekeeping
    BY <1>6, PassesFollowed
  <1>7. CASE refresh
    BY <1>7, RefreshFollowed
  <1>8. CASE \E i \in DOMAIN flight : Deliver(i) \/ Drop(i)
    BY <1>8, NetworkFollowed
  <1>9. CASE \E l \in Limits : SetLimit(l)
    <2>1. UNCHANGED <<book, flight, config, pc, phase, lead, spent, last, pending, next_read,
                      repeated, faults>>
      BY <1>9 DEF SetLimit, clocks, Engine, sender, reads
    <2> QED
      BY <2>1, KeptFollowed
  <1>10. CASE Tick
    BY <1>10, TickFollowed
  <1>11. CASE ChainMoves
    BY <1>11, ChainFollowed
  <1> QED
    BY <1>3, <1>4, <1>5, <1>6, <1>7, <1>8, <1>9, <1>10, <1>11 DEF Next

\* The invariant of the expiry: the types, the reads on time, and the book followed while
\* nothing goes wrong.
LEMMA AlwaysFollowed == Spec => [](Typed /\ Timely /\ (Quiet => Followed))
  <1>1. Init => Typed /\ Timely /\ (Quiet => Followed)
    BY InitTyped, InitTimely DEF Init, Quiet, Calm, Running
  <1>2. Typed /\ Timely /\ (Quiet => Followed) /\ [Next]_vars
          => (Typed /\ Timely /\ (Quiet => Followed))'
    BY StepTyped, StepTimely, StepFollowed
  <1> QED
    BY <1>1, <1>2, PTL DEF Spec

\* What is up is replaced before the limit: after a heartbeat, the model's answer and the
\* slots in which it lands.
LEMMA FollowedIsFresh ==
    ASSUME Typed, Timely, Quiet => Followed
    PROVE  NeverExpires
  <1> SUFFICES ASSUME OursIsUp, Outlasts, NEW l \in Limits, fits(config, l)
               PROVE  book.age <= l
    BY DEF NeverExpires
  <1>1. Quiet /\ Followed /\ book.ours
    BY DEF OursIsUp, Quiet, Calm
  <1>2. config.heartbeat + Budget + LANDING_SLOTS <= l
    BY FitsFacts DEF Budget
  <1>3. /\ config.heartbeat \in Nat /\ Budget \in Nat /\ LANDING_SLOTS \in Nat /\ l \in Nat
        /\ book.age \in Nat
    BY Numbers, Constants
  <1>4. CASE flight = <<>>
    <2>1. book.age <= config.heartbeat + Budget
      BY <1>1, <1>4, BookIsYoung
    <2> QED
      BY <1>2, <1>3, <2>1, SMT
  <1>5. CASE flight # <<>>
    <2>1. book.age <= config.heartbeat + Budget + flight[1].age
      BY <1>1, <1>5 DEF Followed, BookIsReplaced
    <2>2. flight[1].age \in Nat /\ flight[1].age <= LANDING_SLOTS
      BY <1>5, FlightNumbers DEF Typed, PassTyped
    <2> QED
      BY <1>2, <1>3, <2>1, <2>2, SMT
  <1> QED
    BY <1>4, <1>5

\* No quote of a running engine expires on the book, as long as nothing it sends is lost,
\* refused or taken for a repeat and its heartbeat outlasts the search for a lost
\* transaction: for every lead of the engine's clock over a chain no faster than nominal,
\* every budget of the model and all limits the settings fit in (Rule::checked, FR-011a).
THEOREM ExpiresNever == Spec => []NeverExpires
  <1>1. Typed /\ Timely /\ (Quiet => Followed) => NeverExpires
    BY FollowedIsFresh
  <1> QED
    BY <1>1, AlwaysFollowed, PTL
=============================================================================
