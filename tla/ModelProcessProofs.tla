------------------------ MODULE ModelProcessProofs ------------------------
(***************************************************************************)
(* The model behind its pipe, for every budget, hang limit, pause and       *)
(* capacity: an answer is never taken for another, and the events alone     *)
(* tell whether the model is skipping.                                      *)
(***************************************************************************)
EXTENDS ModelProcess, SequenceTheorems, TLAPS

\* A line in the protocol bears the id of the question it answers, and so does a stray
\* one: both age together.
Truthful(line) == Broken(line) \/ line.id = line.about

\* Between its beginning and its outcome a step has none.  The rest is what an outcome
\* leaves: a post about the question just asked, and a run of skips as it was told.
IInv ==
    /\ TypeOK
    /\ \A i \in DOMAIN lines : Truthful(lines[i])
    /\ call # "idle" => step.kind = "None"
    /\ step.kind = "Post" => step.about = 0 /\ spent <= Budget
    /\ told = streak
    /\ step.kind # "None" => (streak <=> step.kind = "Skip")

\* The pauses and the step, apart from the pipe.
PauseTyped == until \in 0..MaxPause /\ pause \in MinPause..MaxPause
OpenTyped == open \in 0..HangLimit \union {None}
PipeTyped ==
    /\ alive \in BOOLEAN
    /\ stdin \in Seq(Int) /\ lines \in Seq(Lines)
    /\ \A i \in DOMAIN lines : Truthful(lines[i])
StepTyped ==
    /\ call \in {"idle", "late", "send", "ask"}
    /\ spent \in 0..(Budget + 1)
    /\ step \in [kind : {"None", "Post", "Withdraw", "Skip"}, about : Int \union {None}]
    /\ streak \in BOOLEAN /\ told \in BOOLEAN
    /\ call # "idle" => step.kind = "None"
    /\ step.kind = "Post" => step.about = 0 /\ spent <= Budget
    /\ told = streak
    /\ step.kind # "None" => (streak <=> step.kind = "Skip")
FlagsTyped == running \in BOOLEAN /\ strayed \in BOOLEAN /\ faults \in 0..MaxFaults

LEMMA Parts == IInv <=> PauseTyped /\ OpenTyped /\ PipeTyped /\ StepTyped /\ FlagsTyped
  BY DEF IInv, TypeOK, PauseTyped, OpenTyped, PipeTyped, StepTyped, FlagsTyped

\* A fault stays within its bound.
LEMMA FaultTyped == FlagsTyped /\ Fault => faults' \in 0..MaxFaults
  BY ModelAssumption, SMT DEF FlagsTyped, Fault

\* An outcome ends the step, and the event for it is the one that is due.
LEMMA OutcomeKeeps ==
    ASSUME StepTyped,
           NEW kind \in {"Post", "Withdraw", "Skip"}, NEW about \in Int \union {None},
           kind = "Post" => about = 0 /\ spent <= Budget,
           Outcome(kind, about)
    PROVE  StepTyped'
  <1>1. /\ step' = [kind |-> kind, about |-> about]
        /\ step'.kind = kind /\ step'.about = about
        /\ call' = "idle" /\ spent' = spent
    BY DEF Outcome
  <1>2. step' \in [kind : {"None", "Post", "Withdraw", "Skip"}, about : Int \union {None}]
    BY <1>1
  <1>3. /\ streak' = (kind = "Skip") /\ streak' \in BOOLEAN
        /\ told' = streak'
    <2>1. streak' = (kind = "Skip")
      BY DEF Outcome, record
    <2>2. told' = CASE kind = "Skip" /\ ~streak -> TRUE
                    [] kind # "Skip" /\ streak -> FALSE
                    [] OTHER -> told
      BY DEF Outcome, record
    <2>3. streak \in BOOLEAN /\ told = streak
      BY DEF StepTyped
    <2>4. CASE kind = "Skip" /\ ~streak
      <3>1. told' = TRUE
        BY <2>2, <2>4
      <3> QED
        BY <2>1, <2>4, <3>1
    <2>5. CASE kind # "Skip" /\ streak
      <3>1. told' = FALSE
        BY <2>2, <2>5
      <3> QED
        BY <2>1, <2>5, <3>1
    <2>6. CASE ~(kind = "Skip" /\ ~streak) /\ ~(kind # "Skip" /\ streak)
      <3>1. told' = told
        BY <2>2, <2>6
      <3> QED
        BY <2>1, <2>3, <2>6, <3>1
    <2> QED
      BY <2>4, <2>5, <2>6
  <1>4. spent' \in 0..(Budget + 1)
    BY <1>1 DEF StepTyped
  <1>5. step'.kind = "Post" => step'.about = 0 /\ spent' <= Budget
    BY <1>1
  <1>6. step'.kind # "None" => (streak' <=> step'.kind = "Skip")
    BY <1>1, <1>3
  <1> QED
    BY <1>1, <1>2, <1>3, <1>4, <1>5, <1>6 DEF StepTyped

\* No answer ends the step as well.
LEMMA SkipKeeps == StepTyped /\ Skip => StepTyped'
  <1> SUFFICES ASSUME StepTyped, Skip PROVE StepTyped'
    OBVIOUS
  <1>1. Outcome("Skip", None)
    BY DEF Skip
  <1> QED
    BY <1>1, OutcomeKeeps

\* A step begins.
LEMMA BeginKeeps ==
    ASSUME StepTyped, NEW next \in {"late", "send", "ask"}, Begin(next)
    PROVE  StepTyped'
  <1>1. /\ step' = [kind |-> "None", about |-> None] /\ step'.kind = "None"
        /\ call' = next /\ spent' = 0
        /\ streak' = streak /\ told' = told
    BY DEF Begin
  <1>2. 0 \in 0..(Budget + 1)
    BY ModelAssumption, SMT
  <1> QED
    BY <1>1, <1>2 DEF StepTyped

\* Taken down, the process leaves an empty pipe and a pause within its bounds.
LEMMA DownKeeps ==
    ASSUME PauseTyped, down
    PROVE  PauseTyped' /\ OpenTyped' /\ PipeTyped' /\ running' \in BOOLEAN
  <1>1. PauseTyped'
    BY ModelAssumption, SMT DEF PauseTyped, down, Least
  <1>2. OpenTyped' /\ running' \in BOOLEAN
    BY DEF OpenTyped, down
  <1>3. PipeTyped'
    <2>1. /\ alive' = FALSE /\ stdin' = <<>> /\ lines' = <<>>
      BY DEF down
    <2>2. <<>> \in Seq(Int) /\ <<>> \in Seq(Lines) /\ DOMAIN <<>> = {}
      BY EmptySeq, SMT
    <2> QED
      BY <2>1, <2>2 DEF PipeTyped
  <1> QED
    BY <1>1, <1>2, <1>3

\* Ids age alike, so a truthful line stays truthful.
LEMMA OlderTyped == \A n \in Int : Older(n) \in Int
  BY ModelAssumption, SMT DEF Older, Least

LEMMA OlderLineTruthful ==
    ASSUME NEW l \in Lines, Truthful(l)
    PROVE  OlderLine(l) \in Lines /\ Truthful(OlderLine(l))
  <1>1. CASE Broken(l)
    BY <1>1 DEF OlderLine
  <1>2. CASE ~Broken(l)
    <2>1. l \in [id : Int, about : Int, answer : Answers] /\ l.id = l.about
      <3>1. l \notin [answer : {"broken"}]
        BY <1>2 DEF Broken
      <3> QED
        BY <1>2, <3>1 DEF Lines, Truthful
    <2>2. OlderLine(l) = [l EXCEPT !.id = Older(l.id), !.about = Older(l.about)]
      BY <1>2 DEF OlderLine
    <2>3. Older(l.id) \in Int /\ Older(l.about) = Older(l.id)
      BY <2>1, OlderTyped
    <2> HIDE DEF Older
    <2>4. /\ OlderLine(l) \in [id : Int, about : Int, answer : Answers]
          /\ OlderLine(l).id = OlderLine(l).about
      BY <2>1, <2>2, <2>3
    <2> QED
      BY <2>4 DEF Lines, Truthful
  <1> QED
    BY <1>1, <1>2

\* A line more, a line less, and the whole pipe aged.
LEMMA AppendTruthful ==
    ASSUME PipeTyped, NEW l \in Lines, Truthful(l), lines' = Append(lines, l)
    PROVE  lines' \in Seq(Lines) /\ \A i \in DOMAIN lines' : Truthful(lines'[i])
  <1>1. lines \in Seq(Lines) /\ \A i \in 1..Len(lines) : Truthful(lines[i])
    BY SMT DEF PipeTyped
  <1>2. /\ lines' \in Seq(Lines)
        /\ Len(lines') = Len(lines) + 1
        /\ \A i \in 1..Len(lines) : lines'[i] = lines[i]
        /\ lines'[Len(lines) + 1] = l
    BY <1>1, AppendProperties
  <1>3. DOMAIN lines' = 1..(Len(lines) + 1)
    BY <1>2, SMT
  <1>4. ASSUME NEW i \in DOMAIN lines' PROVE Truthful(lines'[i])
    <2>1. i \in 1..Len(lines) \/ i = Len(lines) + 1
      BY <1>1, <1>3, <1>4, SMT
    <2> QED
      BY <1>1, <1>2, <2>1
  <1> QED
    BY <1>2, <1>4

LEMMA TailTruthful ==
    ASSUME PipeTyped, lines # <<>>, lines' = Tail(lines)
    PROVE  /\ lines' \in Seq(Lines) /\ \A i \in DOMAIN lines' : Truthful(lines'[i])
           /\ Head(lines) \in Lines /\ Truthful(Head(lines))
  <1>1. lines \in Seq(Lines) /\ \A i \in 1..Len(lines) : Truthful(lines[i])
    BY SMT DEF PipeTyped
  <1>2. /\ Head(lines) \in Lines /\ Tail(lines) \in Seq(Lines)
        /\ Head(lines) = lines[1] /\ Len(lines) \in Nat \ {0}
        /\ Len(Tail(lines)) = Len(lines) - 1
        /\ \A i \in 1..Len(Tail(lines)) : Tail(lines)[i] = lines[i + 1]
    BY <1>1, SMT
  <1>3. Truthful(Head(lines))
    <2>1. 1 \in 1..Len(lines)
      BY <1>2, SMT
    <2> QED
      BY <1>1, <1>2, <2>1
  <1>4. ASSUME NEW i \in DOMAIN Tail(lines) PROVE Truthful(Tail(lines)[i])
    <2>1. i \in 1..Len(Tail(lines)) /\ i + 1 \in 1..Len(lines)
      BY <1>2, <1>4, SMT
    <2> QED
      BY <1>1, <1>2, <2>1
  <1> QED
    BY <1>2, <1>3, <1>4

LEMMA AgedTruthful ==
    ASSUME PipeTyped, lines' = [i \in DOMAIN lines |-> OlderLine(lines[i])]
    PROVE  lines' \in Seq(Lines) /\ \A i \in DOMAIN lines' : Truthful(lines'[i])
  <1>1. lines \in Seq(Lines) /\ \A i \in DOMAIN lines : lines[i] \in Lines /\ Truthful(lines[i])
    BY SMT DEF PipeTyped
  <1>2. Len(lines) \in Nat /\ DOMAIN lines = 1..Len(lines)
    BY <1>1, SMT
  <1>3. \A i \in DOMAIN lines : OlderLine(lines[i]) \in Lines /\ Truthful(OlderLine(lines[i]))
    BY <1>1, OlderLineTruthful
  <1>4. lines' \in [1..Len(lines) -> Lines]
    BY <1>2, <1>3
  <1>5. lines' \in Seq(Lines)
    BY <1>2, <1>4, SeqDef
  <1> QED
    BY <1>3, <1>5

\* The questions aged, and a new one.
LEMMA AgedQuestions ==
    ASSUME PipeTyped
    PROVE  Append([i \in DOMAIN stdin |-> Older(stdin[i])], 0) \in Seq(Int)
  <1> DEFINE s == [i \in DOMAIN stdin |-> Older(stdin[i])]
  <1>1. stdin \in Seq(Int) /\ Len(stdin) \in Nat /\ DOMAIN stdin = 1..Len(stdin)
    BY SMT DEF PipeTyped
  <1>2. \A i \in DOMAIN stdin : Older(stdin[i]) \in Int
    <2>1. \A i \in DOMAIN stdin : stdin[i] \in Int
      BY <1>1, SMT
    <2> QED
      BY <2>1, OlderTyped
  <1>3. s \in [1..Len(stdin) -> Int]
    BY <1>1, <1>2
  <1>4. s \in Seq(Int)
    BY <1>1, <1>3, SeqDef
  <1> QED
    BY <1>4, AppendProperties

-----------------------------------------------------------------------------
(* The steps.                                                               *)

\* What the process does reaches the pipe alone.
LEMMA ProcessKeeps ==
    ASSUME IInv, (\E a \in Answers : Answer(a)) \/ Stray \/ Swallow \/ Dies
    PROVE  IInv'
  <1>1. PauseTyped /\ OpenTyped /\ PipeTyped /\ StepTyped /\ FlagsTyped
    BY Parts
  <1>2. UNCHANGED <<running, open, restart, call, tick>>
    BY DEF Answer, Stray, Swallow, Dies
  <1>3. PauseTyped' /\ OpenTyped' /\ StepTyped' /\ running' \in BOOLEAN
    BY <1>1, <1>2 DEF PauseTyped, OpenTyped, StepTyped, FlagsTyped, restart, tick
  <1>4. stdin # <<>> => Head(stdin) \in Int /\ Tail(stdin) \in Seq(Int)
    BY <1>1, SMT DEF PipeTyped
  <1>5. PipeTyped' /\ FlagsTyped'
    <2>1. ASSUME NEW a \in Answers, Answer(a) PROVE PipeTyped' /\ FlagsTyped'
      <3> DEFINE l == [id |-> Head(stdin), about |-> Head(stdin), answer |-> a]
      <3>1. /\ lines' = Append(lines, l) /\ stdin' = Tail(stdin) /\ stdin # <<>>
            /\ UNCHANGED <<alive, strayed, faults>>
        BY <2>1 DEF Answer
      <3>2. l \in Lines /\ Truthful(l)
        BY <1>4, <3>1 DEF Lines, Truthful
      <3> HIDE DEF l
      <3>3. lines' \in Seq(Lines) /\ \A i \in DOMAIN lines' : Truthful(lines'[i])
        BY <1>1, <3>1, <3>2, AppendTruthful
      <3> QED
        BY <1>1, <1>3, <1>4, <3>1, <3>3 DEF PipeTyped, FlagsTyped
    <2>2. ASSUME Stray PROVE PipeTyped' /\ FlagsTyped'
      <3>1. PICK l \in {[answer |-> "broken"], [id |-> -1, about |-> -1, answer |-> "quote"]} :
                    lines' = Append(lines, l)
        BY <2>2 DEF Stray
      <3>2. l \in Lines /\ Truthful(l)
        BY <3>1, SMT DEF Lines, Answers, Truthful, Broken
      <3>3. lines' \in Seq(Lines) /\ \A i \in DOMAIN lines' : Truthful(lines'[i])
        BY <1>1, <3>1, <3>2, AppendTruthful
      <3>4. strayed' = TRUE /\ UNCHANGED <<alive, stdin>> /\ faults' \in 0..MaxFaults
        BY <1>1, <2>2, FaultTyped DEF Stray
      <3> QED
        BY <1>1, <1>3, <3>3, <3>4 DEF PipeTyped, FlagsTyped
    <2>3. ASSUME Swallow PROVE PipeTyped' /\ FlagsTyped'
      <3>1. /\ stdin' = Tail(stdin) /\ stdin # <<>> /\ UNCHANGED <<alive, lines, strayed>>
            /\ faults' \in 0..MaxFaults
        BY <1>1, <2>3, FaultTyped DEF Swallow
      <3> QED
        BY <1>1, <1>3, <1>4, <3>1 DEF PipeTyped, FlagsTyped
    <2>4. ASSUME Dies PROVE PipeTyped' /\ FlagsTyped'
      <3>1. /\ alive' = FALSE /\ stdin' = <<>> /\ UNCHANGED <<lines, strayed>>
            /\ faults' \in 0..MaxFaults
        BY <1>1, <2>4, FaultTyped DEF Dies
      <3>2. <<>> \in Seq(Int)
        BY EmptySeq
      <3> QED
        BY <1>1, <1>3, <3>1, <3>2 DEF PipeTyped, FlagsTyped
    <2> QED
      BY <2>1, <2>2, <2>3, <2>4
  <1>6. (PauseTyped /\ OpenTyped /\ PipeTyped /\ StepTyped /\ FlagsTyped)' => IInv'
    BY DEF IInv, TypeOK, PauseTyped, OpenTyped, PipeTyped, StepTyped, FlagsTyped
  <1> QED
    BY <1>3, <1>5, <1>6

\* A process that is not there, or is taken down, skips the step.
LEMMA DownSkips ==
    ASSUME IInv, StillDown \/ Hung \/ Closed \/ CannotSpawn
                 \/ (call = "send" /\ ~alive /\ down /\ Skip /\ UNCHANGED <<strayed, faults>>)
    PROVE  IInv'
  <1>1. PauseTyped /\ OpenTyped /\ PipeTyped /\ StepTyped /\ FlagsTyped
    BY Parts
  <1>2. Skip
    BY DEF StillDown, Hung, Closed, CannotSpawn
  <1>3. StepTyped'
    BY <1>1, <1>2, SkipKeeps
  <1>4. strayed' = strayed /\ (faults' = faults \/ Fault)
    BY DEF StillDown, Hung, Closed, CannotSpawn
  <1>5. strayed' \in BOOLEAN /\ faults' \in 0..MaxFaults
    BY <1>1, <1>4, FaultTyped DEF FlagsTyped
  <1>6. down \/ UNCHANGED <<pipe, running, open, restart>>
    BY DEF StillDown, Hung, Closed, CannotSpawn
  <1>7. PauseTyped' /\ OpenTyped' /\ PipeTyped' /\ running' \in BOOLEAN
    <2>1. CASE down
      BY <1>1, <2>1, DownKeeps
    <2>2. CASE UNCHANGED <<pipe, running, open, restart>>
      BY <1>1, <2>2 DEF pipe, restart, PauseTyped, OpenTyped, PipeTyped, FlagsTyped
    <2> QED
      BY <1>6, <2>1, <2>2
  <1>8. (PauseTyped /\ OpenTyped /\ PipeTyped /\ StepTyped /\ FlagsTyped)' => IInv'
    BY DEF IInv, TypeOK, PauseTyped, OpenTyped, PipeTyped, StepTyped, FlagsTyped
  <1> QED
    BY <1>3, <1>5, <1>7, <1>8 DEF FlagsTyped

\* A step begins with no outcome.
LEMMA BeginsKeep ==
    ASSUME IInv, spawn \/ price
    PROVE  IInv'
  <1>1. PauseTyped /\ OpenTyped /\ PipeTyped /\ StepTyped /\ FlagsTyped
    BY Parts
  <1>2. Begin("send") \/ Begin("late")
    BY DEF spawn, price
  <1>3. StepTyped'
    BY <1>1, <1>2, BeginKeeps
  <1>4. /\ alive' \in BOOLEAN /\ running' \in BOOLEAN /\ strayed' \in BOOLEAN
        /\ UNCHANGED <<stdin, lines, open, restart, faults>>
    BY <1>1 DEF spawn, price, pipe, PipeTyped, FlagsTyped
  <1>5. PauseTyped' /\ OpenTyped' /\ PipeTyped' /\ FlagsTyped'
    BY <1>1, <1>4 DEF restart, PauseTyped, OpenTyped, PipeTyped, FlagsTyped
  <1>6. (PauseTyped /\ OpenTyped /\ PipeTyped /\ StepTyped /\ FlagsTyped)' => IInv'
    BY DEF IInv, TypeOK, PauseTyped, OpenTyped, PipeTyped, StepTyped, FlagsTyped
  <1> QED
    BY <1>3, <1>5, <1>6

\* Asking makes every older question and answer one older.
LEMMA SendKeeps == ASSUME IInv, send PROVE IInv'
  <1>1. PauseTyped /\ OpenTyped /\ PipeTyped /\ StepTyped /\ FlagsTyped
    BY Parts
  <1>2. CASE ~alive /\ down /\ Skip
    BY <1>2, DownSkips DEF send
  <1>3. CASE ~(~alive /\ down /\ Skip)
    <2>1. /\ call = "send" /\ call' = "ask"
          /\ stdin' = IF alive
                      THEN Append([i \in DOMAIN stdin |-> Older(stdin[i])], 0)
                      ELSE stdin
          /\ lines' = [i \in DOMAIN lines |-> OlderLine(lines[i])]
          /\ open' = 0
          /\ UNCHANGED <<alive, running, restart, tick, strayed, faults>>
      BY <1>3 DEF send
    <2>2. stdin' \in Seq(Int)
      BY <1>1, <2>1, AgedQuestions DEF PipeTyped
    <2>3. lines' \in Seq(Lines) /\ \A i \in DOMAIN lines' : Truthful(lines'[i])
      BY <1>1, <2>1, AgedTruthful
    <2>4. OpenTyped'
      BY <2>1, ModelAssumption, SMT DEF OpenTyped
    <2>5. StepTyped'
      BY <1>1, <2>1 DEF StepTyped, tick
    <2>6. PauseTyped' /\ PipeTyped' /\ FlagsTyped'
      BY <1>1, <2>1, <2>2, <2>3 DEF restart, PauseTyped, PipeTyped, FlagsTyped
    <2>7. (PauseTyped /\ OpenTyped /\ PipeTyped /\ StepTyped /\ FlagsTyped)' => IInv'
      BY DEF IInv, TypeOK, PauseTyped, OpenTyped, PipeTyped, StepTyped, FlagsTyped
    <2> QED
      BY <2>4, <2>5, <2>6, <2>7
  <1> QED
    BY <1>2, <1>3

\* Only a truthful line about the question just asked, in the budget, is posted.
LEMMA AwaitKeeps == ASSUME IInv, await_reply PROVE IInv'
  <1> DEFINE l == Head(lines)
  <1>1. PauseTyped /\ OpenTyped /\ PipeTyped /\ StepTyped /\ FlagsTyped
    BY Parts
  <1>2. /\ lines # <<>> /\ lines' = Tail(lines)
        /\ call \in {"late", "ask"}
        /\ open' = IF Late(l) THEN open ELSE None
        /\ pause' = IF Matches(l) THEN MinPause ELSE pause
        /\ UNCHANGED <<alive, stdin, running, until, strayed, faults>>
    BY DEF await_reply, Waiting
  <1>3. /\ lines' \in Seq(Lines) /\ \A i \in DOMAIN lines' : Truthful(lines'[i])
        /\ l \in Lines /\ Truthful(l)
    BY <1>1, <1>2, TailTruthful
  <1>4. PipeTyped' /\ FlagsTyped' /\ OpenTyped'
    BY <1>1, <1>2, <1>3 DEF PipeTyped, FlagsTyped, OpenTyped
  <1>5. PauseTyped'
    <2>1. MinPause \in MinPause..MaxPause
      BY ModelAssumption, SMT
    <2> QED
      BY <1>1, <1>2, <2>1 DEF PauseTyped
  <1>6. StepTyped'
    <2>1. CASE UNCHANGED <<call, tick>>
      BY <1>1, <2>1 DEF StepTyped, tick
    <2>2. CASE call' = "send" /\ UNCHANGED tick
      BY <1>1, <1>2, <2>2 DEF StepTyped, tick
    <2>3. CASE Skip
      BY <1>1, <2>3, SkipKeeps
    <2>4. CASE Matches(l) /\ run(l)
      <3>1. l.id = 0 /\ l.about = 0 /\ l.about \in Int
        BY <1>3, <2>4 DEF Matches, Truthful
      <3>2. CASE l.answer \in {"withdraw", "empty"}
        <4>1. Outcome("Withdraw", l.about)
          BY <2>4, <3>2 DEF run
        <4> QED
          BY <1>1, <3>1, <4>1, OutcomeKeeps
      <3>3. CASE l.answer = "quote" /\ spent <= Budget
        <4>1. Outcome("Post", l.about)
          BY <2>4, <3>3 DEF run
        <4> QED
          BY <1>1, <3>1, <3>3, <4>1, OutcomeKeeps
      <3>4. CASE l.answer \notin {"withdraw", "empty"} /\ ~(l.answer = "quote" /\ spent <= Budget)
        <4>1. Skip
          BY <2>4, <3>4 DEF run
        <4> QED
          BY <1>1, <4>1, SkipKeeps
      <3> QED
        BY <3>2, <3>3, <3>4
    <2> QED
      BY <2>1, <2>2, <2>3, <2>4 DEF await_reply
  <1>7. (PauseTyped /\ OpenTyped /\ PipeTyped /\ StepTyped /\ FlagsTyped)' => IInv'
    BY DEF IInv, TypeOK, PauseTyped, OpenTyped, PipeTyped, StepTyped, FlagsTyped
  <1> QED
    BY <1>4, <1>5, <1>6, <1>7

\* An answer that does not come in the budget is a skip; time runs in the steps alone.
LEMMA TimeKeeps == ASSUME IInv, Timeout \/ Elapse PROVE IInv'
  <1>1. PauseTyped /\ OpenTyped /\ PipeTyped /\ StepTyped /\ FlagsTyped
    BY Parts
  <1>2. (PauseTyped /\ OpenTyped /\ PipeTyped /\ StepTyped /\ FlagsTyped)' => IInv'
    BY DEF IInv, TypeOK, PauseTyped, OpenTyped, PipeTyped, StepTyped, FlagsTyped
  <1>3. CASE Timeout
    <2>1. Skip /\ UNCHANGED <<pipe, running, open, restart, strayed, faults>>
      BY <1>3 DEF Timeout
    <2>2. StepTyped'
      BY <1>1, <2>1, SkipKeeps
    <2>3. PauseTyped' /\ OpenTyped' /\ PipeTyped' /\ FlagsTyped'
      BY <1>1, <2>1 DEF pipe, restart, PauseTyped, OpenTyped, PipeTyped, FlagsTyped
    <2> QED
      BY <1>2, <2>2, <2>3
  <1>4. CASE Elapse
    <2>1. /\ Waiting => spent <= Budget
          /\ spent' = IF Waiting THEN spent + 1 ELSE spent
          /\ open' = IF open = None THEN None ELSE Least(open + 1, HangLimit)
          /\ until' = Less(until)
          /\ faults' = faults \/ Fault
          /\ UNCHANGED <<pipe, running, pause, call, step, streak, told, strayed>>
      BY <1>4 DEF Elapse
    <2>2. PipeTyped' /\ FlagsTyped'
      BY <1>1, <2>1, FaultTyped DEF pipe, PipeTyped, FlagsTyped
    <2>3. PauseTyped'
      BY <1>1, <2>1, ModelAssumption, SMT DEF PauseTyped, Less
    <2>4. OpenTyped'
      <3>1. CASE open = None
        BY <2>1, <3>1 DEF OpenTyped
      <3>2. CASE open # None
        <4>1. open \in 0..HangLimit
          BY <1>1, <3>2 DEF OpenTyped
        <4>2. Least(open + 1, HangLimit) \in 0..HangLimit
          BY <4>1, ModelAssumption, SMT DEF Least
        <4> QED
          BY <2>1, <3>2, <4>2 DEF OpenTyped
      <3> QED
        BY <3>1, <3>2
    <2>5. StepTyped'
      <3>1. spent' \in 0..(Budget + 1)
        BY <1>1, <2>1, ModelAssumption, SMT DEF StepTyped
      <3>2. step.kind = "Post" => spent' = spent
        BY <1>1, <2>1 DEF StepTyped, Waiting
      <3> QED
        BY <1>1, <2>1, <3>1, <3>2 DEF StepTyped
    <2> QED
      BY <1>2, <2>2, <2>3, <2>4, <2>5
  <1> QED
    BY <1>3, <1>4

LEMMA InitKeeps == Init => IInv
  <1> SUFFICES ASSUME Init PROVE IInv
    OBVIOUS
  <1>1. PauseTyped /\ OpenTyped /\ FlagsTyped
    <2>1. 0 \in 0..MaxPause /\ MinPause \in MinPause..MaxPause
      BY ModelAssumption, SMT
    <2>2. 0 \in 0..MaxFaults
      BY ModelAssumption, SMT
    <2>3. PauseTyped
      BY <2>1 DEF Init, PauseTyped
    <2>4. OpenTyped
      BY DEF Init, OpenTyped
    <2>5. FlagsTyped
      BY <2>2 DEF Init, FlagsTyped
    <2> QED
      BY <2>3, <2>4, <2>5
  <1>2. PipeTyped
    <2>1. <<>> \in Seq(Int) /\ <<>> \in Seq(Lines) /\ DOMAIN <<>> = {}
      BY EmptySeq, SMT
    <2> QED
      BY <2>1 DEF Init, PipeTyped
  <1>3. StepTyped
    <2>1. 0 \in 0..(Budget + 1)
      BY ModelAssumption, SMT
    <2> QED
      BY <2>1 DEF Init, StepTyped
  <1> QED
    BY <1>1, <1>2, <1>3, Parts

\* Every step of the process, the model and the loop keeps the invariant.
THEOREM ModelInvariant == Spec => []IInv
  <1>1. IInv /\ [Next]_vars => IInv'
    <2> SUFFICES ASSUME IInv, [Next]_vars PROVE IInv'
      OBVIOUS
    <2>1. CASE Next
      <3>1. CASE spawn \/ price
        BY <3>1, BeginsKeep
      <3>2. CASE StillDown \/ Hung \/ Closed \/ CannotSpawn
        BY <3>2, DownSkips
      <3>3. CASE send
        BY <3>3, SendKeeps
      <3>4. CASE await_reply
        BY <3>4, AwaitKeeps
      <3>5. CASE Timeout \/ Elapse
        BY <3>5, TimeKeeps
      <3>6. CASE (\E a \in Answers : Answer(a)) \/ Stray \/ Swallow \/ Dies
        BY <3>6, ProcessKeeps
      <3> QED
        BY <2>1, <3>1, <3>2, <3>3, <3>4, <3>5, <3>6 DEF Next, Call
    <2>2. CASE UNCHANGED vars
      BY <2>2 DEF IInv, TypeOK, vars, pipe, restart, tick
    <2> QED
      BY <2>1, <2>2
  <1> QED
    BY InitKeeps, <1>1, PTL DEF Spec

\* The engine's view of the model is always of the types the code declares.
THEOREM ModelTyped == Spec => []TypeOK
  <1>1. IInv => TypeOK
    BY DEF IInv
  <1> QED
    BY ModelInvariant, <1>1, PTL

\* A price that is posted answers the question of this very step, in the budget: a late
\* answer, or one of a process that died, is never taken for another (FR-015b).
THEOREM PostsCurrent == Spec => []PostsAreCurrent
  <1>1. IInv => PostsAreCurrent
    BY DEF IInv, PostsAreCurrent
  <1> QED
    BY ModelInvariant, <1>1, PTL

\* The events recorded at the two ends of a run of skips tell at every outcome whether the
\* model is skipping.
THEOREM EventsTell == Spec => []EventsTellSkips
  <1>1. IInv => EventsTellSkips
    BY DEF IInv, EventsTellSkips
  <1> QED
    BY ModelInvariant, <1>1, PTL

-----------------------------------------------------------------------------
(* One question in the pipe.                                                *)

NoLine == Len(stdin) = 0 /\ Len(lines) = 0
Asked == Len(stdin) = 1 /\ stdin[1] = 0 /\ Len(lines) = 0
Replied == Len(stdin) = 0 /\ Len(lines) = 1 /\ ~Broken(lines[1]) /\ lines[1].id = 0

\* Of a process that keeps the protocol the pipe holds the open question, its answer or
\* nothing, and without an open question nothing; a new process finds it empty.
Strict ==
    /\ ~running => NoLine /\ ~alive /\ open = None /\ call = "idle"
    /\ running /\ ~strayed =>
          /\ open = None => NoLine
          /\ call = "send" => open = None
          /\ NoLine \/ Asked \/ Replied

\* A process taken down leaves nothing behind.
LEMMA DownStrict ==
    ASSUME down, call' = "idle"
    PROVE  Strict'
  <1>1. /\ running' = FALSE /\ alive' = FALSE /\ stdin' = <<>> /\ lines' = <<>>
        /\ open' = None
    BY DEF down
  <1>2. NoLine'
    BY <1>1, SMT DEF NoLine
  <1> QED
    BY <1>1, <1>2 DEF Strict

\* What leaves the pipe alone, and does not send.
LEMMA PipeStands ==
    ASSUME Strict, UNCHANGED <<pipe, running, strayed>>, running,
           open' = None <=> open = None,
           call' = "send" => open' = None
    PROVE  Strict'
  BY DEF Strict, NoLine, Asked, Replied, pipe

\* An answer takes the place of its question.
LEMMA AnswerStrict ==
    ASSUME IInv, Strict, NEW a \in Answers, Answer(a)
    PROVE  Strict'
  <1> DEFINE l == [id |-> Head(stdin), about |-> Head(stdin), answer |-> a]
  <1>1. /\ alive /\ stdin # <<>> /\ stdin' = Tail(stdin) /\ lines' = Append(lines, l)
        /\ UNCHANGED <<alive, running, open, call, strayed>>
    BY DEF Answer
  <1>2. stdin \in Seq(Int) /\ lines \in Seq(Lines)
    BY DEF IInv, TypeOK
  <1>3. running
    BY <1>1 DEF Strict
  <1>4. Len(stdin) # 0
    BY <1>1, <1>2, EmptySeq
  <1>5. Head(stdin) \in Int /\ l \in Lines /\ ~Broken(l) /\ l.id = Head(stdin)
    <2>1. Head(stdin) \in Int
      BY <1>1, <1>2, SMT
    <2> QED
      BY <2>1 DEF Lines, Answers, Broken
  <1> HIDE DEF l
  <1>6. ASSUME ~strayed PROVE Replied'
    <2>1. Asked
      BY <1>3, <1>4, <1>6 DEF Strict, NoLine, Replied
    <2>2. Len(stdin') = 0 /\ Head(stdin) = 0
      BY <1>1, <1>2, <2>1, SMT DEF Asked
    <2>3. Len(lines') = 1 /\ lines'[1] = l
      <3>1. /\ Len(Append(lines, l)) = Len(lines) + 1
            /\ Append(lines, l)[Len(lines) + 1] = l
        BY <1>2, <1>5, AppendProperties
      <3> QED
        BY <1>1, <2>1, <3>1, SMT DEF Asked
    <2> QED
      BY <1>5, <2>2, <2>3 DEF Replied
  <1>7. open = None => strayed
    BY <1>3, <1>4 DEF Strict, NoLine
  <1> QED
    BY <1>1, <1>3, <1>6, <1>7 DEF Strict

\* A question put into an empty pipe is alone in it.
LEMMA SendStrict ==
    ASSUME IInv, Strict, send
    PROVE  Strict'
  <1>1. call = "send" /\ strayed' = strayed
    BY DEF send
  <1>2. running
    BY <1>1 DEF Strict
  <1>3. CASE down /\ Skip
    BY <1>3, DownStrict DEF Skip, Outcome
  <1>4. CASE ~(down /\ Skip)
    <2>1. /\ stdin' = IF alive THEN Append([i \in DOMAIN stdin |-> Older(stdin[i])], 0)
                      ELSE stdin
          /\ lines' = [i \in DOMAIN lines |-> OlderLine(lines[i])]
          /\ open' = 0 /\ call' = "ask" /\ running' = running
      BY <1>4 DEF send
    <2>2. 0 # None
      BY ModelAssumption
    <2>3. ASSUME ~strayed PROVE NoLine' \/ Asked'
      <3>1. NoLine
        BY <1>1, <1>2, <2>3 DEF Strict
      <3>2. stdin \in Seq(Int) /\ lines \in Seq(Lines)
        BY DEF IInv, TypeOK
      <3>3. stdin = <<>> /\ lines = <<>>
        BY <3>1, <3>2, EmptySeq DEF NoLine
      <3>4. lines' = [i \in {} |-> OlderLine(lines[i])] /\ Len(lines') = 0
        <4>1. DOMAIN lines = {}
          BY <3>3, SMT
        <4>2. lines' = [i \in {} |-> OlderLine(lines[i])]
          BY <2>1, <4>1
        <4>3. DOMAIN lines' = 1..0
          BY <4>2, SMT
        <4>4. lines' \in Seq(Lines)
          BY <2>1, Parts, AgedTruthful
        <4> QED
          BY <4>2, <4>3, <4>4, SMT
      <3>5. CASE alive
        <4> DEFINE s == [i \in DOMAIN stdin |-> Older(stdin[i])]
        <4>1. s \in Seq(Int) /\ Len(s) = 0
          <5>1. DOMAIN stdin = 1..0
            BY <3>3, SMT
          <5>2. s \in [1..0 -> Int]
            BY <5>1, SMT
          <5> QED
            BY <5>2, SeqDef, SMT
        <4>2. stdin' = Append(s, 0)
          BY <2>1, <3>5
        <4> HIDE DEF s
        <4>3. Len(stdin') = 1 /\ stdin'[1] = 0
          BY <4>1, <4>2, SMT
        <4> QED
          BY <3>4, <4>3 DEF Asked
      <3>6. CASE ~alive
        BY <2>1, <3>1, <3>4, <3>6 DEF NoLine
      <3> QED
        BY <3>5, <3>6
    <2> QED
      BY <1>1, <1>2, <2>1, <2>2, <2>3 DEF Strict
  <1> QED
    BY <1>3, <1>4

\* The one answer there is closes the question.
LEMMA AwaitStrict ==
    ASSUME IInv, Strict, await_reply
    PROVE  Strict'
  <1>1. /\ Waiting /\ lines # <<>> /\ lines' = Tail(lines)
        /\ open' = IF Late(Head(lines)) THEN open ELSE None
        /\ UNCHANGED <<alive, stdin, running, strayed>>
    BY DEF await_reply
  <1>2. running
    BY <1>1 DEF Strict, Waiting
  <1>3. lines \in Seq(Lines) /\ stdin \in Seq(Int)
    BY DEF IInv, TypeOK
  <1>4. ASSUME ~strayed PROVE open' = None /\ NoLine'
    <2>1. Len(lines) # 0
      BY <1>1, <1>3, EmptySeq
    <2>2. Replied
      BY <1>2, <1>4, <2>1 DEF Strict, NoLine, Asked
    <2>3. Head(lines) = lines[1] /\ Len(lines') = 0
      BY <1>1, <1>3, <2>2, SMT DEF Replied
    <2>4. ~Late(Head(lines))
      BY <2>2, <2>3, SMT DEF Replied, Late
    <2> QED
      BY <1>1, <2>2, <2>3, <2>4 DEF NoLine, Replied
  <1> QED
    BY <1>1, <1>2, <1>4 DEF Strict

\* What the process does wrong.
LEMMA ProcessStrict ==
    ASSUME IInv, Strict, Stray \/ Swallow \/ Dies
    PROVE  Strict'
  <1>1. alive /\ running /\ UNCHANGED <<running, open, call>>
    BY DEF Stray, Swallow, Dies, Strict
  <1>2. CASE Stray
    BY <1>1, <1>2 DEF Stray, Strict
  <1>3. CASE Swallow
    <2>1. stdin # <<>> /\ stdin' = Tail(stdin) /\ lines' = lines /\ strayed' = strayed
      BY <1>3 DEF Swallow
    <2>2. stdin \in Seq(Int)
      BY DEF IInv, TypeOK
    <2>3. Len(stdin) # 0
      BY <2>1, <2>2, EmptySeq
    <2>4. ASSUME ~strayed PROVE open # None /\ NoLine'
      <3>1. open # None /\ Asked
        BY <1>1, <2>3, <2>4 DEF Strict, NoLine, Replied
      <3>2. Len(stdin') = 0
        BY <2>1, <2>2, <3>1, SMT DEF Asked
      <3> QED
        BY <2>1, <3>1, <3>2 DEF Asked, NoLine
    <2> QED
      BY <1>1, <2>1, <2>4 DEF Strict
  <1>4. CASE Dies
    <2>1. stdin' = <<>> /\ lines' = lines /\ strayed' = strayed
      BY <1>4 DEF Dies
    <2>2. Len(stdin') = 0
      BY <2>1, SMT
    <2> QED
      BY <1>1, <2>1, <2>2 DEF Strict, NoLine, Asked, Replied
  <1> QED
    BY <1>2, <1>3, <1>4

\* The beginnings and the ends of a step that leave the pipe as it is.
LEMMA StepStrict ==
    ASSUME IInv, Strict, spawn \/ StillDown \/ price \/ Timeout \/ Elapse
    PROVE  Strict'
  <1>1. CASE spawn
    BY <1>1 DEF spawn, Begin, Strict, NoLine
  <1>2. CASE StillDown
    BY <1>2 DEF StillDown, Skip, Outcome, Strict, NoLine, pipe
  <1>3. CASE price
    <2>1. /\ running /\ UNCHANGED <<pipe, running, open, strayed>>
          /\ call' = IF open = None THEN "send" ELSE "late"
      BY <1>3 DEF price, Begin
    <2> QED
      BY <2>1, PipeStands
  <1>4. CASE Timeout
    <2>1. /\ running /\ UNCHANGED <<pipe, running, open, strayed>> /\ call' = "idle"
      BY <1>4 DEF Timeout, Waiting, Skip, Outcome, Strict
    <2> QED
      BY <2>1, PipeStands
  <1>5. CASE Elapse
    <2>1. /\ UNCHANGED <<pipe, running, strayed>> /\ call' = call /\ call # "send"
          /\ open' = IF open = None THEN None ELSE Least(open + 1, HangLimit)
      BY <1>5 DEF Elapse
    <2>2. open' = None <=> open = None
      <3>1. open # None => Least(open + 1, HangLimit) \in Int
        BY ModelAssumption, SMT DEF IInv, TypeOK, Least
      <3> QED
        BY <2>1, <3>1, ModelAssumption
    <2>3. CASE running
      BY <2>1, <2>2, <2>3, PipeStands
    <2>4. CASE ~running
      BY <2>1, <2>4 DEF Strict, NoLine, pipe
    <2> QED
      BY <2>3, <2>4
  <1> QED
    BY <1>1, <1>2, <1>3, <1>4, <1>5

LEMMA NextStrict == IInv /\ Strict /\ [Next]_vars => Strict'
  <1> SUFFICES ASSUME IInv, Strict, [Next]_vars PROVE Strict'
    OBVIOUS
  <1>1. CASE Hung \/ Closed \/ CannotSpawn
    BY <1>1, DownStrict DEF Hung, Closed, CannotSpawn, Skip, Outcome
  <1>2. CASE UNCHANGED vars
    BY <1>2 DEF vars, pipe, Strict, NoLine, Asked, Replied
  <1> QED
    BY <1>1, <1>2, AnswerStrict, SendStrict, AwaitStrict, ProcessStrict, StepStrict
       DEF Next, Call

\* There is at most one question in the pipe of a process that keeps the protocol.
THEOREM QuestionsAreOne == Spec => []OneQuestion
  <1>1. Init => Strict
    <2>1. Len(<<>>) = 0
      BY SMT
    <2> QED
      BY <2>1 DEF Init, Strict, NoLine
  <1>2. Strict => OneQuestion
    BY SMT DEF Strict, NoLine, Asked, Replied, OneQuestion, Questions
  <1> QED
    BY <1>1, <1>2, NextStrict, ModelInvariant, PTL DEF Spec
=============================================================================
