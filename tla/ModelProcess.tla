---------------------------- MODULE ModelProcess ----------------------------
(***************************************************************************)
(* The pricing model as a process on the other end of a pipe, and the step  *)
(* that asks it within a budget (crates/propamm-engine: model/external.rs,  *)
(* tick.rs): questions with growing ids, answers that come late, broken or  *)
(* never, a process that dies and is started again after a growing pause.   *)
(*                                                                          *)
(* Ids are relative: 0 is the newest question asked, n the n-th before it,  *)
(* -1 the one after it, so that asking shifts every id in the pipe by one   *)
(* and the ids need no bound.  The open question, if there is one, is       *)
(* always the newest.  Time is relative as well; the waits end on time or   *)
(* one unit late.                                                           *)
(***************************************************************************)
EXTENDS Integers, Sequences

CONSTANTS
    Budget,               \* how long the model may take
    HangLimit,            \* how long a question may stay open
    MinPause, MaxPause,   \* Backoff
    MaxLines,             \* bound: lines and questions in the pipe
    MaxFaults,            \* bound: how often the process does what it should not
    None

ASSUME ModelAssumption ==
    /\ Budget \in Nat \ {0} /\ HangLimit \in Nat \ {0}
    /\ MinPause \in Nat \ {0} /\ MaxPause \in Nat /\ MinPause <= MaxPause
    /\ MaxLines \in Nat \ {0} /\ MaxFaults \in Nat
    /\ None \notin Int

VARIABLES
    \* the process and the pipe
    alive,     \* the process runs and its stdout is open
    stdin,     \* the questions it has not taken up
    lines,     \* its stdout, unread
    \* ExternalProcessModel
    running,   \* the process is there, as far as the engine knows
    open,      \* age of the open question
    until,     \* to the next start
    pause,     \* the pause after the next death
    call,      \* where price is: idle, late (reading a late answer), send, ask
    \* ModelStep
    spent,     \* since the step began
    step,      \* what the last step came to, and the question its answer was about
    streak,    \* the last steps were skips
    \* history
    told,      \* what the recorded events tell: the model is skipping
    strayed,   \* this process has printed something that is not an answer to a question
    faults

pipe == <<alive, stdin, lines>>
restart == <<until, pause>>
tick == <<spent, step, streak, told>>
vars == <<pipe, running, open, restart, call, tick, strayed, faults>>

\* What an answer can be: a quote, one of size zero, one that is no price, a withdrawal, a
\* failure, or more than one of these.
Answers == {"quote", "empty", "unpriced", "withdraw", "error", "several"}
Lines == [id : Int, about : Int, answer : Answers] \union [answer : {"broken"}]
Broken(line) == line.answer = "broken"

-----------------------------------------------------------------------------
Least(a, b) == IF a < b THEN a ELSE b
Less(n) == IF n = 0 THEN 0 ELSE n - 1
Fault == faults < MaxFaults /\ faults' = faults + 1
Room(s) == Len(s) < MaxLines

\* An id becomes older by one; beyond MaxLines + 1 all are alike.
Older(n) == Least(n + 1, MaxLines + 1)
OlderLine(l) == IF Broken(l) THEN l ELSE [l EXCEPT !.id = Older(@), !.about = Older(@)]

-----------------------------------------------------------------------------
(* The process, external.                                                   *)

\* It answers the questions in turn, each with its id.
Answer(a) ==
    /\ alive /\ stdin # <<>> /\ Room(lines)
    /\ lines' = Append(lines, [id |-> Head(stdin), about |-> Head(stdin), answer |-> a])
    /\ stdin' = Tail(stdin)
    /\ UNCHANGED <<alive, running, open, restart, call, tick, strayed, faults>>

\* It prints what is not in the protocol, or an answer to no question.
Stray ==
    /\ alive /\ Room(lines)
    /\ \E l \in {[answer |-> "broken"], [id |-> -1, about |-> -1, answer |-> "quote"]} :
            lines' = Append(lines, l)
    /\ strayed' = TRUE
    /\ Fault
    /\ UNCHANGED <<alive, stdin, running, open, restart, call, tick>>

\* It takes a question up and never answers it.
Swallow ==
    /\ alive /\ stdin # <<>>
    /\ stdin' = Tail(stdin)
    /\ Fault
    /\ UNCHANGED <<alive, lines, running, open, restart, call, tick, strayed>>

Dies ==
    /\ alive
    /\ alive' = FALSE /\ stdin' = <<>>
    /\ Fault
    /\ UNCHANGED <<lines, running, open, restart, call, tick, strayed>>

-----------------------------------------------------------------------------
(* The step: what comes of a call, and the event for it.                    *)

\* A slip: an answer does not end the run.
RecordUnended(kind) ==
    /\ streak' = (streak \/ kind = "Skip")
    /\ told' = CASE kind = "Skip" /\ ~streak -> TRUE
                 [] kind # "Skip" /\ streak -> FALSE
                 [] OTHER -> told

\* One event when a run of skips begins, one when it ends.
record(kind) ==
    /\ streak' = (kind = "Skip")
    /\ told' = CASE kind = "Skip" /\ ~streak -> TRUE
                 [] kind # "Skip" /\ streak -> FALSE
                 [] OTHER -> told

Outcome(kind, about) ==
    /\ step' = [kind |-> kind, about |-> about]
    /\ record(kind)
    /\ call' = "idle"
    /\ spent' = spent

Skip == Outcome("Skip", None)

\* A late withdrawal is honoured, and so is an empty quote, which is one; a late price is
\* not, nor is what is no price.
run(line) ==
    CASE line.answer \in {"withdraw", "empty"} -> Outcome("Withdraw", line.about)
      [] line.answer = "quote" /\ spent <= Budget -> Outcome("Post", line.about)
      [] OTHER -> Skip

-----------------------------------------------------------------------------
(* The model: ensure_running, the late answer, the question, its answer.    *)

\* A slip: the pause doubles with no end.
DownUncapped ==
    /\ running' = FALSE /\ alive' = FALSE
    /\ stdin' = <<>> /\ lines' = <<>>
    /\ open' = None
    /\ until' = pause
    /\ pause' = 2 * pause

\* The process is taken down, and its pipe with it; the next start waits the pause.
down ==
    /\ running' = FALSE /\ alive' = FALSE
    /\ stdin' = <<>> /\ lines' = <<>>
    /\ open' = None
    /\ until' = pause
    /\ pause' = Least(2 * pause, MaxPause)

Begin(next) ==
    /\ call' = next
    /\ spent' = 0
    /\ step' = [kind |-> "None", about |-> None]
    /\ UNCHANGED <<streak, told>>

spawn ==
    /\ call = "idle" /\ ~running /\ until = 0
    /\ running' = TRUE /\ alive' = TRUE
    /\ strayed' = FALSE
    /\ Begin("send")
    /\ UNCHANGED <<stdin, lines, open, restart, faults>>

CannotSpawn ==
    /\ call = "idle" /\ ~running /\ until = 0
    /\ Fault
    /\ down
    /\ Skip
    /\ UNCHANGED strayed

StillDown ==
    /\ call = "idle" /\ ~running /\ until > 0
    /\ Skip
    /\ UNCHANGED <<pipe, running, open, restart, strayed, faults>>

Hung ==
    /\ call = "idle" /\ running /\ open # None /\ open >= HangLimit
    /\ down
    /\ Skip
    /\ UNCHANGED <<strayed, faults>>

\* A slip: ask again although the last question is open.
PriceNotReadingLate ==
    /\ call = "idle" /\ running
    /\ open # None => open < HangLimit
    /\ Begin("send")
    /\ UNCHANGED <<pipe, running, open, restart, strayed, faults>>

price ==
    /\ call = "idle" /\ running
    /\ open # None => open < HangLimit
    /\ Begin(IF open = None THEN "send" ELSE "late")
    /\ UNCHANGED <<pipe, running, open, restart, strayed, faults>>

\* Ask; a process that is gone may refuse the line, or not be noticed yet.
send ==
    /\ call = "send"
    /\ \/ /\ alive => Room(stdin)
          /\ stdin' = IF alive
                      THEN Append([i \in DOMAIN stdin |-> Older(stdin[i])], 0)
                      ELSE stdin
          /\ lines' = [i \in DOMAIN lines |-> OlderLine(lines[i])]
          /\ open' = 0
          /\ call' = "ask"
          /\ UNCHANGED <<alive, running, restart, tick>>
       \/ /\ ~alive
          /\ down
          /\ Skip
    /\ UNCHANGED <<strayed, faults>>

Waiting == call \in {"late", "ask"}
Late(line) == ~Broken(line) /\ line.id > 0
\* A slip: any line in the protocol is the answer.
MatchesAny(line) == ~Broken(line)

Matches(line) == ~Broken(line) /\ line.id = 0

\* An answer closes the open question unless it is older; a broken line closes it too.
await_reply ==
    /\ Waiting /\ lines # <<>>
    /\ lines' = Tail(lines)
    /\ open' = IF Late(Head(lines)) THEN open ELSE None
    /\ pause' = IF Matches(Head(lines)) THEN MinPause ELSE pause
    /\ IF Late(Head(lines)) THEN UNCHANGED <<call, tick>>
       ELSE IF call = "late" THEN call' = "send" /\ UNCHANGED tick
       ELSE IF Matches(Head(lines)) THEN run(Head(lines))
       ELSE Skip
    /\ UNCHANGED <<alive, stdin, running, until, strayed, faults>>

Closed ==
    /\ Waiting /\ lines = <<>> /\ ~alive
    /\ down
    /\ Skip
    /\ UNCHANGED <<strayed, faults>>

\* A slip: the age of the open question is counted from the last budget.
TimeoutRedates ==
    /\ Waiting /\ lines = <<>> /\ alive /\ spent >= Budget
    /\ open' = IF open = None THEN None ELSE 0
    /\ Skip
    /\ UNCHANGED <<pipe, running, restart, strayed, faults>>

Timeout ==
    /\ Waiting /\ lines = <<>> /\ alive /\ spent >= Budget
    /\ Skip
    /\ UNCHANGED <<pipe, running, open, restart, strayed, faults>>

Questions == Len(stdin) + Len(lines)

\* Time passes; over a question or a line that waits, only by a fault: a slow process, or
\* a thread that is scheduled late.
Elapse ==
    /\ Waiting => spent <= Budget
    /\ call # "send"
    /\ IF Waiting /\ Questions > 0 THEN Fault ELSE faults' = faults
    /\ spent' = IF Waiting THEN spent + 1 ELSE spent
    /\ open' = IF open = None THEN None ELSE Least(open + 1, HangLimit)
    /\ until' = Less(until)
    /\ UNCHANGED <<pipe, running, pause, call, step, streak, told, strayed>>

-----------------------------------------------------------------------------
Init ==
    /\ alive = TRUE /\ stdin = <<>> /\ lines = <<>>
    /\ running = TRUE /\ open = None
    /\ until = 0 /\ pause = MinPause
    /\ call = "idle" /\ spent = 0
    /\ step = [kind |-> "None", about |-> None]
    /\ streak = FALSE /\ told = FALSE
    /\ strayed = FALSE /\ faults = 0

Call == spawn \/ StillDown \/ Hung \/ price \/ send \/ await_reply \/ Closed \/ Timeout

Next ==
    \/ Call \/ CannotSpawn
    \/ \E a \in Answers : Answer(a)
    \/ Stray \/ Swallow \/ Dies
    \/ Elapse

\* The loop asks again and again, a process that is not at fault answers, time goes on.
Fairness == WF_vars(Call) /\ WF_vars(\E a \in Answers : Answer(a)) /\ SF_vars(Answer("quote")) /\ SF_vars(Elapse)

Spec == Init /\ [][Next]_vars
LiveSpec == Spec /\ Fairness

-----------------------------------------------------------------------------
TypeOK ==
    /\ alive \in BOOLEAN /\ running \in BOOLEAN
    /\ stdin \in Seq(Int) /\ lines \in Seq(Lines)
    /\ open \in 0..HangLimit \union {None}
    /\ until \in 0..MaxPause /\ pause \in MinPause..MaxPause
    /\ call \in {"idle", "late", "send", "ask"}
    /\ spent \in 0..(Budget + 1)
    /\ step \in [kind : {"None", "Post", "Withdraw", "Skip"}, about : Int \union {None}]
    /\ streak \in BOOLEAN /\ told \in BOOLEAN /\ strayed \in BOOLEAN
    /\ faults \in 0..MaxFaults

\* A price that is posted is the answer to the question of this very step, and came within
\* the budget: neither an answer that came after its budget, nor one of a process that
\* died, is ever taken for another (FR-015b).
PostsAreCurrent == step.kind = "Post" => step.about = 0 /\ spent <= Budget

\* "There is at most one question in the pipe": of a process that keeps the protocol. One
\* stray line is taken for the answer, and the next question joins the one unanswered.
OneQuestion == running /\ ~strayed => Questions <= 1

\* The events alone tell whether the model is skipping: one at each end of a run of skips.
EventsTellSkips == step.kind # "None" => (told <=> step.kind = "Skip")

\* After the last fault of the process, prices are posted again, and forever: a question
\* that is never answered is given up at the hang limit, a late answer is read and thrown
\* away, a process that died is started again.
Heals == []<>(step.kind = "Post")
=============================================================================
