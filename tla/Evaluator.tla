----------------------------- MODULE Evaluator -----------------------------
(***************************************************************************)
(* How lsh executes a parsed program: the C functions that are active form *)
(* a stack (backend.c, loops.c, conditionals.c, main.c), and break,        *)
(* continue, return, SIGINT and failures travel up that stack through the  *)
(* globals cur_loop_level, req_break, req_continue and return_set and      *)
(* through the 0 or 1 every do_*() function returns.                       *)
(*                                                                         *)
(* Any program may be executed: the commands are chosen as they are run.   *)
(* Some habits of programs trip over the flags; each has a name, and only  *)
(* the habits in Programs are allowed.                                     *)
(***************************************************************************)
EXTENDS Integers, Sequences, FiniteSets

CONSTANTS
    Compound,    \* the kinds of compound commands programs use
    Programs,    \* the risky habits they have, see Habits
    MaxCount,    \* bound: the largest n of break n and continue n
    MaxDepth     \* bound: how many frames the stack may have

Habits ==
    {"overshoot",      \* break n or continue n with fewer than n loops
     "earlyExit",      \* break, continue n or SIGINT leaves a loop other than for in its first round
     "exitInTest",     \* break, continue or return in the test of while, until or if
     "goesOnInList",   \* a command after return in the same && or ; list of a line
     "fallThrough",    \* a case item that ends in ;& or ;;& and whose list a jump or SIGINT leaves
     "evalInLoop",     \* eval, . or a trap's action while a loop runs
     "returnInEval",   \* eval 'return' in a function
     "loopAfterInt"}   \* a loop in the rest of a unit, or after an eval, that SIGINT interrupted

LoopKinds == {"for", "forexpr", "select", "while", "until"}
Tested    == {"while", "until", "if"}

ASSUME EvaluatorAssumption ==
    /\ Programs \subseteq Habits
    /\ Compound \subseteq LoopKinds \cup {"if", "case", "group", "list", "function", "eval", "source"}
    /\ MaxCount \in Nat /\ MaxDepth \in Nat

VARIABLES
    stack,           \* the active functions, outermost first
    pc,              \* "run": the top list is about to run a command;
                     \* "ran": a command has returned to it; "left": the list has returned
    result,          \* what the last do_*() function returned: 0 or 1
    exit_status,     \* zero or not
    cur_loop_level, req_break, req_continue,
    return_set,
    signal_received  \* is it SIGINT?

counters == <<cur_loop_level, req_break, req_continue>>
flags    == <<return_set, signal_received>>
vars     == <<stack, pc, result, exit_status, counters, flags>>

Frame(k, n) == [kind |-> k, n |-> n, res |-> 0,
                phase |-> IF k \in Tested THEN "test" ELSE "body"]
Unit == Frame("source", 0)

Top  == stack[Len(stack)]
Popped == SubSeq(stack, 1, Len(stack) - 1)
WithTop(f) == Append(Popped, f)

IsCommand(f) == f.kind \in {"command", "break", "continue", "return"}
IsUnit(f)    == f.kind \in {"source", "eval"}

LoopsOf(s) == {i \in DOMAIN s : s[i].kind \in LoopKinds}

Init ==
    /\ stack = <<Unit>> /\ pc = "run"
    /\ result = 1 /\ exit_status = 0
    /\ cur_loop_level = 0 /\ req_break = 0 /\ req_continue = 0
    /\ return_set = FALSE /\ signal_received = FALSE
-----------------------------------------------------------------------------
(* Programs without a habit do not get into these states. *)

\* The innermost n loops, or all of them.
Innermost(n) == {i \in LoopsOf(stack) : Cardinality({j \in LoopsOf(stack) : j >= i}) <= n}

FirstRound(i) == stack[i].kind # "for" /\ stack[i].res = 0

\* leaving: the loops that are left; from: the lowest frame that is disturbed.
Jumpable(leaving, from) ==
    /\ "earlyExit" \in Programs \/ \A i \in leaving : ~FirstRound(i)
    /\ "exitInTest" \in Programs \/ \A i \in DOMAIN stack : i >= from => stack[i].phase # "test"

Outermost(s) == IF s = {} THEN Len(stack) ELSE CHOOSE i \in s : \A j \in s : i <= j

MayJump(k, n) ==
    /\ "overshoot" \in Programs \/ cur_loop_level = 0 \/ n <= cur_loop_level
    /\ Jumpable(IF k = "break" THEN Innermost(n) ELSE Innermost(n - 1), Outermost(Innermost(n)))

Scope == CHOOSE i \in DOMAIN stack :
            /\ IsUnit(stack[i]) \/ stack[i].kind = "function"
            /\ \A j \in (i+1)..Len(stack) : ~IsUnit(stack[j]) /\ stack[j].kind # "function"

MayReturn ==
    /\ "exitInTest" \in Programs \/ \A i \in (Scope + 1)..Len(stack) : stack[i].phase # "test"
    /\ "returnInEval" \in Programs \/ stack[Scope].kind # "eval"

MayEnter(k) ==
    /\ k \in {"eval", "source"} => "evalInLoop" \in Programs \/ cur_loop_level = 0
    /\ k \in LoopKinds => "loopAfterInt" \in Programs \/ ~signal_received
    /\ k = "list" => Top.kind # "list"
-----------------------------------------------------------------------------
(* Commands *)

\* What f needs to run a command in it.
Room(f) == IF IsCommand(f) THEN 1 ELSE IF IsUnit(f) THEN 3 ELSE 2

\* A unit is a sequence of lists; everything else runs commands.
Begin(f) ==
    /\ pc = "run" /\ ~IsCommand(Top)
    /\ IsUnit(Top) => f.kind = "list"
    /\ Len(stack) + Room(f) <= MaxDepth
    /\ stack' = Append(stack, f)

\* do_simple_command() runs a utility, or one of the builtins that jump.
Simple ==
    /\ Begin(Frame("command", 0))
    /\ UNCHANGED <<pc, result, exit_status, counters, flags>>

Jump(k, n) ==
    /\ MayJump(k, n)
    /\ Begin(Frame(k, n))
    /\ UNCHANGED <<pc, result, exit_status, counters, flags>>

ReturnCommand ==
    /\ MayReturn
    /\ Begin(Frame("return", 0))
    /\ UNCHANGED <<pc, result, exit_status, counters, flags>>

\* A loop raises the level; parse_and_execute() resets the counters.
Enter(k) ==
    /\ MayEnter(k)
    /\ Begin(Frame(k, 0))
    /\ IF k \in {"eval", "source"}
       THEN cur_loop_level' = 0 /\ req_break' = 0 /\ req_continue' = 0
       ELSE cur_loop_level' = cur_loop_level + (IF k \in LoopKinds THEN 1 ELSE 0)
            /\ UNCHANGED <<req_break, req_continue>>
    /\ UNCHANGED <<pc, result, exit_status, flags>>

\* The command on top returns r with exit status s.
CommandDone(r, s) ==
    /\ pc = "run" /\ stack' = Popped /\ pc' = "ran"
    /\ result' = r /\ exit_status' = s

Run ==
    /\ Top.kind = "command"
    /\ \E s \in {0, 1} : CommandDone(1, s)
    /\ UNCHANGED <<counters, flags>>

\* A failed expansion or redirection, or FUNCNEST.
CannotRun ==
    /\ Top.kind = "command"
    /\ CommandDone(0, 1)
    /\ UNCHANGED <<counters, flags>>

OutsideLoop ==
    /\ Top.kind \in {"break", "continue"} /\ cur_loop_level = 0
    /\ CommandDone(0, 1)
    /\ UNCHANGED <<counters, flags>>

Break ==
    /\ Top.kind = "break" /\ cur_loop_level # 0
    /\ CommandDone(1, 0)
    /\ req_break' = Top.n
    /\ UNCHANGED <<cur_loop_level, req_continue, flags>>

Continue ==
    /\ Top.kind = "continue" /\ cur_loop_level # 0
    /\ CommandDone(1, 0)
    /\ req_continue' = Top.n
    /\ UNCHANGED <<cur_loop_level, req_break, flags>>

Return ==
    /\ Top.kind = "return"
    /\ \E s \in {0, 1} : CommandDone(1, s)
    /\ return_set' = TRUE
    /\ UNCHANGED <<counters, signal_received>>

\* SIGINT_handler(), while a command runs; one signal in a unit.
Interrupt ==
    /\ pc = "run" /\ Top.kind = "command" /\ ~signal_received
    /\ Jumpable(LoopsOf(stack), Outermost(LoopsOf(stack)))
    /\ "loopAfterInt" \in Programs \/ \A i \in 2..Len(stack) : ~IsUnit(stack[i])
    /\ signal_received' = TRUE
    /\ req_break' = cur_loop_level
    /\ UNCHANGED <<stack, pc, result, exit_status, cur_loop_level, req_continue, return_set>>
-----------------------------------------------------------------------------
(* Lists *)

Requested == cur_loop_level # 0 /\ (req_break # 0 \/ req_continue # 0)

\* Mutant of ListStops: do_compound_list() does not look at return_set either.
StopsForLoops == result = 0 \/ Requested

\* do_list() and do_and_or() do not look at return_set, do_compound_list() does.
ListStops ==
    \/ result = 0
    \/ Requested
    \/ return_set /\ Top.kind # "list"

NextCommand ==
    /\ pc = "ran" /\ ~IsUnit(Top) /\ ~ListStops
    /\ return_set /\ Top.kind = "list" => "goesOnInList" \in Programs
    /\ pc' = "run"
    /\ UNCHANGED <<stack, result, exit_status, counters, flags>>

\* The list stops, or has no further command.
ListEnds ==
    /\ pc = "ran" /\ ~IsUnit(Top)
    /\ pc' = "left"
    /\ UNCHANGED <<stack, result, exit_status, counters, flags>>

\* The top function returns r to the list below.
Leave(r) == stack' = Popped /\ pc' = "ran" /\ result' = r

LeaveGroup ==
    /\ pc = "left" /\ Top.kind \in {"group", "list"}
    /\ Leave(result)
    /\ UNCHANGED <<exit_status, counters, flags>>

\* An item that ends in ;& goes on with the next one's list, an item that ends
\* in ;;& with the next one that matches. Neither looks at how its list ended.
FallThrough ==
    /\ pc = "left" /\ Top.kind = "case"
    /\ Requested \/ return_set => "fallThrough" \in Programs
    /\ pc' = "run"
    /\ UNCHANGED <<stack, result, exit_status, counters, flags>>

\* do_case_clause() returns 1 whatever its commands did.
LeaveCase ==
    /\ pc = "left" /\ Top.kind = "case"
    /\ Leave(1)
    /\ UNCHANGED <<exit_status, counters, flags>>

\* The result of a function is not looked at.
LeaveFunction ==
    /\ pc = "left" /\ Top.kind = "function"
    /\ Leave(1)
    /\ return_set' = FALSE
    /\ UNCHANGED <<exit_status, counters, signal_received>>

TestSays == (exit_status = 0) = (Top.kind # "until")

If ==
    /\ pc = "left" /\ Top.kind = "if"
    /\ \/ /\ Top.phase = "test" /\ result = 1
          /\ stack' = WithTop([Top EXCEPT !.phase = IF TestSays THEN "then" ELSE "else"])
          /\ pc' = "run" /\ UNCHANGED result
       \/ Top.phase = "test" /\ result = 1 /\ ~TestSays /\ Leave(1)
       \/ (Top.phase # "test" \/ result = 0) /\ Leave(result)
    /\ UNCHANGED <<exit_status, counters, flags>>
-----------------------------------------------------------------------------
(* Loops *)

InLoop(phase) == pc = "left" /\ Top.kind \in LoopKinds /\ Top.phase = phase

LeaveLoop(r) == Leave(r) /\ cur_loop_level' = cur_loop_level - 1

\* The test of while and until.
LoopTest ==
    /\ InLoop("test")
    /\ \/ /\ result = 1 /\ TestSays
          /\ stack' = WithTop([Top EXCEPT !.phase = "body"])
          /\ pc' = "run" /\ UNCHANGED <<result, cur_loop_level>>
       \/ result = 1 /\ ~TestSays /\ LeaveLoop(1)
       \/ result = 0 /\ LeaveLoop(0)
    /\ UNCHANGED <<exit_status, req_break, req_continue, flags>>

\* What the loop will return if it is left now: the for loop keeps the result
\* of its commands, the others a 1 that they set at the end of a round.
SoFar == IF Top.kind = "for" THEN result ELSE Top.res

\* Mutant of BodyStops: a loop whose body fails returns without cur_loop_level--.
BodyStopsAtOnce ==
    /\ InLoop("body") /\ (result = 0 \/ return_set \/ signal_received)
    /\ IF result = 0 THEN Leave(0) /\ UNCHANGED cur_loop_level ELSE LeaveLoop(SoFar)
    /\ UNCHANGED <<exit_status, req_break, req_continue, flags>>

BodyStops ==
    /\ InLoop("body") /\ (result = 0 \/ return_set \/ signal_received)
    /\ LeaveLoop(IF result = 0 THEN 0 ELSE SoFar)
    /\ UNCHANGED <<exit_status, req_break, req_continue, flags>>

BodyEnds == InLoop("body") /\ result = 1 /\ ~return_set /\ ~signal_received

BreakLoop ==
    /\ BodyEnds /\ req_break # 0
    /\ req_break' = req_break - 1
    /\ LeaveLoop(SoFar)
    /\ UNCHANGED <<exit_status, req_continue, flags>>

\* Mutant of ContinueOuter: every loop that continue n passes goes on itself.
ContinueEach ==
    /\ BodyEnds /\ req_break = 0 /\ req_continue > 1
    /\ req_continue' = req_continue - 1
    /\ stack' = WithTop([Frame(Top.kind, 0) EXCEPT !.res = 1])
    /\ pc' = "run" /\ UNCHANGED <<result, cur_loop_level, exit_status, req_break, flags>>

ContinueOuter ==
    /\ BodyEnds /\ req_break = 0 /\ req_continue > 1
    /\ req_continue' = req_continue - 1
    /\ LeaveLoop(SoFar)
    /\ UNCHANGED <<exit_status, req_break, flags>>

\* Mutant of NextRound: req_continue is decremented without being looked at.
NextRoundAlways ==
    /\ BodyEnds /\ req_break = 0 /\ req_continue <= 1
    /\ req_continue' = req_continue - 1
    /\ stack' = WithTop([Frame(Top.kind, 0) EXCEPT !.res = 1])
    /\ pc' = "run" /\ UNCHANGED <<result, cur_loop_level, exit_status, req_break, flags>>

\* The next round: a test, or another word, line of input or value, if any.
NextRound ==
    /\ BodyEnds /\ req_break = 0 /\ req_continue <= 1
    /\ req_continue' = 0
    /\ \/ /\ stack' = WithTop([Frame(Top.kind, 0) EXCEPT !.res = 1])
          /\ pc' = "run" /\ UNCHANGED <<result, cur_loop_level>>
       \/ Top.kind \notin Tested /\ LeaveLoop(1)
    /\ UNCHANGED <<exit_status, req_break, flags>>
-----------------------------------------------------------------------------
(* parse_and_execute() *)

NextLine ==
    /\ pc = "ran" /\ IsUnit(Top) /\ ~return_set
    /\ pc' = "run"
    /\ UNCHANGED <<stack, result, exit_status, counters, flags>>

\* eval, . and traps: return ends the unit, and what it returns is not looked at.
LeaveUnit ==
    /\ pc = "ran" /\ IsUnit(Top) /\ Len(stack) > 1
    /\ Leave(1)
    /\ return_set' = FALSE /\ signal_received' = FALSE
    /\ UNCHANGED <<exit_status, counters>>

\* The shell reads another unit.
NewUnit ==
    /\ pc = "ran" /\ Len(stack) = 1
    /\ pc' = "run" /\ result' = 1
    /\ cur_loop_level' = 0 /\ req_break' = 0 /\ req_continue' = 0
    /\ return_set' = FALSE /\ signal_received' = FALSE
    /\ UNCHANGED <<stack, exit_status>>

Next ==
    \/ Simple \/ ReturnCommand
    \/ \E k \in {"break", "continue"}, n \in 1..MaxCount : Jump(k, n)
    \/ \E k \in Compound : Enter(k)
    \/ Run \/ CannotRun \/ OutsideLoop \/ Break \/ Continue \/ Return \/ Interrupt
    \/ NextCommand \/ ListEnds
    \/ LeaveGroup \/ FallThrough \/ LeaveCase \/ LeaveFunction \/ If
    \/ LoopTest \/ BodyStops \/ BreakLoop \/ ContinueOuter \/ NextRound
    \/ NextLine \/ LeaveUnit \/ NewUnit

Spec == Init /\ [][Next]_vars
-----------------------------------------------------------------------------
\* The frames are those of do_*() functions, the flags are flags, and no
\* counter of loops.c is ever negative.
TypeOK ==
    /\ \A i \in DOMAIN stack :
          stack[i].kind \in Compound \cup {"command", "break", "continue", "return", "source"}
          /\ stack[i].phase \in {"test", "then", "else", "body"}
          /\ stack[i].res \in {0, 1}
    /\ stack[1] = Unit
    /\ pc \in {"run", "ran", "left"}
    /\ result \in {0, 1} /\ exit_status \in {0, 1}
    /\ cur_loop_level \in 0..MaxDepth
    /\ req_break \in 0..MaxDepth /\ req_continue \in 0..MaxCount
    /\ return_set \in BOOLEAN /\ signal_received \in BOOLEAN

\* break and continue count on cur_loop_level: it is the number of loops that
\* are running, however they are left (loops.c decrements it in one place).
LevelCounts == cur_loop_level = Cardinality(LoopsOf(stack))

\* No command runs inside a loop while a break or a continue is under way, and
\* none runs in a function or a script that return has left: the flags are
\* spent when the lists go on (but for a command that is interrupted).
NothingRunsPending ==
    pc = "run" /\ ~(IsCommand(Top) /\ signal_received) => ~Requested /\ ~return_set

(* The stack as the promised unwinding leaves it. *)
Promise == INSTANCE Unwinding WITH
    frames <- <<>>, interrupted <- signal_received

Shape == [i \in DOMAIN stack |-> [kind |-> stack[i].kind, n |-> stack[i].n]]

\* What is left of the stack when everything under way has taken its course.
Settled ==
    IF pc = "run"                         THEN Shape
    ELSE IF return_set                    THEN Promise!LeaveFunction(Shape)
    ELSE IF result = 0                    THEN Promise!Abandon(Shape)
    ELSE IF Requested /\ signal_received  THEN Promise!AllLoops(Shape)
    ELSE IF Requested /\ req_break # 0    THEN Promise!LeaveLoops(Shape, req_break)
    ELSE IF Requested                     THEN Promise!NextRoundOf(Shape, req_continue)
    ELSE Shape

\* return ends the script that it leaves, and with it the interruption.
Interrupted ==
    /\ signal_received
    /\ pc = "run" \/ ~return_set \/ stack[Scope].kind # "source"

U == INSTANCE Unwinding WITH frames <- Settled, interrupted <- Interrupted

\* break, continue, return, a failed command and SIGINT have the effect the
\* manual gives them, whatever compound commands they are nested in
\* (docs/man/man1/lsh.1:2069, 2113, 2512).
Unwinds == U!Spec
=============================================================================
