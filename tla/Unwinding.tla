----------------------------- MODULE Unwinding -----------------------------
(***************************************************************************)
(* What break, continue, return, a failed command and SIGINT promise, with *)
(* no counters and no flags: the commands being executed are a stack, and  *)
(* each of these cuts the stack at once where the manual says it does.     *)
(* Evaluator is shown to implement this.                                   *)
(***************************************************************************)
EXTENDS Integers, Sequences, FiniteSets

CONSTANTS
    Compound,    \* the kinds of compound commands
    MaxCount     \* bound: the largest n of break n and continue n

VARIABLES
    frames,      \* the commands being executed, outermost first
    interrupted  \* SIGINT has arrived and the unit has not ended

Loops   == {"for", "forexpr", "select", "while", "until"}
Jumps   == {"break", "continue"}
Frame(k, n) == [kind |-> k, n |-> n]
Bottom  == Frame("source", 0)

Top     == frames[Len(frames)]
Simple  == Top.kind \in Jumps \cup {"command", "return"}

LoopsOf(s) == {i \in DOMAIN s : s[i].kind \in Loops}
Least(a, b) == IF a < b THEN a ELSE b

\* The position of the n-th enclosing loop, the outermost if there are fewer.
Enclosing(s, n) ==
    LET wanted == Least(n, Cardinality(LoopsOf(s)))
    IN  CHOOSE i \in LoopsOf(s) : Cardinality({j \in LoopsOf(s) : j >= i}) = wanted

Upto(s, i) == SubSeq(s, 1, i)

LeaveLoops(s, n) == Upto(s, Enclosing(s, n) - 1)
NextRoundOf(s, n) == Upto(s, Enclosing(s, n))
AllLoops(s) == IF LoopsOf(s) = {} THEN s ELSE LeaveLoops(s, Cardinality(LoopsOf(s)))

\* return leaves the function or script that is running, never the bottom one.
Scope(s) == CHOOSE i \in DOMAIN s : /\ s[i].kind \in {"function", "source"}
                                    /\ \A j \in (i+1)..Len(s) : s[j].kind \notin {"function", "source"}
LeaveFunction(s) == Upto(s, IF Scope(s) = 1 THEN 1 ELSE Scope(s) - 1)

\* A command that cannot be carried out (not one that returns a status other
\* than zero) abandons the lists around it, up to the function, the case item
\* or the unit they belong to; a case clause may still go on with another item.
Abandon(s) ==
    LET Holds(k) == k \in {"function", "case", "source", "eval"}
        i == CHOOSE i \in DOMAIN s : /\ Holds(s[i].kind)
                                     /\ \A j \in (i+1)..Len(s) : ~Holds(s[j].kind)
    IN  Upto(s, IF s[i].kind = "function" THEN i - 1 ELSE i)

Init == frames = <<Bottom>> /\ interrupted = FALSE

\* Nothing runs inside a loop once the user has interrupted it.
MayRun == ~Simple /\ ~(interrupted /\ LoopsOf(frames) # {})

Begin(k, n) ==
    /\ MayRun
    /\ frames' = Append(frames, Frame(k, n))
    /\ UNCHANGED interrupted

\* A simple command, or a compound one at its end, gives way to the next.
Complete ==
    /\ Len(frames) > 1
    /\ Top.kind \notin Jumps \cup {"return"}
    /\ frames' = Upto(frames, Len(frames) - 1)
    /\ \/ UNCHANGED interrupted
       \/ Top.kind \in {"source", "eval"} /\ interrupted' = FALSE

Fail ==
    /\ \/ Simple /\ (Top.kind \in Jumps => LoopsOf(frames) = {})
       \/ interrupted
    /\ frames' = Abandon(frames)
    /\ UNCHANGED interrupted

Break ==
    /\ Top.kind = "break" /\ LoopsOf(frames) # {}
    /\ frames' = LeaveLoops(frames, Top.n)
    /\ UNCHANGED interrupted

Continue ==
    /\ Top.kind = "continue" /\ LoopsOf(frames) # {}
    /\ frames' = NextRoundOf(frames, Top.n)
    /\ UNCHANGED interrupted

Return ==
    /\ Top.kind = "return"
    /\ frames' = LeaveFunction(frames)
    /\ \/ UNCHANGED interrupted
       \/ frames[Scope(frames)].kind = "source" /\ interrupted' = FALSE

Interrupt == interrupted' = TRUE /\ UNCHANGED frames

LeaveInterrupted ==
    /\ interrupted
    /\ frames' = AllLoops(frames)
    /\ UNCHANGED interrupted

NewUnit == frames = <<Bottom>> /\ interrupted' = FALSE /\ UNCHANGED frames

Next ==
    \/ \E k \in Compound : Begin(k, 0)
    \/ \E k \in Jumps, n \in 1..MaxCount : Begin(k, n)
    \/ Begin("command", 0) \/ Begin("return", 0)
    \/ Complete \/ Fail \/ Break \/ Continue \/ Return
    \/ Interrupt \/ LeaveInterrupted \/ NewUnit

Spec == Init /\ [][Next]_<<frames, interrupted>>
=============================================================================
