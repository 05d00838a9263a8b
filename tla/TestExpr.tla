----------------------------- MODULE TestExpr -----------------------------
(***************************************************************************)
(* The conditions of test, [ and [[ (test.c): test_builtin() takes its     *)
(* arguments one by one with a stack of operators and one of operands, and *)
(* puts what a test says, "0" for true and "1" for false, on the stack of  *)
(* the operands it tests.                                                  *)
(***************************************************************************)
EXTENDS Integers, Sequences, SequencesExt, FiniteSets, TLC

CONSTANTS
    Strings,      \* the operands
    MAXTESTSTACK, \* the capacity of either stack
    Terse         \* what conditions do that test_builtin() gets wrong:
                  \*   "not"    have ! without parentheses in an -a or -o
                  \*   "bare"   have an operand alone in a !, -a or -o
                  \*   "braces" are enclosed in parentheses as a whole

\* A condition is a string, a test of one or two of them, or is built from
\* conditions.
Str(w)        == <<"str", w>>
Tst(op, v, w) == <<"test", op, v, w>>
Not(c)        == <<"not", c>>
Both(op, c, d) == <<"both", op, c, d>>
Braces(c)     == <<"braces", c>>

Lengths == {"-n", "-z"}
Comparisons == {"=", "!=", "-eq"}
Tests ==
    {Str(w) : w \in Strings}
    \cup {Tst("-z", "", w) : w \in Strings}
    \cup {Tst(op, v, w) : op \in {"=", "-eq"}, v \in Strings, w \in Strings}

\* One level of conditions above C and D.
Over(C, D) ==
    {Not(c) : c \in C} \cup {Braces(c) : c \in C}
    \cup {Both(op, c, d) : op \in {"-a", "-o"}, c \in C, d \in D}
-----------------------------------------------------------------------------
\* Digits are numbers, "" is 0, and so is a variable that has no value.
Number(w) == IF w \in {"1", "2"} THEN w ELSE "0"
\* What a test says of its operands; patterns are left to PatternMatch.
Says(op, v, w) ==
    CASE op = "-n"  -> w # ""
      [] op = "-z"  -> w = ""
      [] op = "="   -> v = w
      [] op = "!="  -> v # w
      [] op = "-eq" -> Number(v) = Number(w)

RECURSIVE Holds(_)
\* Whether a condition holds by the help text of [[.
Holds(c) ==
    CASE c[1] = "str"    -> c[2] # ""
      [] c[1] = "test"   -> Says(c[2], c[3], c[4])
      [] c[1] = "not"    -> ~Holds(c[2])
      [] c[1] = "braces" -> Holds(c[2])
      [] c[1] = "both"   -> IF c[2] = "-a" THEN Holds(c[3]) /\ Holds(c[4])
                            ELSE Holds(c[3]) \/ Holds(c[4])

\* ! binds tighter than -a, -a tighter than -o.
Level(c) ==
    CASE c[1] = "both" /\ c[2] = "-o" -> 1
      [] c[1] = "both" /\ c[2] = "-a" -> 2
      [] c[1] = "not" -> 3
      [] OTHER -> 4

RECURSIVE Args(_)
\* The arguments a condition is written with.
Args(c) ==
    LET in(d, level) ==
            IF Level(d) < level THEN <<"(">> \o Args(d) \o <<")">> ELSE Args(d)
    IN  CASE c[1] = "str"    -> <<c[2]>>
          [] c[1] = "test"   -> IF c[2] \in Lengths THEN <<c[2], c[4]>> ELSE <<c[3], c[2], c[4]>>
          [] c[1] = "not"    -> <<"!">> \o in(c[2], 3)
          [] c[1] = "braces" -> <<"(">> \o Args(c[2]) \o <<")">>
          [] c[1] = "both"   -> in(c[3], Level(c)) \o <<c[2]>> \o in(c[4], Level(c) + 1)
-----------------------------------------------------------------------------
(* What test_builtin() does with the arguments. *)

Operators == {"!", "(", ")", "-a", "-o"} \cup Lengths \cup Comparisons
IsUnary(op) == op \in {"!"} \cup Lengths
IsStrOp(op) == op \in {"=", "!="}
Prec(op) ==
    CASE op \in {"(", ")", "start"} -> 0
      [] op = "!"  -> 1
      [] op = "-o" -> 2
      [] op = "-a" -> 3
      [] op \in Lengths \cup Comparisons -> 4

\* Both stacks, the error flag, the operand read (None if none) and the
\* operator before it ("none" when an operand came last).
None == <<>>
Testing == [ops |-> <<>>, args |-> <<>>, err |-> FALSE, tstart |-> None, lastop |-> "start"]
Fail(s) == [s EXCEPT !.err = TRUE]
PushOp(s, op) ==
    IF Len(s.ops) >= MAXTESTSTACK THEN Fail(s) ELSE [s EXCEPT !.ops = Append(@, op)]
PushArg(s, w) ==
    IF Len(s.args) >= MAXTESTSTACK THEN Fail(s) ELSE [s EXCEPT !.args = Append(@, w)]

Said(b) == IF b THEN "0" ELSE "1"
\* test_not() takes digits for what a test said and other strings as they are.
Denied(w) == IF w \in {"", "1", "2"} THEN "0" ELSE "1"
Result(op, v, w) ==
    CASE op = "!"  -> Denied(w)
      [] op = "-a" -> Said(v = "0" /\ w = "0")
      [] op = "-o" -> Said(v = "0" \/ w = "0")
      [] OTHER     -> Said(Says(op, v, w))

\* The operator on top of the stack is applied to its operands.
Apply(s) ==
    LET op   == Last(s.ops)
        need == IF IsUnary(op) THEN 1 ELSE 2
        n    == Len(s.args)
        left == IF need = 2 THEN s.args[n - 1] ELSE ""
    IN  IF n < need \/ op = "(" THEN Fail(s)
        ELSE PushArg([s EXCEPT !.ops = Front(@), !.args = SubSeq(@, 1, n - need)],
                     Result(op, left, s.args[n]))

\* The stack is emptied down to an operator that binds less tight.
PopsForEqual(s, op) ==
    /\ s.ops # <<>>
    /\ IF op = ")" THEN Last(s.ops) # "(" ELSE Prec(op) <= Prec(Last(s.ops))
PopsFor(s, op) ==
    /\ s.ops # <<>>
    /\ IF op = ")" THEN Last(s.ops) # "("
       ELSE IF IsUnary(op) THEN Prec(op) < Prec(Last(s.ops))
       ELSE Prec(op) <= Prec(Last(s.ops))

RECURSIVE PopFor(_, _)
PopFor(s, op) == IF s.err \/ ~PopsFor(s, op) THEN s ELSE PopFor(Apply(s), op)

ShuntOp(s, op) ==
    LET p == IF op = "(" THEN s ELSE PopFor(s, op)
    IN  IF p.err THEN p
        ELSE IF op # ")" THEN PushOp(p, op)
        ELSE IF p.ops = <<>> THEN Fail(p)
        ELSE [p EXCEPT !.ops = Front(@)]

\* An operator where an operand is expected: a string operator gets "" for it.
Expected(s, op) ==
    IF s.lastop \in {"none", ")"} \/ op = "(" \/ IsUnary(op) THEN s
    ELSE IF IsStrOp(op) THEN PushArg(s, "")
    ELSE Fail(s)

\* The operand read before is put on the stack by the argument after it.
Taken(s) ==
    IF s.tstart = None THEN s ELSE [PushArg(s, s.tstart[1]) EXCEPT !.tstart = None]

Argument(s, w) ==
    IF s.err THEN s
    ELSE IF w \in Operators THEN
         LET t == IF s.tstart = None THEN Expected(s, w) ELSE Taken(s)
         IN  IF t.err THEN t ELSE [ShuntOp(t, w) EXCEPT !.lastop = w]
    ELSE IF s.tstart = None THEN [s EXCEPT !.tstart = <<w>>]
    ELSE [Taken(s) EXCEPT !.lastop = "none"]

\* An operand that is the only argument is tested by -n.
LastOperand(s, args) ==
    IF s.err \/ s.tstart = None THEN s
    ELSE Taken(IF Len(args) = 1 THEN ShuntOp(s, "-n") ELSE s)

RECURSIVE Finish(_)
Finish(s) == IF s.err \/ s.ops = <<>> THEN s ELSE Finish(Apply(s))

\* What the builtin returns: 0, 1, or 2 for an error.  Whatever is alone on the
\* operand stack when no operator is left is tested by -n.
TestBuiltin(args) ==
    LET s == LastOperand(FoldLeft(Argument, Testing, args), args)
        f == Finish(s)
        atoi(w) == IF w = "0" THEN 0 ELSE 1
    IN  IF s.err THEN 2
        ELSE IF s.ops = <<>> /\ s.args # <<>> THEN atoi(Said(s.args[1] # ""))
        ELSE IF f.err \/ Len(f.args) # 1 THEN 2
        ELSE atoi(f.args[1])
-----------------------------------------------------------------------------
RECURSIVE Within(_)
\* The condition and those it is built from.
Within(c) ==
    {c} \cup (CASE c[1] \in {"not", "braces"} -> Within(c[2])
                [] c[1] = "both" -> Within(c[3]) \cup Within(c[4])
                [] OTHER -> {})

\* What users are assumed not to write.
Unclear(c) ==
    LET operands(d) == IF d[1] = "both" THEN {d[3], d[4]}
                       ELSE IF d[1] \in {"not", "braces"} THEN {d[2]} ELSE {}
    IN  \/ /\ "not" \notin Terse
           /\ \E d \in Within(c) : d[1] = "both" /\ \E e \in operands(d) : e[1] = "not"
        \/ /\ "bare" \notin Terse
           /\ \E d \in Within(c) : \E e \in operands(d) : e[1] = "str"
        \/ /\ "braces" \notin Terse
           /\ c[1] = "braces"

\* The status is 0 when the condition holds and 1 when it does not.
AsDocumented(c, status) == status = IF Holds(c) THEN 0 ELSE 1
=============================================================================
