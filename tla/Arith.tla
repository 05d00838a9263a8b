------------------------------- MODULE Arith -------------------------------
(***************************************************************************)
(* Arithmetic expansion (shunt.c): arithm_expand() reads an expression     *)
(* token by token with a stack of operators and one of operands, against   *)
(* the value the expression has by the grammar of the manual.  A number on *)
(* the operand stack is a value, a variable a pointer that is read when an *)
(* operator is applied to it.                                              *)
(***************************************************************************)
EXTENDS Integers, Sequences, SequencesExt, FiniteSets, TLC

CONSTANTS
    Numbers,      \* the literals
    IntBits,      \* the width of the int that get_num()'s long goes through
    MAXOPSTACK,   \* the capacity of either stack
    Sloppy        \* what expressions do that the expansion gets wrong:
                  \*   "lateRead"   read a variable before a side effect on it
                  \*   "andOr"      have a side effect or a division after &&
                  \*   "prefix"     begin the operand after a comma with an operator
                  \*   "divAssign"  divide a variable by zero in place
                  \*   "stored"     are the name of a variable that holds an expression
                  \*   "tight"      write an operator right after an operand

\* An expression is a number, a variable or an operator on one or two expressions.
Num(n)       == <<"num", n>>
Var(x)       == <<"var", x>>
Un(op, e)    == <<"un", op, e>>
Bin(op, l, r) == <<"bin", op, l, r>>

\* x holds a number, e the text of an expression.
Start == [x |-> Num(1), e |-> Bin("-", Var("x"), Num(2))]

Binary == {"**", "*", "/", "-", "<", "==", "&&", "||", "=", "/=", ","}
Assigning == {"=", "/="}
Leaves == {Num(n) : n \in Numbers} \cup {Var("x")}

\* Expressions with operands from L and R; only a variable is assigned to.
Over(L, R) ==
    {Un(op, e) : op \in {"u-", "!"}, e \in L}
    \cup {Un(op, Var("x")) : op \in {"x++", "++x"}}
    \cup {Bin(op, l, r) : op \in Binary \ Assigning, l \in L, r \in R}
    \cup {Bin(op, Var("x"), r) : op \in Assigning, r \in R}

Small == Leaves \cup {Var("e")} \cup Over(Leaves, Leaves)
-----------------------------------------------------------------------------
(* What the manual says the expression is: binary operators by the levels   *)
(* of its list, operands from left to right.                                *)

Levels == <<{","}, {"=", "/="}, {"||"}, {"&&"}, {"=="}, {"<"}, {"-"}, {"*", "/"},
            {"**"}, {"u-", "!", "++x"}, {"x++"}>>
Level(e) ==
    IF e[1] \in {"num", "var"} THEN Len(Levels) + 1
    ELSE CHOOSE i \in DOMAIN Levels : e[2] \in Levels[i]
FromRight(op) == op \in {"=", "/=", "**"}

Answer(val, env) == [val |-> val, env |-> env, error |-> ""]
Fails(env, why)  == [val |-> 0, env |-> env, error |-> why]
Truth(b) == IF b THEN 1 ELSE 0
Signed(n) == ((n + 2^(IntBits - 1)) % 2^IntBits) - 2^(IntBits - 1)
Size(n) == IF n < 0 THEN -n ELSE n
Quotient(a, b) == IF b = 0 THEN 0 ELSE (IF (a < 0) = (b < 0) THEN 1 ELSE -1) * (Size(a) \div Size(b))
Power(a, b) == IF b < 0 THEN 0 ELSE IF b = 0 THEN 1 ELSE a ^ b

Combined(op, a, b) ==
    CASE op = "**" -> Power(a, b)
      [] op = "*"  -> a * b
      [] op \in {"/", "/="} -> Quotient(a, b)
      [] op = "-"  -> a - b
      [] op = "<"  -> Truth(a < b)
      [] op = "==" -> Truth(a = b)
      [] op = "&&" -> Truth(a # 0 /\ b # 0)
      [] op = "||" -> Truth(a # 0 \/ b # 0)
      [] op = "="  -> b
Divides(op) == op \in {"/", "/="}

Set(r, x, v) == [r EXCEPT !.env[x] = Num(v)]
Single(op, a, x) ==
    CASE op = "u-"  -> [a EXCEPT !.val = -a.val]
      [] op = "!"   -> [a EXCEPT !.val = Truth(a.val = 0)]
      [] op = "++x" -> Set([a EXCEPT !.val = @ + 1], x, a.val + 1)
      [] op = "x++" -> Set(a, x, a.val + 1)

RECURSIVE Value(_, _)
Value(e, env) ==
    CASE e[1] = "num" -> Answer(e[2], env)
      [] e[1] = "var" -> Value(env[e[2]], env)
      [] e[1] = "un" ->
           LET a == Value(e[3], env)
           IN  IF a.error # "" THEN a ELSE Single(e[2], a, e[3][2])
      [] e[1] = "bin" /\ e[2] \in Assigning ->
           LET b   == Value(e[4], env)
               old == Value(e[3], b.env)
               v   == Combined(e[2], old.val, b.val)
           IN  IF b.error # "" THEN b
               ELSE IF Divides(e[2]) /\ b.val = 0 THEN Fails(b.env, "division by zero")
               ELSE Set([b EXCEPT !.val = v], e[3][2], v)
      [] OTHER ->
           LET l == Value(e[3], env)
               r == Value(e[4], l.env)
           IN  IF l.error # "" THEN l
               ELSE IF e[2] \in {"&&", "||"} /\ Truth(l.val # 0) = Truth(e[2] = "||")
                    THEN [l EXCEPT !.val = Truth(l.val # 0)]
               ELSE IF r.error # "" \/ e[2] = "," THEN r
               ELSE IF Divides(e[2]) /\ r.val = 0 THEN Fails(r.env, "division by zero")
               ELSE [r EXCEPT !.val = Combined(e[2], l.val, r.val)]
-----------------------------------------------------------------------------
(* The text of an expression: its tokens, with parentheses where the levels *)
(* need them.                                                               *)

In(e, braces) ==
    IF braces THEN <<<<"op", "(">>>> \o e \o <<<<"op", ")">>>> ELSE e
Sign(op) == IF op = "u-" THEN "-" ELSE IF op \in {"x++", "++x"} THEN "++" ELSE op

RECURSIVE Text(_)
Text(e) ==
    IF e[1] \in {"num", "var"} THEN <<e>>
    ELSE LET op == <<<<"op", Sign(e[2])>>>>
             lower(s) == Level(s) < Level(e)
             same(s)  == Level(s) = Level(e)
             right    == FromRight(e[2])
         IN  IF e[2] = "x++" THEN Text(e[3]) \o op
             ELSE IF e[1] = "un" THEN op \o In(Text(e[3]), lower(e[3]))
             ELSE In(Text(e[3]), lower(e[3]) \/ (right /\ same(e[3])))
                  \o op \o In(Text(e[4]), lower(e[4]) \/ (~right /\ same(e[4])))

-----------------------------------------------------------------------------
(* What arithm_expand() does with the text. *)

PostIncDec == {"x++"}
IsUnary(op) == op \in {"x++", "++x", "u-", "!"}
Prec(op) ==
    CASE op = "x++" -> 20
      [] op \in {"++x", "u-", "!"} -> 19
      [] op = "**" -> 18
      [] op \in {"*", "/"} -> 17
      [] op = "-"  -> 16
      [] op = "<"  -> 14
      [] op = "==" -> 13
      [] op = "&&" -> 9
      [] op = "||" -> 8
      [] op \in {"=", "/="} -> 7
      [] op \in {"(", ")", ",", "start"} -> 0
RightAssoc(op) == op \in {"++x", "u-", "!", "**", "=", "/="}

\* The expansion in progress: both stacks, the variables, the error flag and
\* the token before (an operator, "start", or "operand" for lastop == NULL).
Shunting(env) ==
    [ops |-> <<>>, nums |-> <<>>, env |-> env, error |-> "", last |-> "start"]
Raise(s, why) == [s EXCEPT !.error = why]
PushOp(s, op) ==
    IF Len(s.ops) >= MAXOPSTACK THEN Raise(s, "overflow")
    ELSE [s EXCEPT !.ops = Append(@, op)]
PushNum(s, n) ==
    IF Len(s.nums) >= MAXOPSTACK THEN Raise(s, "overflow")
    ELSE [s EXCEPT !.nums = Append(@, n)]

\* An assignment changes a variable, whatever went wrong before it.
AssignVal(s, item, val) ==
    IF item[1] # "var" THEN Raise(s, "not a variable")
    ELSE [PushNum(s, Num(val)) EXCEPT !.env[item[2]] = Num(val)]

\* The error flag after a division by zero, whose result is 0.
Divided(op, divisor, s) ==
    IF Divides(op) /\ divisor = 0 THEN Raise(s, "division by zero") ELSE s

RECURSIVE Expand(_, _, _)
Stored(r) == [val |-> IF r.error = "" THEN r.val[2] ELSE 0, env |-> r.env, error |-> r.error]
\* The value of an item of the operand stack, and the variables after it: the
\* expression a variable holds is expanded on stacks of its own.
LongValue(item, env) ==
    IF item[1] = "num" THEN Answer(item[2], env)
    ELSE IF env[item[2]][1] = "num" THEN Answer(env[item[2]][2], env)
    ELSE Stored(Expand(Text(env[item[2]]), env, FALSE))

\* The operator on top of the stack and the operands it needs are taken off.
Pop(s, need) ==
    [s EXCEPT !.ops = Front(@), !.nums = SubSeq(@, 1, Len(@) - need)]
Sided(op, v) == Num(IF op = "u-" THEN -v ELSE Truth(v = 0))
EvalAssign(op, s, a1, v1, v2) ==
    Divided(op, v2, AssignVal(s, a1, Combined(op, v1, v2)))

\* op is applied to its operands a1 and a2, or to a2 alone, which have the values
\* v1 and v2; s is the expansion without them.
Applied(s, op, a1, a2, v1, v2) ==
    LET after == [s EXCEPT !.env = v2.env]
    IN  IF v2.error # "" THEN Raise(s, v2.error)
        ELSE CASE op \in {"u-", "!"} -> PushNum(after, Sided(op, v2.val))
               [] op = "++x" -> AssignVal(after, a2, v2.val + 1)
               [] op = "x++" ->
                    IF a2[1] # "var" THEN Raise(after, "not a variable")
                    ELSE [PushNum(after, Num(v2.val)) EXCEPT !.env[a2[2]] = Num(v2.val + 1)]
               [] op \in Assigning -> EvalAssign(op, after, a1, v1.val, v2.val)
               [] OTHER ->
                    IF v1.error # "" THEN Raise(s, v1.error)
                    ELSE Divided(op, v2.val, PushNum(after, Num(Combined(op, v1.val, v2.val))))

\* The operator on top of the stack is applied to the operands on top of theirs.
Apply(s) ==
    LET op   == Last(s.ops)
        need == IF IsUnary(op) THEN 1 ELSE 2
        n    == Len(s.nums)
    IN  IF n < need THEN Raise(s, "operand expected")
        ELSE Applied(Pop(s, need), op, s.nums[n - 1], s.nums[n],
                     LongValue(s.nums[n - 1], s.env), LongValue(s.nums[n], s.env))

\* A mutation: every operator is taken for left-associative.
PopsForAlways(s, op) ==
    s.ops # <<>> /\ Last(s.ops) # "(" /\ Prec(op) <= Prec(Last(s.ops))

\* Operators are applied while one is on top that binds at least as tight.
PopsFor(s, op) ==
    /\ s.ops # <<>>
    /\ IF op \in {")", ","} THEN Last(s.ops) # "("
       ELSE IF RightAssoc(op) THEN Prec(op) < Prec(Last(s.ops))
       ELSE Prec(op) <= Prec(Last(s.ops))

RECURSIVE PopFor(_, _)
PopFor(s, op) ==
    IF s.error # "" \/ ~PopsFor(s, op) THEN s ELSE PopFor(Apply(s), op)

Shunted(p, op) ==
    IF p.error # "" \/ op = "," THEN p
    ELSE IF op # ")" THEN PushOp(p, op)
    ELSE IF p.ops = <<>> THEN Raise(p, "no matching (")
    ELSE [p EXCEPT !.ops = Front(@)]
ShuntOp(s, op) == Shunted(IF op = "(" THEN s ELSE PopFor(s, op), op)

\* ++ and -- after a character of a name are taken for post-operators, but not
\* as the second character of the text.
IsPostOp(text, i, tight) ==
    /\ i > 1 /\ text[i - 1][1] # "op"
    /\ ~(i = 2 /\ tight)

\* The operator a sign is, given what is before it; "" is an error.
Meant(sign, last, post) ==
    LET prefixed == last \notin {"operand", ")"} \cup PostIncDec
    IN  IF sign = "++" THEN IF post THEN "x++" ELSE "++x"
        ELSE IF ~prefixed \/ sign \in {"(", "!"} THEN sign
        ELSE IF sign = "-" THEN "u-"
        ELSE ""

\* A literal 0 must be followed by a blank or an arithmetic operator, and the
\* number goes through an int.
NumberFails(text, i, tight) ==
    /\ tight /\ text[i] = Num(0) /\ i < Len(text)
    /\ text[i + 1] \notin {<<"op", o>> : o \in {"++", "-", "*", "**", "/", "/=", ","}}
DiscardComma(s) ==
    IF s.last # "," THEN s
    ELSE IF s.nums = <<>> THEN Raise(s, "operand expected")
    ELSE [s EXCEPT !.nums = Front(@)]
Operand(s, text, i, tight) ==
    IF text[i][1] = "num" /\ NumberFails(text, i, tight) THEN Raise(s, "number")
    ELSE LET d == DiscardComma(s)
             n == IF text[i][1] = "num" THEN Num(Signed(text[i][2])) ELSE text[i]
         IN  IF d.error # "" THEN d ELSE [PushNum(d, n) EXCEPT !.last = "operand"]
Operator(s, text, i, tight) ==
    LET op == Meant(text[i][2], s.last, IsPostOp(text, i, tight))
    IN  IF op = "" THEN Raise(s, "illegal use of binary operator")
        ELSE [ShuntOp(s, op) EXCEPT !.last = op]

RECURSIVE Tokens(_, _, _, _)
Tokens(s, text, i, tight) ==
    IF s.error # "" \/ i > Len(text) THEN s
    ELSE Tokens(IF text[i][1] = "op" THEN Operator(s, text, i, tight)
                ELSE Operand(s, text, i, tight), text, i + 1, tight)

RECURSIVE Finish(_)
Finish(s) ==
    IF s.error # "" \/ s.ops = <<>> THEN s
    ELSE IF Last(s.ops) = "(" THEN Raise(s, "missing )")
    ELSE Finish(Apply(s))

\* The result is one operand; a variable's text, not its value, if it is one.
Left(s) ==
    LET r == IF s.nums = <<>> THEN Num(0) ELSE s.nums[1]
    IN  [error |-> IF s.error = "" /\ Len(s.nums) # 1 THEN "elements" ELSE s.error,
         env |-> s.env, val |-> IF r[1] = "num" THEN r ELSE s.env[r[2]]]
Expand(text, env, tight) == Left(Finish(Tokens(Shunting(env), text, 1, tight)))
-----------------------------------------------------------------------------
(* What the property needs. *)

RECURSIVE Within(_)
\* The expression and those it is built from.
Within(e) ==
    {e} \cup (CASE e[1] \in {"num", "var"} -> {}
                [] e[1] = "un"  -> Within(e[3])
                [] OTHER -> Within(e[3]) \cup Within(e[4]))
Effects == Assigning \cup {"++x", "x++"}
Uses(e, ops) == \E t \in Within(e) : t[1] \in {"un", "bin"} /\ t[2] \in ops

RECURSIVE IsPointer(_)
\* The expression leaves a pointer to a variable on the stack.
IsPointer(e) == e[1] = "var" \/ (e[1] = "bin" /\ e[2] = "," /\ IsPointer(e[4]))

\* What users are assumed not to write.
Careless(e, tight) ==
    LET bins(op) == {t \in Within(e) : t[1] = "bin" /\ t[2] = op}
        binary   == {t \in Within(e) : t[1] = "bin"}
    IN  \/ "lateRead" \notin Sloppy
           /\ \E t \in binary : t[2] \notin {"=", ","} /\ IsPointer(t[3]) /\ Uses(t[4], Effects)
        \/ "andOr" \notin Sloppy
           /\ \E t \in bins("&&") \cup bins("||") :
                  Uses(t[4], Effects \cup {"/"})
        \/ "prefix" \notin Sloppy
           /\ \E t \in bins(",") : t[4] \in bins(",") \/ Text(t[4])[1][1] = "op"
        \/ "divAssign" \notin Sloppy
           /\ bins("/=") # {} /\ Value(e, Start).error # ""
        \/ "stored" \notin Sloppy
           /\ IsPointer(e) /\ Value(e, Start).error = "" /\ Var("e") \in Within(e)

\* The expansion has the value and the effects the expression has.
AsWritten(e, result) ==
    LET v == Value(e, Start)
    IN  /\ (result.error = "") <=> (v.error = "")
        /\ result.error = "" => result.val = Num(v.val)
        /\ result.env = v.env
=============================================================================
