---------------------------- MODULE Algorithms ----------------------------
(***************************************************************************)
(* The computations that depend on their input alone: a behaviour chooses  *)
(* one of them, `part', and a piece of its input, then the whole input,    *)
(* and has the result the shell computes.  What the inputs are and what    *)
(* the result should be is in the module of the part.                      *)
(***************************************************************************)
EXTENDS Integers, Sequences, SequencesExt, FiniteSets, TLC

CONSTANTS
    Numbers, IntBits, MAXOPSTACK, Sloppy,   \* see Arith
    Strings, MAXTESTSTACK, Terse,           \* see TestExpr
    Loose, WordParts, WordEnds, Envs,       \* see Words: first parts, rests
    Cramped,                                \* see Parser
    Offhand, Spellings,                     \* see Reader
    Eager, Histories, Modifiers, Pieces,    \* see HistExpand
    MAX_ALIASES, Fickle, AliasCalls, AliasLines   \* see Aliases

VARIABLES
    part,
    input,        \* the input, or the piece of it that is chosen first
    output        \* << >>, or the result alone

A == INSTANCE Arith
T == INSTANCE TestExpr
W == INSTANCE Words
P == INSTANCE Parser
R == INSTANCE Reader
H == INSTANCE HistExpand
N == INSTANCE Aliases

vars == <<part, input, output>>
-----------------------------------------------------------------------------
\* Lists of commands with one command, two of them, and two levels of those.
a == P!Simple(<<"a">>)
b == P!Simple(<<"b", "fi">>)
ShortLists == {<<P!Fg(a)>>, <<P!Bg(b)>>, <<P!Fg(b), P!Fg(a)>>, <<P!Bg(a), P!Fg(b)>>}
Conditions == {<<P!Fg(a)>>}

\* Commands with lists from L in them and, next to an operator, commands from C and D.
Compound(L, C, D) ==
    {P!Bang(c) : c \in C} \cup {P!Join(op, c, d) : op \in {"&&", "||"}, c \in C, d \in D}
    \cup {P!Pipe(<<c, d>>) : c \in C \cup {P!Both(e) : e \in C}, d \in D}
    \cup {P!Group(l) : l \in L} \cup {P!Subshell(l) : l \in L}
    \cup {P!If(t, l, e) : t \in Conditions, l \in L, e \in L \cup {<<>>}}
    \cup {P!While(t, l) : t \in Conditions, l \in L}
    \cup {P!For(w, l) : w \in {<<"a">>, <<"a", "do">>, <<"y=1">>}, l \in L}
    \cup {P!Case(<<<<<<"a", "b">>, l, f>>>>) : l \in L \cup {<<>>}, f \in P!Falls}
    \cup {P!Case(<<<<<<"a">>, l, f>>, <<<<"b">>, t, ";;">>>>) :
             l \in L, f \in P!Falls, t \in Conditions}
    \cup {P!Function(P!Group(l)) : l \in L}
Seeds ==
    LET one == Compound(ShortLists, {a}, {b})
    IN  one \cup {P!If(<<P!Fg(b)>>, <<P!Fg(a)>>, <<P!Fg(c)>>) : c \in {d \in one : d[1] = "if"}}
ListsOf(c) == {<<P!Fg(c)>>, <<P!Bg(c)>>, <<P!Fg(a), P!Fg(c)>>, <<P!Bg(c), P!Fg(a)>>}
\* Operators do not bind commands that are built with operators.
CommandLists(c) ==
    LET operands == IF c[1] \in {"&&", "||", "|", "!"} THEN {} ELSE {c, a}
    IN  ListsOf(c) \cup UNION {ListsOf(d) : d \in Compound(ListsOf(c), operands, {a})}

\* The commands the history has, and references to them.
Events == {<<"last">>, <<"back", 2>>, <<"nth", 1>>, <<"nth", 2>>,
           <<"starts", <<"l", "s">>>>, <<"starts", <<"x">>>>, <<"has", <<"/">>>>}
\* Lines with the reference r alone and with text around it.
Lines(r) ==
    {<<r>>, <<r, H!Lit(<<" ">>), r>>, <<r, H!Lit(<<" ">>), H!Ref(<<"last">>, <<"$">>, <<>>)>>}
    \cup {<<p, r>> : p \in {q \in Pieces : q[1] # "lit" \/ q[2] # <<" ", "!">>}}
    \cup {<<r, p>> : p \in {q \in Pieces : q[1] = "lit" /\ q[2][1] = " "}}
    \cup {<<p>> : p \in Pieces}
-----------------------------------------------------------------------------
Init ==
    /\ output = <<>>
    /\ \/ part = "arithmetic" /\ input \in A!Small
       \/ part = "test" /\ input \in T!Tests \cup T!Over(T!Tests, T!Tests)
       \/ part = "history" /\ input \in Events \X Histories \X H!Designators
       \/ part = "word" /\ input \in WordParts \X Envs
       \/ part = "script" /\ input \in Seeds
       \/ part = "alias" /\ input \in AliasCalls
       \/ part = "lines" /\ input \in Seeds \cup {b}

ArithmExpand ==
    /\ part = "arithmetic"
    /\ \E e \in {input} \cup A!Over({input}, A!Small),
          tight \in IF "tight" \in Sloppy THEN BOOLEAN ELSE {FALSE} :
           /\ ~A!Careless(e, tight)
           /\ input' = e
           /\ output' = <<A!Expand(A!Text(e), A!Start, tight)>>

TestBuiltin ==
    /\ part = "test"
    /\ \E c \in {input} \cup T!Over({input}, T!Tests \cup T!Over(T!Tests, T!Tests)) :
           /\ ~T!Unclear(c)
           /\ input' = c
           /\ output' = <<T!TestBuiltin(T!Args(c))>>

WordExpand ==
    /\ part = "word"
    /\ \E end \in WordEnds :
           LET word == <<input[1]>> \o end
               env  == input[2]
           IN  /\ ~W!Careless(word, env)
               /\ input' = <<word, env>>
               /\ output' = <<W!WordExpand(word, env)>>

ParseScript ==
    /\ part = "script"
    /\ \E l \in CommandLists(input), lines \in BOOLEAN, tight \in BOOLEAN :
           /\ ~P!Careless(l, lines, tight)
           /\ input' = l
           /\ output' = <<P!Parse(P!Script(l, lines, tight))>>

\* Commands in others with all words plain, and one level of them with every spelling of b.
TypedLists(c, w) ==
    {<<P!Fg(c)>>, <<P!Bg(c), P!Fg(a)>>}
    \cup IF Len(w) = 1 THEN {<<P!Fg(d)>> : d \in Compound({<<P!Fg(c)>>}, {}, {})} ELSE {}

\* The command may be interrupted before its last line and typed again.
ReadLines ==
    /\ part = "lines"
    /\ \E w \in Spellings, interrupted, lines, tight \in BOOLEAN : \E l \in TypedLists(input, w) :
           LET typed == R!Typed(l, lines, tight, w)
           IN  /\ ~R!Careless(l, lines, tight, w, interrupted)
               /\ input' = <<l, lines, tight, w, interrupted>>
               /\ output' = <<R!Read(IF interrupted THEN R!Begun(typed) ELSE <<>>, FlattenSeq(typed))>>

HistExpand ==
    /\ part = "history"
    /\ \E ms \in Modifiers :
           LET env == input[2]
               r   == H!Ref(input[1], input[3], ms)
           IN  \E l \in IF Len(ms) < 2 THEN Lines(r) ELSE {<<r>>} :
                   /\ ~H!Careless(l, env)
                   /\ input' = <<l, env>>
                   /\ output' = <<H!HistExpand(H!Text(l), env)>>

AliasSubstitution ==
    /\ part = "alias"
    /\ \E l \in AliasLines :
           /\ ~N!Careless(input, l)
           /\ input' = <<input, l>>
           /\ output' = <<N!Run(input, l)>>

Next ==
    /\ output = <<>>
    /\ UNCHANGED part
    /\ \/ ArithmExpand \/ TestBuiltin \/ WordExpand \/ ParseScript
       \/ ReadLines \/ HistExpand \/ AliasSubstitution

Spec == Init /\ [][Next]_vars
-----------------------------------------------------------------------------
Computed(p) == part = p /\ output # <<>>

\* An arithmetic expansion has the value and the side effects its expression has
\* by the levels of the manual's list, or fails where the expression does.
AsWritten == Computed("arithmetic") => A!AsWritten(input, output[1])

\* test and [[ return what their operators say of their operands, nested or not.
AsDocumented == Computed("test") => T!AsDocumented(input, output[1])

\* A word expands to the fields it has when each of its parts is expanded as it
\* is quoted, and sets the variables ${v:=w} does.
AsMeant == Computed("word") => W!AsMeant(input[1], input[2], output[1])

\* What the shell runs is the tree of commands the script was written from; typed at
\* the prompt, line by line, it is handed over when and only when it is whole.
AsStructured ==
    /\ Computed("script") => P!AsStructured(input, output[1])
    /\ Computed("lines") => R!HandedWhole(input[1], input[2], input[3], input[4], output[1])

\* A line that refers to earlier commands becomes the line the references stand
\* for, or is refused where one stands for nothing, and no variable's value changes;
\* a line with aliases runs the commands that the latest definitions make of it.
AsReferred ==
    /\ Computed("history") => H!AsReferred(input[1], input[2], output[1])
    /\ Computed("alias") => N!AsAliased(input[1], input[2], output[1])
=============================================================================
