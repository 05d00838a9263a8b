---------------------------- MODULE SymtabStack ----------------------------
(***************************************************************************)
(* The stack of symbol tables (symtab/symtab_hash.c) as do_simple_command()*)
(* and the builtins use it.  Every simple command pushes a table of its    *)
(* own; when it is done the table is merged into the one below, entry by   *)
(* entry (builtins, functions, mere assignments), or thrown away (forked   *)
(* commands).  The table of a function call or of an eval stays while the  *)
(* commands in it push theirs.  Copies of one variable may thus lie in     *)
(* several tables; the topmost is the one that is found.                   *)
(***************************************************************************)
EXTENDS Integers, Sequences, FiniteSets, TLC

CONSTANTS
    Names, Values, Null, Param,
    Args,          \* the values that are passed to functions
    Risky,         \* what programs do that goes wrong, see Risks
    MaxTables,     \* bound: nested calls and evals
    MaxLowered     \* bound: how far symtab_level gets behind the stack

Risks ==
    {"unsetCopy",       \* unset of a variable the running functions have copied
     "localCopied",     \* local x after x=v in the same function, or in x=v f
     "declareCopied",   \* declare -g of such a variable, or of a local one
     "localInEval",     \* local or declare in an eval
     "lowLevel",        \* local or declare in a function that earlier ones made look like the shell
     "failedExpansion", \* a command with a word that cannot be expanded
     "noArguments",     \* a function called without arguments
     "wordAssigns"}     \* ${x:=v} in the words of an external command

VARIABLES
    symtab_stack,  \* the tables: partial functions from names to entries
    owners,        \* whose they are: "shell", "function", "eval", or "leaked": nobody's
    symtab_level,  \* the level of the table pushed last
    levels,        \* the tables' levels
    beat           \* flips with every command: one without effect is a step, too

vars == <<symtab_stack, owners, symtab_level, levels, beat>>

Entry(v, l, r) == [val |-> v, local |-> l, readonly |-> r]

Init ==
    /\ symtab_stack = <<<<>>>> /\ owners = <<"shell">>
    /\ symtab_level = 0 /\ levels = <<0>>
    /\ beat = 0

\* get_symtab_entry(): the topmost table that has x, or 0.
Found(tabs, x) ==
    LET at == {i \in DOMAIN tabs : x \in DOMAIN tabs[i]}
    IN  IF at = {} THEN 0 ELSE CHOOSE i \in at : \A j \in at : j <= i

\* f with e for x.
With(f, x, e) == [y \in DOMAIN f \cup {x} |-> IF y = x THEN e ELSE f[y]]

Put(tabs, i, x, e) == [tabs EXCEPT ![i] = With(@, x, e)]

\* symtab_stack_push(), symtab_stack_pop()
Push(tabs) == Append(tabs, <<>>)
Pop(tabs)  == SubSeq(tabs, 1, Len(tabs) - 1)

\* do_set() without SET_FLAG_GLOBAL: the entry that is found, or a new one in
\* the local table; a readonly entry stays as it is.
DoSet(tabs, x, v, local, readonly, forceNew) ==
    LET i   == IF forceNew THEN (IF x \in DOMAIN tabs[Len(tabs)] THEN Len(tabs) ELSE 0)
                           ELSE Found(tabs, x)
        at  == IF i = 0 THEN Len(tabs) ELSE i
        old == IF i = 0 THEN Entry(Null, FALSE, FALSE) ELSE tabs[i][x]
    IN  IF old.readonly THEN tabs
        ELSE Put(tabs, at, x, Entry(IF v = Null THEN old.val ELSE v,
                                    old.local \/ local, readonly))

MergedAll(t, u) == u @@ t

\* merge_global(): into the caller's table, which the pop has made the local one.
Merged(t, u) ==
    LET up == {x \in DOMAIN u : ~u[x].local}
        Old(x) == IF x \in DOMAIN t THEN t[x] ELSE Entry(Null, FALSE, FALSE)
    IN  [x \in DOMAIN t \cup up |->
            IF x \notin up THEN t[x]
            ELSE Entry(u[x].val, Old(x).local, u[x].readonly \/ Old(x).readonly)]

PopMerge(tabs) ==
    LET n == Len(tabs)
    IN  [Pop(tabs) EXCEPT ![n-1] = Merged(@, tabs[n])]

\* x=v before the command word: the variable is copied into the command's table.
PrefixSet(tabs, x, v) ==
    LET i == Found(tabs, x)
        n == Len(tabs)
        e == IF i = 0 THEN Entry(Null, FALSE, FALSE)
             ELSE [tabs[i][x] EXCEPT !.local = (i = n) /\ @]
    IN  DoSet(Put(tabs, n, x, e), x, v, FALSE, FALSE, FALSE)

Copied(x) == Cardinality({i \in DOMAIN symtab_stack : x \in DOMAIN symtab_stack[i]}) > 1

\* The last command or call that has not ended.
Running == CHOOSE i \in DOMAIN owners :
              owners[i] # "leaked" /\ \A j \in i+1..Len(owners) : owners[j] = "leaked"

\* A command is done: its table is gone, and symtab_level what it was.
Becomes(tabs) ==
    /\ symtab_stack' = tabs /\ beat' = 1 - beat
    /\ UNCHANGED <<owners, symtab_level, levels>>

\* A command that has put its own table back with symtab_stack_add(), which does
\* not raise symtab_level again.
Lowers(tabs) ==
    /\ Len(symtab_stack) - symtab_level <= MaxLowered
    /\ symtab_stack' = tabs /\ beat' = 1 - beat
    /\ symtab_level' = symtab_level - 1
    /\ UNCHANGED <<owners, levels>>

Entered(k, tabs) ==
    /\ Len(owners) < MaxTables
    /\ owners' = Append(owners, k)
    /\ symtab_stack' = tabs /\ beat' = 1 - beat
    /\ symtab_level' = symtab_level + 1 /\ levels' = Append(levels, symtab_level + 1)

\* Whether the words of a command can be expanded.
Expands == IF "failedExpansion" \in Risky THEN BOOLEAN ELSE {TRUE}
-----------------------------------------------------------------------------
\* x=v alone, or before a builtin.
Assignment(x, v) == Becomes(PopMerge(PrefixSet(Push(symtab_stack), x, v)))

\* x=v before an external command: only the child sees it. When a word of the
\* command cannot be expanded its table stays on the stack.
External(x, v) ==
    LET tabs == PrefixSet(Push(symtab_stack), x, v)
    IN  \E expands \in Expands :
            IF expands THEN Becomes(Pop(tabs)) ELSE Entered("leaked", tabs)

\* read, let, getopts and ${x:=v} set the entry they find.
BuiltinSet(x, v) ==
    Becomes(PopMerge(DoSet(Push(symtab_stack), x, v, FALSE, FALSE, FALSE)))

\* ${x:=v}, when x is not set, in the words of an external command.
WordSet(x, v) ==
    /\ "wordAssigns" \in Risky \/ Found(symtab_stack, x) # 0
    /\ Becomes(Pop(DoSet(Push(symtab_stack), x, v, FALSE, FALSE, FALSE)))

\* The variable of a for loop; no command table is pushed for the loop.
ForLoop(x, v) == Becomes(DoSet(symtab_stack, x, v, FALSE, FALSE, FALSE))

\* do_declare() after its caller has popped its own table to reach the one below.
Declares(x, v) ==
    /\ owners[Running] = "eval" => "localInEval" \in Risky
    /\ LET t == symtab_stack[Len(symtab_stack)]
       IN  "localCopied" \in Risky \/ (x \in DOMAIN t => t[x].local)
    /\ Lowers(PopMerge(Push(DoSet(symtab_stack, x, v, TRUE, FALSE, TRUE))))

\* local is refused where that table's level is the shell's.
Local(x, v) ==
    IF levels[Len(levels)] # 0 THEN Declares(x, v)
    ELSE /\ owners[Running] = "shell" \/ "lowLevel" \in Risky
         /\ Lowers(PopMerge(Push(symtab_stack)))

\* declare -g: the global entry; an entry of the local table moves there first.
\* The command pops its own table if that is above level 1.
DeclareGlobal(x, v) ==
    LET n    == Len(symtab_stack)
        pops == symtab_level > 0
        here == pops /\ x \in DOMAIN symtab_stack[n]
        old  == IF x \in DOMAIN symtab_stack[1] THEN symtab_stack[1][x] ELSE Entry(Null, FALSE, FALSE)
        val  == IF here THEN symtab_stack[n][x].val ELSE old.val
        rest == IF here THEN [symtab_stack EXCEPT ![n] = [y \in DOMAIN @ \ {x} |-> @[y]]]
                        ELSE symtab_stack
        tabs == Put(rest, 1, x, IF old.readonly THEN [old EXCEPT !.val = val]
                                ELSE [old EXCEPT !.val = v, !.local = @ \/ pops])
    IN  /\ "declareCopied" \in Risky \/ \A i \in 2..n : x \notin DOMAIN symtab_stack[i]
        /\ IF pops THEN Lowers(tabs) ELSE Becomes(tabs)

\* declare: as local if it pops its own table, as declare -g if it does not.
Declare(x, v) ==
    IF symtab_level > 0 THEN Declares(x, v)
    ELSE /\ owners[Running] = "shell" \/ "lowLevel" \in Risky
         /\ DeclareGlobal(x, v)

\* readonly x
ReadOnly(x) ==
    Becomes(PopMerge(DoSet(Push(symtab_stack), x, Null, FALSE, TRUE, FALSE)))

\* unset x: a local entry stays, any other is removed from its table.
Unset(x) ==
    LET i == Found(symtab_stack, x)
        e == symtab_stack[i][x]
    IN  /\ i # 0 /\ ~e.readonly
        /\ "unsetCopy" \in Risky \/ e.local \/ ~Copied(x)
        /\ IF e.local THEN Becomes(Put(symtab_stack, i, x, Entry(Null, TRUE, FALSE)))
           ELSE Becomes([symtab_stack EXCEPT ![i] = [y \in DOMAIN @ \ {x} |-> @[y]]])

WithParam(tabs, a) == IF a = Null THEN tabs ELSE Put(tabs, Len(tabs), Param, Entry(a, TRUE, TRUE))

\* A function is called: its command's table also holds its parameters.
Call(a) ==
    /\ a = Null => "noArguments" \in Risky
    /\ Entered("function", WithParam(Push(symtab_stack), a))

\* The same with an assignment before the function's name.
CallWith(x, v, a) ==
    Entered("function", WithParam(PrefixSet(Push(symtab_stack), x, v), a))

Eval == Entered("eval", Push(symtab_stack))

\* A function or an eval ends: the table on top goes the way of every builtin's.
\* It is its own unless another lies on it, which is merged into its own instead.
Return ==
    /\ Running > 1
    /\ owners' = IF Running = Len(owners) THEN Pop(owners)
                 ELSE [Pop(owners) EXCEPT ![Running] = "leaked"]
    /\ symtab_stack' = PopMerge(symtab_stack) /\ beat' = 1 - beat
    /\ symtab_level' = symtab_level - 1 /\ levels' = Pop(levels)

Next ==
    \/ \E x \in Names, v \in Values :
          \/ Assignment(x, v) \/ External(x, v) \/ BuiltinSet(x, v) \/ WordSet(x, v)
          \/ ForLoop(x, v) \/ Declare(x, v) \/ DeclareGlobal(x, v)
          \/ \E a \in Args : CallWith(x, v, a)
    \/ \E x \in Names, v \in Values \cup {Null} : Local(x, v)
    \/ \E x \in Names : ReadOnly(x) \/ Unset(x)
    \/ \E a \in Args \cup {Null} : Call(a)
    \/ Eval \/ Return

Spec == Init /\ [][Next]_vars
-----------------------------------------------------------------------------
\* A copy of x in table k has been made of the one in table j, or would go there.
Copies(j, k, x) ==
    /\ x \in DOMAIN symtab_stack[j] \cap DOMAIN symtab_stack[k]
    /\ \A m \in j+1..k : x \in DOMAIN symtab_stack[m] => ~symtab_stack[m][x].local

\* Every table but the shell's is the one of a call in progress; only those of
\* functions have local entries (what local in a function declares ends with it), but
\* for those declare -g leaves in the shell's; and a copy of a readonly variable is
\* readonly (backend.c:1650, symtab_hash.c:569).
TypeOK ==
    /\ Len(symtab_stack) = Len(owners) /\ owners[1] = "shell"
    /\ \A i \in 2..Len(owners) : owners[i] \in {"function", "eval"}
    /\ symtab_level \in Int /\ levels \in Seq(Int) /\ Len(levels) = Len(owners) /\ levels[1] = 0
    /\ \A i \in DOMAIN symtab_stack : \A x \in DOMAIN symtab_stack[i] :
          /\ x \in Names \cup {Param}
          /\ symtab_stack[i][x].val \in Values \cup {Null}
          /\ i > 1 /\ symtab_stack[i][x].local => owners[i] = "function"
          /\ symtab_stack[i][x].readonly =>
                \A k \in i+1..Len(owners) : Copies(i, k, x) => symtab_stack[k][x].readonly

Functions == {i \in DOMAIN owners : owners[i] = "function"}

\* The value that the binding of x in table i has now: the topmost copy that
\* will be merged into it.
Current(i, x) ==
    LET copies == {j \in i..Len(symtab_stack) :
                      /\ x \in DOMAIN symtab_stack[j]
                      /\ \A k \in (i+1)..j : x \in DOMAIN symtab_stack[k] => ~symtab_stack[k][x].local}
        j == CHOOSE j \in copies : \A k \in copies : k <= j
    IN  IF copies = {} THEN [val |-> Null, ro |-> FALSE]
        ELSE [val |-> symtab_stack[j][x].val, ro |-> symtab_stack[j][x].readonly]

\* The n-th function in progress, and what its scope holds.
NthFunction(n) == CHOOSE i \in Functions : Cardinality({j \in Functions : j <= i}) = n

ScopeOf(i) ==
    [x \in {y \in DOMAIN symtab_stack[i] : symtab_stack[i][y].local} |-> Current(i, x)]

Scopes == <<[x \in Names \cup {Param} |-> Current(1, x)]>>
              \o [n \in 1..Cardinality(Functions) |-> ScopeOf(NthFunction(n))]

S == INSTANCE Scoping WITH scopes <- Scopes

Same == UNCHANGED Scopes

StepIsScoped ==
    /\ \A x \in Names, v \in Values :
        /\ Assignment(x, v) \/ BuiltinSet(x, v) \/ WordSet(x, v) \/ ForLoop(x, v)
              => S!AssignIfAllowed(x, v)
        /\ External(x, v) => Same
        /\ Declare(x, v) => IF owners[Running] = "shell" THEN S!AssignGlobal(x, v) ELSE S!Local(x, v)
        /\ DeclareGlobal(x, v) => S!AssignGlobal(x, v)
        /\ \A a \in Args : CallWith(x, v, a) => S!CallWith(x, v, a)
    /\ \A x \in Names :
        /\ \A v \in Values \cup {Null} :
              Local(x, v) => IF owners[Running] = "shell" THEN Same ELSE S!Local(x, v)
        /\ ReadOnly(x) => S!ReadOnly(x)
        /\ Unset(x) => S!Unset(x)
    /\ \A a \in Args \cup {Null} : Call(a) => S!Call(a)
    /\ Eval => Same
    /\ Return => IF owners[Running] = "eval" THEN Same ELSE S!Return

\* Whatever copies lie in the tables, every command changes the variables as
\* dynamic scoping says: what is declared in a function ends with it, all its
\* other assignments reach the caller, and readonly is for good.
Scoped == S!Init /\ [][StepIsScoped]_vars
=============================================================================
