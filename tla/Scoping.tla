------------------------------ MODULE Scoping ------------------------------
(***************************************************************************)
(* Variables as the manual describes them: dynamic scoping.  Every         *)
(* function call has a scope of its own with its parameters and the names  *)
(* declared local in it; a name that is not local to a running function is *)
(* the shell's.  SymtabStack is shown to implement this.                   *)
(***************************************************************************)
EXTENDS Integers, Sequences

CONSTANTS
    Names,      \* variables
    Values,     \* what they may hold
    Null,       \* the value of a variable that is not set
    Param       \* $1, or any other positional parameter

VARIABLE scopes \* scopes[1] is the shell's, the others those of running functions

Binding(v, ro) == [val |-> v, ro |-> ro]

Init == scopes = <<[x \in Names \cup {Param} |-> Binding(Null, FALSE)]>>

\* The scope that has x: the innermost one that declares it.
Home(x) == CHOOSE i \in DOMAIN scopes :
              /\ x \in DOMAIN scopes[i]
              /\ \A j \in (i+1)..Len(scopes) : x \notin DOMAIN scopes[j]

Value(x) == scopes[Home(x)][x].val

\* The scope f with the binding b of x.
With(f, x, b) == [y \in DOMAIN f \cup {x} |-> IF y = x THEN b ELSE f[y]]

Bind(i, x, b) == scopes' = [scopes EXCEPT ![i] = With(@, x, b)]

\* A readonly variable stays as it is.
Set(i, x, v) ==
    LET old == IF x \in DOMAIN scopes[i] THEN scopes[i][x] ELSE Binding(Null, FALSE)
    IN  Bind(i, x, IF old.ro THEN old ELSE Binding(v, FALSE))

AssignIfAllowed(x, v) == Set(Home(x), x, v)

AssignGlobal(x, v) == Set(1, x, v)

\* local x keeps the value of a variable that is already local.
Local(x, v) ==
    LET top == Len(scopes)
    IN  /\ top > 1
        /\ Set(top, x, IF v = Null /\ x \in DOMAIN scopes[top] THEN scopes[top][x].val ELSE v)

ReadOnly(x) == Bind(Home(x), x, Binding(Value(x), TRUE))

Unset(x) == Set(Home(x), x, Null)

\* The scope of a call, with the parameter a.
Params(a) == [x \in {Param} |-> Binding(a, TRUE)]

Call(a) == scopes' = Append(scopes, Params(a))

\* An assignment before the name of a function outlives the call.
CallWith(x, v, a) ==
    scopes' = Append([scopes EXCEPT ![Home(x)][x] = IF @.ro THEN @ ELSE Binding(v, FALSE)],
                     Params(a))

Return == Len(scopes) > 1 /\ scopes' = SubSeq(scopes, 1, Len(scopes) - 1)

Next ==
    \/ \E x \in Names, v \in Values : AssignIfAllowed(x, v) \/ AssignGlobal(x, v)
    \/ \E x \in Names, v \in Values \cup {Null} : Local(x, v)
    \/ \E x \in Names : ReadOnly(x) \/ Unset(x)
    \/ \E a \in Values \cup {Null} : Call(a)
    \/ \E x \in Names, v \in Values, a \in Values : CallWith(x, v, a)
    \/ Return

Spec == Init /\ [][Next]_scopes
=============================================================================
