-------------------------- MODULE Scoping_proofs --------------------------
(***************************************************************************)
(* Proof that the symbol tables (symtab/symtab_hash.c) with their copies   *)
(* scope the shell's variables dynamically (Scoped), for any names, values *)
(* and arguments, and any depth of nesting, if no command has one of the   *)
(* habits in Risky.                                                        *)
(***************************************************************************)
EXTENDS ShellState, SequenceTheorems, FiniteSetTheorems, WellFoundedInduction, TLAPS

LEMMA Least == ASSUME NEW S, S \subseteq Nat, S # {} PROVE \E m \in S : \A k \in S : m <= k
<1>1. PICK m \in S : \A k \in S : ~(<<k, m>> \in OpToRel(<, Nat))
  BY WFMin, NatLessThanWellFounded
<1>2. \A k \in S : k \in Nat /\ m \in Nat /\ ~(k < m)
  BY <1>1 DEF OpToRel
<1>3. QED
  BY <1>2

(***************************************************************************)
(* The symbol tables (symtab/symtab_hash.c) and dynamic scoping.           *)
(***************************************************************************)

All == Names \cup {Param}
Entries == [val : Values \cup {Null}, local : BOOLEAN, readonly : BOOLEAN]
Table == UNION {[D -> Entries] : D \in SUBSET All}

\* Table i of t has x.
Has(t, x, i) == i \in DOMAIN t /\ x \in DOMAIN t[i]

\* The tables t and u have the same entries for x.
SameIn(t, u, x) ==
  \A i \in Nat : /\ Has(t, x, i) <=> Has(u, x, i)
                 /\ Has(t, x, i) => t[i][x] = u[i][x]

\* The tables u have e for x in table p, and elsewhere what t has.
SetIn(t, u, x, p, e) ==
  /\ Has(u, x, p) /\ u[p][x] = e
  /\ \A i \in Nat \ {p} : /\ Has(t, x, i) <=> Has(u, x, i)
                          /\ Has(t, x, i) => t[i][x] = u[i][x]

\* No table from i + 1 to k has a local entry for x.
Open(t, x, i, k) == \A m \in i + 1 .. k : Has(t, x, m) => ~t[m][x].local

\* The copies of what is declared in table i.
CopiesFrom(t, x, i) == {j \in Nat : i <= j /\ Has(t, x, j) /\ Open(t, x, i, j)}

\* The value they have; Tables!Current().
Bound(e) == [val |-> e.val, ro |-> e.readonly]
Absent == [val |-> Null, ro |-> FALSE]
Now(t, i, x) ==
    LET copies == {j \in i..Len(t) :
                      /\ x \in DOMAIN t[j]
                      /\ \A k \in (i+1)..j : x \in DOMAIN t[k] => ~t[k][x].local}
        j == CHOOSE j \in copies : \A k \in copies : k <= j
    IN  IF copies = {} THEN [val |-> Null, ro |-> FALSE]
        ELSE [val |-> t[j][x].val, ro |-> t[j][x].readonly]

\* Tables!Scopes for the tables t of the owners o.
Fns(o) == {i \in DOMAIN o : o[i] = "function"}
Nth(o, k) == CHOOSE i \in Fns(o) : Cardinality({j \in Fns(o) : j <= i}) = k
Global(t) == [x \in All |-> Now(t, 1, x)]
ScopeAt(t, i) == [x \in {y \in DOMAIN t[i] : t[i][y].local} |-> Now(t, i, x)]
ScopesOf(t, o) == <<Global(t)>> \o [k \in 1..Cardinality(Fns(o)) |-> ScopeAt(t, Nth(o, k))]

LEMMA SameCardinality == \A S : Tables!Cardinality(S) = Cardinality(S)
  BY DEF Tables!Cardinality, Cardinality

\* The refinement mapping, as operators on tables and owners.
LEMMA ScopesAre ==
  /\ Tables!Scopes = ScopesOf(symtab_stack, owners)
  /\ (Tables!Scopes)' = ScopesOf(symtab_stack', owners')
<1>1. Tables!Functions = Fns(owners) /\ (Tables!Functions)' = Fns(owners')
  BY DEF Tables!Functions, Fns
<1>2. \A i, x : /\ Tables!Current(i, x) = Now(symtab_stack, i, x)
                /\ Tables!Current(i, x)' = Now(symtab_stack', i, x)
  BY DEF Tables!Current, Now
<1>3. \A k : Tables!NthFunction(k) = Nth(owners, k) /\ Tables!NthFunction(k)' = Nth(owners', k)
  BY <1>1, SameCardinality DEF Tables!NthFunction, Nth
<1>4. \A i : /\ Tables!ScopeOf(i) = ScopeAt(symtab_stack, i)
             /\ Tables!ScopeOf(i)' = ScopeAt(symtab_stack', i)
  BY <1>2 DEF Tables!ScopeOf, ScopeAt
<1>5. Tables!Scopes = ScopesOf(symtab_stack, owners)
  BY <1>1, <1>2, <1>3, <1>4, SameCardinality DEF Tables!Scopes, ScopesOf, Global, All
<1>6. (Tables!Scopes)' = ScopesOf(symtab_stack', owners')
  BY <1>1, <1>2, <1>3, <1>4, SameCardinality DEF Tables!Scopes, ScopesOf, Global, All
<1>7. QED
  BY <1>5, <1>6

(* Values of a variable. *)

LEMMA Greatest ==
  ASSUME NEW S, S \subseteq Nat, S # {}, NEW n \in Nat, \A k \in S : k <= n
  PROVE  \E m \in S : \A k \in S : k <= m
<1> DEFINE D == {n - k : k \in S}
<1>1. D \subseteq Nat /\ D # {}
  <2>1. \A k \in S : n - k \in Nat
    OBVIOUS
  <2>2. D # {}
    OBVIOUS
  <2>3. QED
    BY <2>1, <2>2
<1> HIDE DEF D
<1>2. PICK d \in D : \A k \in D : d <= k
  BY <1>1, Least
<1>3. PICK m \in S : d = n - m
  BY <1>2 DEF D
<1>4. \A k \in S : n - m <= n - k
  BY <1>2, <1>3 DEF D
<1>5. QED
  BY <1>4

LEMMA CopiesAre ==
  ASSUME NEW t \in Seq(Table), NEW x, NEW i \in Nat \ {0}
  PROVE  /\ CopiesFrom(t, x, i) = {j \in i..Len(t) :
                      /\ x \in DOMAIN t[j]
                      /\ \A k \in (i+1)..j : x \in DOMAIN t[k] => ~t[k][x].local}
         /\ CopiesFrom(t, x, i) \subseteq i .. Len(t)
<1>1. DOMAIN t = 1 .. Len(t) /\ Len(t) \in Nat
  OBVIOUS
<1>2. ASSUME NEW j, j \in i .. Len(t)
      PROVE  Open(t, x, i, j) <=> \A k \in (i+1)..j : x \in DOMAIN t[k] => ~t[k][x].local
  <2>1. \A k \in (i+1)..j : k \in DOMAIN t
    BY <1>1, <1>2
  <2>2. QED
    BY <2>1 DEF Open, Has
<1>3. \A j \in Nat : i <= j /\ Has(t, x, j) => j \in i .. Len(t)
  BY <1>1 DEF Has
<1>4. \A j \in i .. Len(t) : j \in Nat /\ i <= j /\ (Has(t, x, j) <=> x \in DOMAIN t[j])
  BY <1>1 DEF Has
<1>5. QED
  BY <1>2, <1>3, <1>4 DEF CopiesFrom

\* The topmost copy counts.
LEMMA NowIs ==
  ASSUME NEW t \in Seq(Table), NEW x, NEW i \in Nat \ {0}
  PROVE  /\ CopiesFrom(t, x, i) = {} => Now(t, i, x) = Absent
         /\ \A j \in CopiesFrom(t, x, i) :
              (\A k \in CopiesFrom(t, x, i) : k <= j) => Now(t, i, x) = Bound(t[j][x])
         /\ CopiesFrom(t, x, i) # {} =>
              \E j \in CopiesFrom(t, x, i) : \A k \in CopiesFrom(t, x, i) : k <= j
<1> DEFINE C == CopiesFrom(t, x, i)
           top == CHOOSE j \in C : \A k \in C : k <= j
<1>1. C \subseteq i .. Len(t) /\ Len(t) \in Nat
  BY CopiesAre
<1>2. Now(t, i, x) = IF C = {} THEN Absent ELSE Bound(t[top][x])
  <2> DEFINE D == {j \in i..Len(t) :
                      /\ x \in DOMAIN t[j]
                      /\ \A k \in (i+1)..j : x \in DOMAIN t[k] => ~t[k][x].local}
             first == CHOOSE j \in D : \A k \in D : k <= j
  <2>1. C = D
    BY CopiesAre
  <2>2. Now(t, i, x) = IF D = {} THEN Absent ELSE Bound(t[first][x])
    BY DEF Now, Absent, Bound
  <2> HIDE DEF C, D
  <2>3. top = first
    BY <2>1
  <2> HIDE DEF top, first
  <2>4. QED
    BY <2>1, <2>2, <2>3
<1> HIDE DEF C
<1>3. ASSUME NEW j \in C, \A k \in C : k <= j PROVE top = j
  <2>1. top \in C /\ \A k \in C : k <= top
    BY <1>3
  <2> HIDE DEF top
  <2>2. top \in Int /\ j \in Int
    BY <1>1, <2>1
  <2>3. QED
    BY <1>3, <2>1, <2>2
<1>4. C # {} => \E j \in C : \A k \in C : k <= j
  <2>1. C \subseteq Nat /\ \A k \in C : k <= Len(t)
    BY <1>1
  <2>2. QED
    BY <1>1, <2>1, Greatest
<1>5. QED
  BY <1>2, <1>3, <1>4 DEF C

LEMMA NowEqual ==
  ASSUME NEW t \in Seq(Table), NEW u \in Seq(Table), NEW x, NEW i \in Nat \ {0},
         CopiesFrom(t, x, i) = CopiesFrom(u, x, i),
         \A j \in CopiesFrom(t, x, i) : Bound(t[j][x]) = Bound(u[j][x])
  PROVE  Now(t, i, x) = Now(u, i, x)
<1>1. CASE CopiesFrom(t, x, i) = {}
  BY <1>1, NowIs
<1>2. CASE CopiesFrom(t, x, i) # {}
  <2>1. PICK j \in CopiesFrom(t, x, i) : \A k \in CopiesFrom(t, x, i) : k <= j
    BY <1>2, NowIs
  <2>2. Now(t, i, x) = Bound(t[j][x])
    BY <2>1, NowIs
  <2>3. Now(u, i, x) = Bound(u[j][x])
    BY <2>1, NowIs
  <2>4. QED
    BY <2>1, <2>2, <2>3
<1>3. QED
  BY <1>1, <1>2

LEMMA SameNow ==
  ASSUME NEW t \in Seq(Table), NEW u \in Seq(Table), NEW x, SameIn(t, u, x)
  PROVE  \A i \in Nat \ {0} : Now(t, i, x) = Now(u, i, x)
<1> SUFFICES ASSUME NEW i \in Nat \ {0} PROVE Now(t, i, x) = Now(u, i, x)
  OBVIOUS
<1>1. \A j \in Nat : Open(t, x, i, j) <=> Open(u, x, i, j)
  BY DEF Open, SameIn
<1>2. CopiesFrom(t, x, i) = CopiesFrom(u, x, i)
  BY <1>1 DEF CopiesFrom, SameIn
<1>3. \A j \in CopiesFrom(t, x, i) : t[j][x] = u[j][x]
  BY DEF CopiesFrom, SameIn
<1>4. QED
  BY <1>2, <1>3, NowEqual

\* The same tables declare x.
SameLocals(t, u, x) ==
  \A m \in Nat : m > 1 => (Has(t, x, m) /\ t[m][x].local <=> Has(u, x, m) /\ u[m][x].local)

Topmost(t, x, p) == \A j \in Nat : Has(t, x, j) => j <= p

\* An assignment is to what is declared below, unless something is declared in between.
LEMMA SetNow ==
  ASSUME NEW t \in Seq(Table), NEW u \in Seq(Table), NEW x, NEW p \in Nat \ {0}, NEW e,
         SetIn(t, u, x, p, e), SameLocals(t, u, x), Topmost(t, x, p)
  PROVE  \A i \in Nat \ {0} :
            Now(u, i, x) = IF i <= p /\ Open(t, x, i, p) THEN Bound(e) ELSE Now(t, i, x)
<1> SUFFICES ASSUME NEW i \in Nat \ {0}
             PROVE  Now(u, i, x) = IF i <= p /\ Open(t, x, i, p) THEN Bound(e) ELSE Now(t, i, x)
  OBVIOUS
<1>1. ASSUME NEW j \in Nat PROVE Open(t, x, i, j) <=> Open(u, x, i, j)
  <2>1. \A m \in i + 1 .. j : m \in Nat /\ m > 1
    OBVIOUS
  <2>2. QED
    BY <2>1 DEF Open, SameLocals
<1>2. CASE i <= p /\ Open(t, x, i, p)
  <2>1. p \in CopiesFrom(u, x, i)
    BY <1>1, <1>2 DEF CopiesFrom, SetIn
  <2>2. \A k \in CopiesFrom(u, x, i) : k <= p
    BY DEF CopiesFrom, SetIn, Topmost
  <2>3. u[p][x] = e
    BY DEF SetIn
  <2>4. QED
    BY <1>2, <2>1, <2>2, <2>3, NowIs
<1>3. CASE ~(i <= p /\ Open(t, x, i, p))
  <2>1. p \notin CopiesFrom(t, x, i) /\ p \notin CopiesFrom(u, x, i)
    BY <1>1, <1>3 DEF CopiesFrom
  <2>2. CopiesFrom(t, x, i) = CopiesFrom(u, x, i)
    BY <1>1, <2>1 DEF CopiesFrom, SetIn
  <2>3. \A j \in CopiesFrom(t, x, i) : t[j][x] = u[j][x]
    BY <2>1 DEF CopiesFrom, SetIn
  <2>4. QED
    BY <1>3, <2>2, <2>3, NowEqual
<1>4. QED
  BY <1>2, <1>3

\* A new declaration hides those below.
LEMMA DeclaredNow ==
  ASSUME NEW t \in Seq(Table), NEW u \in Seq(Table), NEW x, NEW p \in Nat \ {0}, NEW e,
         SetIn(t, u, x, p, e), e.local, ~Has(t, x, p), Topmost(t, x, p)
  PROVE  /\ Now(u, p, x) = Bound(e)
         /\ \A i \in Nat \ {0} : i # p => Now(u, i, x) = Now(t, i, x)
<1>1. u[p][x] = e /\ Has(u, x, p) /\ \A k \in Nat : Has(u, x, k) => k <= p
  BY DEF SetIn, Topmost
<1>2. Now(u, p, x) = Bound(e)
  <2>1. Open(u, x, p, p)
    BY DEF Open
  <2>2. p \in CopiesFrom(u, x, p) /\ \A k \in CopiesFrom(u, x, p) : k <= p
    BY <1>1, <2>1 DEF CopiesFrom
  <2>3. QED
    BY <1>1, <2>2, NowIs
<1>3. ASSUME NEW i \in Nat \ {0}, i # p PROVE Now(u, i, x) = Now(t, i, x)
  <2>1. p \notin CopiesFrom(t, x, i)
    BY DEF CopiesFrom
  <2>2. p \notin CopiesFrom(u, x, i)
    <3>1. i <= p => p \in i + 1 .. p
      BY <1>3
    <3>2. QED
      BY <1>1, <3>1 DEF CopiesFrom, Open
  <2>3. ASSUME NEW j \in Nat, j < p PROVE Open(t, x, i, j) <=> Open(u, x, i, j)
    <3>1. \A m \in i + 1 .. j : m \in Nat \ {p}
      BY <2>3
    <3>2. QED
      BY <3>1 DEF Open, SetIn
  <2>4. \A j \in Nat : (Has(t, x, j) \/ Has(u, x, j)) /\ j # p => j < p
    BY <1>1 DEF Topmost
  <2>5. CopiesFrom(t, x, i) = CopiesFrom(u, x, i)
    BY <2>1, <2>2, <2>3, <2>4 DEF CopiesFrom, SetIn
  <2>6. \A j \in CopiesFrom(t, x, i) : t[j][x] = u[j][x]
    BY <2>1 DEF CopiesFrom, SetIn
  <2>7. QED
    BY <2>5, <2>6, NowEqual
<1>4. QED
  BY <1>2, <1>3

\* Table m of t has an entry for x that goes into the table below.
Up(t, x, m) == Has(t, x, m) /\ ~t[m][x].local
MergedIn(t, u, x, m) ==
  /\ \A i \in Nat : Has(u, x, i) => i < m
  /\ \A i \in Nat : i < m /\ (Up(t, x, m) => i # m - 1) =>
        /\ Has(t, x, i) <=> Has(u, x, i)
        /\ Has(t, x, i) => t[i][x] = u[i][x]
  /\ Up(t, x, m) =>
        /\ Has(u, x, m - 1) /\ u[m - 1][x].val = t[m][x].val
        /\ u[m - 1][x].local <=> Has(t, x, m - 1) /\ t[m - 1][x].local
        /\ u[m - 1][x].readonly = t[m][x].readonly

\* What a table is merged into has the values that it had.
LEMMA MergedNow ==
  ASSUME NEW t \in Seq(Table), NEW u \in Seq(Table), NEW x, NEW m \in Nat, m > 1,
         MergedIn(t, u, x, m), Topmost(t, x, m)
  PROVE  \A i \in 1 .. m - 1 : Now(u, i, x) = Now(t, i, x)
<1> SUFFICES ASSUME NEW i \in 1 .. m - 1 PROVE Now(u, i, x) = Now(t, i, x)
  OBVIOUS
<1>0. i \in Nat \ {0} /\ i <= m - 1 /\ m - 1 \in Nat /\ m \notin 1 .. m - 1
  OBVIOUS
<1>1. ASSUME NEW j \in Nat, j < m PROVE Open(t, x, i, j) <=> Open(u, x, i, j)
  <2>1. \A k \in i + 1 .. j : k \in Nat /\ k < m
    BY <1>1
  <2>2. QED
    BY <2>1 DEF Open, MergedIn
<1>2. CASE Up(t, x, m)
  <2>1. Open(t, x, i, m) <=> Open(t, x, i, m - 1)
    <3>1. i + 1 .. m = (i + 1 .. m - 1) \cup {m}
      OBVIOUS
    <3>2. QED
      BY <1>2, <3>1 DEF Open, Up
  <2>2. CASE Open(t, x, i, m - 1)
    <3>1. m \in CopiesFrom(t, x, i) /\ \A k \in CopiesFrom(t, x, i) : k <= m
      BY <1>0, <1>2, <2>1, <2>2 DEF CopiesFrom, Topmost, Up
    <3>2. m - 1 \in CopiesFrom(u, x, i) /\ \A k \in CopiesFrom(u, x, i) : k <= m - 1
      <4>1. Open(u, x, i, m - 1)
        BY <1>0, <1>1, <2>2
      <4>2. QED
        BY <1>0, <1>2, <4>1 DEF CopiesFrom, MergedIn
    <3>3. Now(t, i, x) = Bound(t[m][x]) /\ Now(u, i, x) = Bound(u[m - 1][x])
      BY <1>0, <3>1, <3>2, NowIs
    <3>4. QED
      BY <1>2, <3>3 DEF MergedIn, Bound
  <2>3. CASE ~Open(t, x, i, m - 1)
    <3>1. m \notin CopiesFrom(t, x, i) /\ m - 1 \notin CopiesFrom(t, x, i)
          /\ m - 1 \notin CopiesFrom(u, x, i)
      BY <1>0, <1>1, <2>1, <2>3 DEF CopiesFrom
    <3>2. \A j \in Nat : (Has(t, x, j) /\ j # m => j < m) /\ (Has(u, x, j) => j < m)
      BY DEF Topmost, MergedIn
    <3>3. CopiesFrom(t, x, i) = CopiesFrom(u, x, i)
      BY <1>1, <3>1, <3>2 DEF CopiesFrom, MergedIn
    <3>4. \A j \in CopiesFrom(t, x, i) : t[j][x] = u[j][x]
      BY <3>1, <3>2 DEF CopiesFrom, MergedIn
    <3>5. QED
      BY <1>0, <3>3, <3>4, NowEqual
  <2>4. QED
    BY <2>2, <2>3
<1>3. CASE ~Up(t, x, m)
  <2>1. m \notin CopiesFrom(t, x, i)
    <3>1. m \in i + 1 .. m
      OBVIOUS
    <3>2. QED
      BY <1>3, <3>1 DEF CopiesFrom, Open, Up
  <2>2. \A j \in Nat : (Has(t, x, j) /\ j # m => j < m) /\ (Has(u, x, j) => j < m)
    BY DEF Topmost, MergedIn
  <2>3. CopiesFrom(t, x, i) = CopiesFrom(u, x, i)
    BY <1>1, <1>3, <2>1, <2>2 DEF CopiesFrom, MergedIn
  <2>4. \A j \in CopiesFrom(t, x, i) : t[j][x] = u[j][x]
    BY <1>3, <2>1, <2>2 DEF CopiesFrom, MergedIn
  <2>5. QED
    BY <1>0, <2>3, <2>4, NowEqual
<1>4. QED
  BY <1>2, <1>3

LEMMA Induction ==
  ASSUME NEW S \in SUBSET Nat, 0 \in S, \A k \in Nat : k \in S => k + 1 \in S
  PROVE  S = Nat
<1> DEFINE Rest == Nat \ S
<1>1. SUFFICES ASSUME Rest # {} PROVE FALSE
  OBVIOUS
<1>2. PICK m \in Rest : \A k \in Rest : m <= k
  <2> HIDE DEF Rest
  <2>1. Rest \subseteq Nat
    BY DEF Rest
  <2>2. QED
    BY <1>1, <2>1, Least
<1>3. m # 0 /\ m - 1 \in Nat /\ m - 1 \notin S
  BY <1>2
<1>4. QED
  BY <1>2, <1>3

Owner == {"shell", "function", "eval"}
Below(G, i) == {j \in G : j <= i}
Rank(o, i) == Cardinality(Below(Fns(o), i))

\* The elements of a set of numbers can be counted from the smallest on.
LEMMA Counting ==
  ASSUME NEW n \in Nat, NEW G \in SUBSET (1 .. n), NEW k \in 1 .. Cardinality(G)
  PROVE  \E i \in G : Cardinality(Below(G, i)) = k
<1> DEFINE Counts(m) == \A X \in SUBSET (1 .. m) : \A l \in 1 .. Cardinality(X) :
                           \E i \in X : Cardinality(Below(X, i)) = l
           S == {m \in Nat : Counts(m)}
<1>1. 0 \in S
  <2>1. SUFFICES ASSUME NEW X \in SUBSET (1 .. 0), NEW l \in 1 .. Cardinality(X) PROVE FALSE
    OBVIOUS
  <2>2. X = {}
    OBVIOUS
  <2>3. QED
    BY <2>2, FS_EmptySet
<1>2. ASSUME NEW m \in Nat, m \in S PROVE m + 1 \in S
  <2>1. SUFFICES ASSUME NEW X \in SUBSET (1 .. m + 1), NEW l \in 1 .. Cardinality(X)
                 PROVE  \E i \in X : Cardinality(Below(X, i)) = l
    OBVIOUS
  <2>2. CASE m + 1 \notin X
    <3>1. X \in SUBSET (1 .. m)
      BY <2>2
    <3>2. QED
      BY <1>2, <3>1
  <2>3. CASE m + 1 \in X
    <3> DEFINE H == X \ {m + 1}
    <3>1. H \in SUBSET (1 .. m) /\ IsFiniteSet(X) /\ Cardinality(X) \in Nat
      <4>1. IsFiniteSet(1 .. m + 1)
        BY FS_Interval
      <4>2. IsFiniteSet(X)
        BY <4>1, FS_Subset
      <4>3. QED
        BY <4>2, FS_CardinalityType
    <3>2. Cardinality(H) = Cardinality(X) - 1
      BY <2>3, <3>1, FS_RemoveElement
    <3>3. CASE l = Cardinality(X)
      <4>1. Below(X, m + 1) = X
        <5>1. \A j \in X : j \in 1 .. m + 1 /\ j <= m + 1
          OBVIOUS
        <5>2. QED
          BY <5>1 DEF Below
      <4>2. QED
        BY <2>3, <3>3, <4>1
    <3>4. CASE l # Cardinality(X)
      <4>1. l \in 1 .. Cardinality(H)
        BY <3>1, <3>2, <3>4
      <4>2. PICK i \in H : Cardinality(Below(H, i)) = l
        BY <1>2, <3>1, <4>1
      <4>3. Below(X, i) = Below(H, i)
        BY <3>1, <4>2 DEF Below
      <4>4. QED
        BY <4>2, <4>3
    <3>5. QED
      BY <3>3, <3>4
  <2>4. QED
    BY <2>2, <2>3
<1>3. S = Nat
  <2> HIDE DEF S
  <2>1. S \in SUBSET Nat
    BY DEF S
  <2>2. QED
    BY <1>1, <1>2, <2>1, Induction
<1>4. QED
  BY <1>3

\* Functions are numbered from the bottom: the k-th scope but one is that of the k-th.
LEMMA Functions ==
  ASSUME NEW o \in Seq(Owner)
  PROVE  /\ Fns(o) \subseteq 1 .. Len(o) /\ IsFiniteSet(Fns(o)) /\ Cardinality(Fns(o)) \in Nat
         /\ \A i : IsFiniteSet(Below(Fns(o), i)) /\ Rank(o, i) \in 0 .. Cardinality(Fns(o))
<1>1. Fns(o) \subseteq 1 .. Len(o) /\ Len(o) \in Nat
  BY DEF Fns
<1>2. IsFiniteSet(1 .. Len(o))
  BY <1>1, FS_Interval
<1>3. IsFiniteSet(Fns(o)) /\ Cardinality(Fns(o)) \in Nat
  BY <1>1, <1>2, FS_Subset, FS_CardinalityType
<1>4. ASSUME NEW i
      PROVE  IsFiniteSet(Below(Fns(o), i)) /\ Rank(o, i) \in 0 .. Cardinality(Fns(o))
  <2>1. Below(Fns(o), i) \in SUBSET Fns(o)
    BY DEF Below
  <2>2. /\ IsFiniteSet(Below(Fns(o), i)) /\ Cardinality(Below(Fns(o), i)) \in Nat
        /\ Cardinality(Below(Fns(o), i)) <= Cardinality(Fns(o))
    BY <1>3, <2>1, FS_Subset, FS_CardinalityType
  <2>3. QED
    BY <1>3, <2>2 DEF Rank
<1>5. QED
  BY <1>1, <1>3, <1>4

LEMMA RanksGrow ==
  ASSUME NEW o \in Seq(Owner), NEW i \in Fns(o), NEW j \in Fns(o), i < j
  PROVE  Rank(o, i) < Rank(o, j)
<1>1. i \in Nat /\ j \in Nat
  BY Functions
<1>2. Below(Fns(o), i) \in SUBSET Below(Fns(o), j)
  BY <1>1, Functions DEF Below
<1>3. Below(Fns(o), i) # Below(Fns(o), j)
  BY <1>1 DEF Below
<1>4. Rank(o, i) <= Rank(o, j) /\ Rank(o, i) # Rank(o, j)
  BY <1>2, <1>3, Functions, FS_Subset DEF Rank
<1>5. Rank(o, i) \in Nat /\ Rank(o, j) \in Nat
  BY Functions
<1>6. QED
  BY <1>4, <1>5

\* The functions in progress are numbered.
LEMMA NthIs ==
  ASSUME NEW o \in Seq(Owner)
  PROVE  /\ \A k \in 1 .. Cardinality(Fns(o)) : Nth(o, k) \in Fns(o) /\ Rank(o, Nth(o, k)) = k
         /\ \A i \in Fns(o) : Rank(o, i) \in 1 .. Cardinality(Fns(o)) /\ Nth(o, Rank(o, i)) = i
<1>1. ASSUME NEW i \in Fns(o), NEW j \in Fns(o), Rank(o, i) = Rank(o, j) PROVE i = j
  <2>1. i \in Nat /\ j \in Nat /\ Rank(o, i) \in Nat
    BY Functions
  <2>2. ~(i < j) /\ ~(j < i)
    BY <1>1, <2>1, RanksGrow
  <2>3. QED
    BY <2>1, <2>2
<1>2. \A k : Nth(o, k) = CHOOSE i \in Fns(o) : Rank(o, i) = k
  BY DEF Nth, Rank, Below
<1>3. ASSUME NEW k \in 1 .. Cardinality(Fns(o))
      PROVE  Nth(o, k) \in Fns(o) /\ Rank(o, Nth(o, k)) = k
  <2>1. Fns(o) \in SUBSET (1 .. Len(o)) /\ Len(o) \in Nat
    BY Functions
  <2>2. \E i \in Fns(o) : Rank(o, i) = k
    BY <2>1, Counting DEF Rank
  <2>3. QED
    BY <1>2, <2>2
<1>4. ASSUME NEW i \in Fns(o)
      PROVE  Rank(o, i) \in 1 .. Cardinality(Fns(o)) /\ Nth(o, Rank(o, i)) = i
  <2>1. Rank(o, i) # 0
    <3>1. i \in Below(Fns(o), i)
      BY Functions DEF Below
    <3>2. QED
      BY <3>1, Functions, FS_EmptySet DEF Rank
  <2>2. Rank(o, i) \in 1 .. Cardinality(Fns(o))
    BY <2>1, Functions
  <2>3. Nth(o, Rank(o, i)) \in Fns(o) /\ Rank(o, Nth(o, Rank(o, i))) = Rank(o, i)
    BY <1>3, <2>2
  <2>4. QED
    BY <1>1, <2>2, <2>3
<1>5. QED
  BY <1>3, <1>4

At(t, o, k) == IF k = 1 THEN Global(t) ELSE ScopeAt(t, Nth(o, k - 1))
Depth(o) == Cardinality(Fns(o)) + 1

LEMMA ScopesOfIs ==
  ASSUME NEW t, NEW o \in Seq(Owner)
  PROVE  /\ ScopesOf(t, o) = [k \in 1 .. Depth(o) |-> At(t, o, k)]
         /\ Len(ScopesOf(t, o)) = Depth(o) /\ Depth(o) \in Nat \ {0}
         /\ DOMAIN ScopesOf(t, o) = 1 .. Depth(o)
<1> DEFINE c == Cardinality(Fns(o))
           g == Global(t)
           e(k) == ScopeAt(t, Nth(o, k))
           s == <<g>>
           r == [k \in 1 .. c |-> e(k)]
           E == {g} \cup {e(k) : k \in 1 .. c}
           q == s \o r
<1>1. c \in Nat
  BY Functions
<1>2. ScopesOf(t, o) = q
  BY DEF ScopesOf
<1> HIDE DEF c, g, e
<1>3. s \in Seq(E) /\ Len(s) = 1 /\ s[1] = g
  OBVIOUS
<1>4. r \in Seq(E) /\ Len(r) = c
  <2>1. \A k \in 1 .. c : e(k) \in E
    OBVIOUS
  <2> HIDE DEF E
  <2>2. QED
    BY <1>1, <2>1, IsASeq
<1>5. \A k \in 1 .. c : r[k] = e(k)
  OBVIOUS
<1> HIDE DEF s, r, E
<1>6. /\ q \in Seq(E) /\ Len(q) = 1 + c
      /\ \A k \in 1 .. 1 + c : q[k] = IF k <= 1 THEN s[k] ELSE r[k - 1]
  <2>1. /\ q \in Seq(E) /\ Len(q) = Len(s) + Len(r)
        /\ \A k \in 1 .. Len(s) + Len(r) : q[k] = IF k <= Len(s) THEN s[k] ELSE r[k - Len(s)]
    BY <1>3, <1>4, ConcatProperties
  <2> HIDE DEF q
  <2>2. QED
    BY <1>3, <1>4, <2>1
<1> HIDE DEF q
<1>7. ASSUME NEW k \in 1 .. 1 + c PROVE q[k] = IF k = 1 THEN g ELSE e(k - 1)
  <2>1. CASE k = 1
    BY <1>3, <1>6, <2>1
  <2>2. CASE k # 1
    <3>1. k - 1 \in 1 .. c /\ ~(k <= 1)
      BY <1>1, <2>2
    <3>2. QED
      BY <1>5, <1>6, <2>2, <3>1
  <2>3. QED
    BY <2>1, <2>2
<1>8. q = [k \in 1 .. 1 + c |-> q[k]] /\ DOMAIN q = 1 .. 1 + c
  BY <1>1, <1>6
<1>9. q = [k \in 1 .. 1 + c |-> IF k = 1 THEN g ELSE e(k - 1)]
  BY <1>7, <1>8
<1>10. 1 + c = Depth(o)
  BY <1>1 DEF Depth, c
<1>11. QED
  BY <1>1, <1>2, <1>6, <1>8, <1>9, <1>10 DEF At, g, e

\* Only functions declare variables, and what has been copied of a readonly entry
\* is readonly.
GoodFor(t, o, x) ==
  \A i \in Nat : Has(t, x, i) =>
    /\ i > 1 /\ t[i][x].local => o[i] = "function"
    /\ t[i][x].readonly =>
          \A k \in Nat : k > i /\ Has(t, x, k) /\ Open(t, x, i, k) => t[k][x].readonly

\* The shell's own table is the lowest one, and the only one of the shell.
Owned(o) ==
  /\ o \in Seq(Owner) /\ Len(o) \in Nat \ {0} /\ o[1] = "shell"
  /\ \A i \in 2 .. Len(o) : o[i] \in {"function", "eval"}

\* What holds of the tables t of the owners o between two commands.
Good(t, o) ==
  /\ t \in Seq(Table) /\ Owned(o) /\ Len(t) = Len(o)
  /\ \A x \in All : GoodFor(t, o, x)

\* The levels of the tables of the owners: the shell's is 0, and symtab_level may be
\* behind, never ahead.
LevelsAre ==
  /\ symtab_level \in Int /\ symtab_level < Len(owners)
  /\ levels \in Seq(Int) /\ Len(levels) = Len(owners) /\ levels[1] = 0

\* Without leaked tables the one on top is that of the call that is running.
LEMMA RunningIs ==
  ASSUME Owned(owners)
  PROVE  Tables!Running = Len(owners)
<1> DEFINE n == Len(owners)
           Last(i) == owners[i] # "leaked" /\ \A j \in i+1..n : owners[j] = "leaked"
<1>1. n \in Nat \ {0} /\ DOMAIN owners = 1 .. n /\ \A i \in 1 .. n : owners[i] # "leaked"
  <2>1. n \in Nat \ {0} /\ DOMAIN owners = 1 .. n
    BY DEF Owned
  <2>2. ASSUME NEW i \in 1 .. n PROVE owners[i] # "leaked"
    BY <2>1 DEF Owned, Owner
  <2>3. QED
    BY <2>1, <2>2
<1> HIDE DEF n
<1>2. n \in DOMAIN owners /\ Last(n)
  BY <1>1
<1>3. ASSUME NEW i \in DOMAIN owners, Last(i) PROVE i = n
  <2>1. i \in 1 .. n
    BY <1>1, <1>3
  <2>2. i < n => n \in i+1..n
    BY <1>1, <2>1
  <2>3. QED
    BY <1>1, <1>3, <2>1, <2>2
<1>4. Tables!Running = CHOOSE i \in DOMAIN owners : Last(i)
  BY DEF Tables!Running, n
<1> HIDE DEF Last
<1>5. QED
  BY <1>2, <1>3, <1>4 DEF n

\* The table h is the one that declares x for the commands executed now.
IsHome(t, o, x, h) ==
  /\ h \in 1 .. Len(o) /\ Open(t, x, h, Len(o))
  /\ h # 1 => Has(t, x, h) /\ t[h][x].local

\* The scope of table h.
Index(o, h) == IF h = 1 THEN 1 ELSE Rank(o, h) + 1

\* Each variable has one home; if it is not the shell's, it is a function's.
LEMMA HomeExists ==
  ASSUME NEW t, NEW o, Good(t, o), NEW x
  PROVE  \E h : IsHome(t, o, x, h)
<1> DEFINE n == Len(o)
           S == {h \in 1 .. n : h # 1 => Has(t, x, h) /\ t[h][x].local}
<1>1. n \in Nat \ {0}
  BY DEF Good, Owned
<1> HIDE DEF n
<1>2. S \subseteq Nat /\ 1 \in S /\ \A k \in S : k <= n
  BY <1>1
<1>3. PICK h \in S : \A k \in S : k <= h
  <2> HIDE DEF S
  <2>1. QED
    BY <1>1, <1>2, Greatest
<1>4. Open(t, x, h, n)
  <2>1. ASSUME NEW m \in h + 1 .. n, Has(t, x, m), t[m][x].local PROVE FALSE
    <3>1. m \in 1 .. n /\ ~(m <= h)
      BY <1>1
    <3>2. m \in S
      BY <2>1, <3>1
    <3>3. QED
      BY <1>3, <3>1, <3>2
  <2>2. QED
    BY <2>1 DEF Open
<1>5. QED
  BY <1>3, <1>4 DEF IsHome, n

LEMMA HomeIsFunction ==
  ASSUME NEW t, NEW o, Good(t, o), NEW x \in All, NEW h, IsHome(t, o, x, h)
  PROVE  h \in Nat \ {0} /\ (h # 1 => h \in Fns(o)) /\ 1 \notin Fns(o) /\ Len(o) \in Nat
<1>1. Len(o) \in Nat /\ h \in 1 .. Len(o) /\ o[1] = "shell"
  BY DEF IsHome, Good, Owned
<1>2. h # 1 => o[h] = "function"
  BY <1>1 DEF IsHome, Good, GoodFor
<1>3. DOMAIN o = 1 .. Len(o)
  BY DEF Good, Owned
<1>4. QED
  BY <1>1, <1>2, <1>3 DEF Fns

LEMMA IndexIs ==
  ASSUME NEW t, NEW o \in Seq(Owner), 1 \notin Fns(o), NEW h, h # 1 => h \in Fns(o)
  PROVE  /\ Index(o, h) \in 1 .. Depth(o)
         /\ h = 1 <=> Index(o, h) = 1
         /\ At(t, o, Index(o, h)) = IF h = 1 THEN Global(t) ELSE ScopeAt(t, h)
         /\ ScopesOf(t, o)[Index(o, h)] = At(t, o, Index(o, h))
<1>1. Depth(o) \in Nat \ {0} /\ Cardinality(Fns(o)) \in Nat /\ Depth(o) = Cardinality(Fns(o)) + 1
  BY Functions, ScopesOfIs DEF Depth
<1>2. CASE h = 1
  <2>1. Index(o, h) = 1
    BY <1>2 DEF Index
  <2>2. QED
    BY <1>1, <1>2, <2>1, ScopesOfIs DEF At
<1>3. CASE h # 1
  <2>1. Rank(o, h) \in 1 .. Cardinality(Fns(o)) /\ Nth(o, Rank(o, h)) = h
    BY <1>3, NthIs
  <2>2. Index(o, h) = Rank(o, h) + 1
    BY <1>3 DEF Index
  <2>3. Index(o, h) \in 1 .. Depth(o) /\ Index(o, h) # 1 /\ Index(o, h) - 1 = Rank(o, h)
    BY <1>1, <2>1, <2>2
  <2>4. QED
    BY <1>3, <2>1, <2>3, ScopesOfIs DEF At
<1>4. QED
  BY <1>2, <1>3

\* The other scopes are those of the functions in progress.
LEMMA Above ==
  ASSUME NEW o \in Seq(Owner), 1 \notin Fns(o), NEW k \in 1 .. Depth(o), k # 1
  PROVE  /\ Nth(o, k - 1) \in Fns(o) /\ Index(o, Nth(o, k - 1)) = k
         /\ \A t : At(t, o, k) = ScopeAt(t, Nth(o, k - 1))
<1>1. Cardinality(Fns(o)) \in Nat /\ Depth(o) = Cardinality(Fns(o)) + 1
  BY Functions DEF Depth
<1>2. k - 1 \in 1 .. Cardinality(Fns(o)) /\ (k - 1) + 1 = k
  BY <1>1
<1>3. Nth(o, k - 1) \in Fns(o) /\ Rank(o, Nth(o, k - 1)) = k - 1
  BY <1>2, NthIs
<1>4. QED
  BY <1>2, <1>3 DEF Index, At

LEMMA IndexGrows ==
  ASSUME NEW o \in Seq(Owner), 1 \notin Fns(o), NEW h, h # 1 => h \in Fns(o), NEW i \in Fns(o)
  PROVE  /\ i > h <=> Index(o, i) > Index(o, h)
         /\ i = h <=> Index(o, i) = Index(o, h)
<1>1. i \in Nat /\ i # 1 /\ i # 0 /\ h \in Nat /\ h # 0
  BY Functions
<1>2. Rank(o, i) \in Nat \ {0} /\ Index(o, i) = Rank(o, i) + 1
  BY <1>1, NthIs DEF Index
<1>3. CASE h = 1
  BY <1>1, <1>2, <1>3 DEF Index
<1>4. CASE h # 1
  <2>1. Rank(o, h) \in Nat \ {0} /\ Index(o, h) = Rank(o, h) + 1
    BY <1>4, NthIs DEF Index
  <2>2. (i > h => Rank(o, i) > Rank(o, h)) /\ (i < h => Rank(o, i) < Rank(o, h))
    BY <1>1, <1>2, <1>4, <2>1, RanksGrow
  <2>3. QED
    BY <1>1, <1>2, <2>1, <2>2
<1>5. QED
  BY <1>3, <1>4

\* S!Home(x) is the scope of the table that declares x.
LEMMA HomeIs ==
  ASSUME NEW t, NEW o, Good(t, o), NEW x \in All, NEW h, IsHome(t, o, x, h)
  PROVE  /\ x \in DOMAIN ScopesOf(t, o)[Index(o, h)]
         /\ ScopesOf(t, o)[Index(o, h)][x] = Now(t, h, x)
         /\ \A k \in Index(o, h) + 1 .. Depth(o) : x \notin DOMAIN ScopesOf(t, o)[k]
<1>1. /\ h \in Nat \ {0} /\ (h # 1 => h \in Fns(o)) /\ 1 \notin Fns(o) /\ Len(o) \in Nat
      /\ o \in Seq(Owner) /\ t \in Seq(Table) /\ Len(t) = Len(o)
  BY HomeIsFunction DEF Good, Owned
<1>2. /\ Index(o, h) \in 1 .. Depth(o) /\ Depth(o) \in Nat
      /\ ScopesOf(t, o)[Index(o, h)] = IF h = 1 THEN Global(t) ELSE ScopeAt(t, h)
  BY <1>1, IndexIs, ScopesOfIs
<1>3. h # 1 => x \in DOMAIN t[h] /\ t[h][x].local
  BY DEF IsHome, Has
<1>4. /\ x \in DOMAIN ScopesOf(t, o)[Index(o, h)]
      /\ ScopesOf(t, o)[Index(o, h)][x] = Now(t, h, x)
  BY <1>2, <1>3 DEF Global, ScopeAt
<1>5. ASSUME NEW k \in Index(o, h) + 1 .. Depth(o), x \in DOMAIN ScopesOf(t, o)[k] PROVE FALSE
  <2> DEFINE i == Nth(o, k - 1)
  <2>1. k \in 1 .. Depth(o) /\ k # 1 /\ k > Index(o, h)
    BY <1>2
  <2>2. i \in Fns(o) /\ Index(o, i) = k /\ ScopesOf(t, o)[k] = ScopeAt(t, i)
    BY <1>1, <2>1, Above, ScopesOfIs
  <2> HIDE DEF i
  <2>3. i > h
    BY <1>1, <2>1, <2>2, IndexGrows
  <2>4. x \in DOMAIN t[i] /\ t[i][x].local
    BY <1>5, <2>2 DEF ScopeAt
  <2>5. i \in h + 1 .. Len(o) /\ i \in DOMAIN t
    BY <1>1, <2>2, <2>3, Functions
  <2>6. QED
    BY <2>4, <2>5 DEF IsHome, Open, Has
<1>6. QED
  BY <1>4, <1>5

LEMMA HomeScope ==
  ASSUME Good(symtab_stack, owners), NEW x \in All, NEW h, IsHome(symtab_stack, owners, x, h)
  PROVE  Tables!S!Home(x) = Index(owners, h)
<1> DEFINE s == ScopesOf(symtab_stack, owners)
           m == Index(owners, h)
<1>1. Tables!S!Home(x) = CHOOSE i \in DOMAIN s :
              /\ x \in DOMAIN s[i]
              /\ \A j \in (i+1)..Len(s) : x \notin DOMAIN s[j]
  BY ScopesAre DEF Tables!S!Home
<1>2. /\ Len(s) = Depth(owners) /\ Depth(owners) \in Nat /\ DOMAIN s = 1 .. Depth(owners)
      /\ m \in 1 .. Depth(owners)
  BY HomeIsFunction, IndexIs, ScopesOfIs DEF Good, Owned
<1>3. x \in DOMAIN s[m] /\ \A j \in m + 1 .. Depth(owners) : x \notin DOMAIN s[j]
  BY HomeIs
<1> HIDE DEF s, m
<1>4. ASSUME NEW i \in 1 .. Depth(owners), x \in DOMAIN s[i],
             \A j \in i + 1 .. Depth(owners) : x \notin DOMAIN s[j]
      PROVE  i = m
  <2>1. ~(i < m) /\ ~(m < i)
    BY <1>2, <1>3, <1>4
  <2>2. QED
    BY <1>2, <2>1
<1>5. QED
  BY <1>1, <1>2, <1>3, <1>4 DEF m

\* The tables u have e for x in table p, the topmost that has x, and declare what t declares.
Changed(t, u, x, p, e) ==
  /\ SetIn(t, u, x, p, e) /\ SameLocals(t, u, x) /\ Topmost(t, x, p)
  /\ \A y \in All \ {x} : SameIn(t, u, y)

Declared(t, i) == {y \in DOMAIN t[i] : t[i][y].local}

LEMMA Domains ==
  ASSUME NEW t \in Seq(Table)
  PROVE  \A i \in 1 .. Len(t) : DOMAIN t[i] \in SUBSET All
<1>1. \A i \in 1 .. Len(t) : t[i] \in Table
  OBVIOUS
<1>2. QED
  BY <1>1 DEF Table

LEMMA SameDeclared ==
  ASSUME NEW t \in Seq(Table), NEW u \in Seq(Table), NEW x \in All,
         SameLocals(t, u, x), \A y \in All \ {x} : SameIn(t, u, y),
         NEW i \in 1 .. Len(t), i \in 1 .. Len(u), i > 1
  PROVE  Declared(u, i) = Declared(t, i)
<1>1. i \in DOMAIN t /\ i \in DOMAIN u /\ i \in Nat
  OBVIOUS
<1>2. DOMAIN t[i] \in SUBSET All /\ DOMAIN u[i] \in SUBSET All
  BY Domains
<1>3. \A y \in All : y \in Declared(t, i) <=> y \in Declared(u, i)
  BY <1>1 DEF Declared, SameLocals, SameIn, Has
<1>4. QED
  BY <1>2, <1>3 DEF Declared

LEMMA ScopeAtIs ==
  ASSUME NEW t, NEW i PROVE ScopeAt(t, i) = [y \in Declared(t, i) |-> Now(t, i, y)]
  BY DEF ScopeAt, Declared

\* An assignment changes the scope that declares the variable.
LEMMA ChangedScopes ==
  ASSUME NEW t, NEW o, Good(t, o), NEW u \in Seq(Table), Len(u) = Len(t), NEW x \in All,
         NEW p \in 1 .. Len(t), NEW e, Changed(t, u, x, p, e), NEW h, IsHome(t, o, x, h)
  PROVE  ScopesOf(u, o) =
            [ScopesOf(t, o) EXCEPT ![Index(o, h)] = Tables!S!With(@, x, Bound(e))]
<1> DEFINE m == Index(o, h)
           s == ScopesOf(t, o)
           w(f) == Tables!S!With(f, x, Bound(e))
<1>1. /\ h \in Nat \ {0} /\ (h # 1 => h \in Fns(o)) /\ 1 \notin Fns(o) /\ Len(o) \in Nat
      /\ o \in Seq(Owner) /\ t \in Seq(Table) /\ Len(t) = Len(o) /\ p \in Nat \ {0}
  BY HomeIsFunction DEF Good, Owned
<1>2. m \in 1 .. Depth(o) /\ (h = 1 <=> m = 1)
  BY <1>1, IndexIs
<1>3. /\ SetIn(t, u, x, p, e) /\ SameLocals(t, u, x) /\ Topmost(t, x, p)
      /\ \A y \in All \ {x} : SameIn(t, u, y)
  BY DEF Changed
<1>4. \A i \in Nat \ {0}, y \in All \ {x} : Now(u, i, y) = Now(t, i, y)
  BY <1>1, <1>3, SameNow
<1>5. h <= p /\ Open(t, x, h, p)
  <2>1. h <= p
    BY <1>1, <1>3 DEF IsHome, Topmost
  <2>2. h + 1 .. p \subseteq h + 1 .. Len(o)
    BY <1>1
  <2>3. QED
    BY <2>1, <2>2 DEF IsHome, Open
<1>6. Now(u, h, x) = Bound(e)
  BY <1>1, <1>3, <1>5, SetNow
<1>7. ASSUME NEW i \in Nat \ {0}, i < h PROVE Now(u, i, x) = Now(t, i, x)
  <2>1. h \in i + 1 .. p /\ h # 1
    BY <1>1, <1>5, <1>7
  <2>2. ~Open(t, x, i, p)
    BY <2>1 DEF Open, IsHome
  <2>3. QED
    BY <1>1, <1>3, <2>2, SetNow
<1>8. ASSUME NEW k \in 1 .. Depth(o)
      PROVE  At(u, o, k) = IF k = m THEN w(At(t, o, k)) ELSE At(t, o, k)
  <2>1. CASE k = 1
    <3>1. At(u, o, k) = Global(u) /\ At(t, o, k) = Global(t)
      BY <2>1 DEF At
    <3>2. CASE h = 1
      <4>1. Global(u) = w(Global(t))
        BY <1>4, <1>6, <3>2 DEF Global, Tables!S!With
      <4>2. QED
        BY <1>2, <2>1, <3>1, <3>2, <4>1
    <3>3. CASE h # 1
      <4>1. Now(u, 1, x) = Now(t, 1, x)
        BY <1>1, <1>7, <3>3
      <4>2. Global(u) = Global(t)
        BY <1>4, <4>1 DEF Global
      <4>3. QED
        BY <1>2, <2>1, <3>1, <3>3, <4>2
    <3>4. QED
      BY <3>2, <3>3
  <2>2. CASE k # 1
    <3> DEFINE i == Nth(o, k - 1)
    <3>1. /\ i \in Fns(o) /\ Index(o, i) = k
          /\ At(u, o, k) = ScopeAt(u, i) /\ At(t, o, k) = ScopeAt(t, i)
      BY <1>1, <2>2, Above
    <3> HIDE DEF i
    <3>2. i \in 1 .. Len(t) /\ i > 1 /\ i \in Nat \ {0}
      BY <1>1, <3>1, Functions
    <3>3. Declared(u, i) = Declared(t, i)
      BY <1>1, <1>3, <3>2, SameDeclared
    <3>4. Declared(t, i) \in SUBSET All
      BY <1>1, <3>2, Domains DEF Declared
    <3>5. x \in Declared(t, i) => i <= h
      <4>1. SUFFICES ASSUME x \in Declared(t, i), i > h PROVE FALSE
        BY <1>1, <3>2
      <4>2. i \in h + 1 .. Len(o) /\ i \in DOMAIN t
        BY <1>1, <3>2, <4>1
      <4>3. QED
        BY <4>1, <4>2 DEF IsHome, Open, Has, Declared
    <3>6. i = h <=> k = m
      BY <1>1, <3>1, IndexGrows
    <3>7. CASE i = h
      <4>1. x \in Declared(t, i)
        BY <3>2, <3>7 DEF IsHome, Has, Declared
      <4>2. \A y \in Declared(t, i) : Now(u, i, y) = IF y = x THEN Bound(e) ELSE Now(t, i, y)
        BY <1>4, <1>6, <3>2, <3>4, <3>7
      <4>3. Declared(t, i) \cup {x} = Declared(t, i)
        BY <4>1
      <4>4. ScopeAt(u, i) = w(ScopeAt(t, i))
        <5> DEFINE D == Declared(t, i)
                   f(y) == IF y = x THEN Bound(e) ELSE Now(t, i, y)
        <5>1. ScopeAt(u, i) = [y \in D |-> Now(u, i, y)]
          BY <3>3, ScopeAtIs
        <5>2. w(ScopeAt(t, i)) = [y \in D \cup {x} |-> f(y)]
          BY DEF ScopeAt, Declared, Tables!S!With
        <5>3. D \cup {x} = D
          BY <4>3
        <5>4. \A y \in D : Now(u, i, y) = f(y)
          BY <4>2
        <5> HIDE DEF D, f, w
        <5>5. QED
          BY <5>1, <5>2, <5>3, <5>4
      <4>5. QED
        BY <3>1, <3>6, <3>7, <4>4
    <3>8. CASE i # h
      <4>1. \A y \in Declared(t, i) : Now(u, i, y) = Now(t, i, y)
        BY <1>1, <1>4, <1>7, <3>2, <3>4, <3>5, <3>8
      <4>2. ScopeAt(u, i) = ScopeAt(t, i)
        BY <3>3, <4>1, ScopeAtIs
      <4>3. QED
        BY <3>1, <3>6, <3>8, <4>2
    <3>9. QED
      BY <3>7, <3>8
  <2>3. QED
    BY <2>1, <2>2
<1> HIDE DEF m, s, w
<1>9. s = [k \in 1 .. Depth(o) |-> At(t, o, k)]
  BY <1>1, ScopesOfIs DEF s
<1>10. ScopesOf(u, o) = [k \in 1 .. Depth(o) |-> At(u, o, k)]
  BY <1>1, ScopesOfIs
<1>11. [s EXCEPT ![m] = w(s[m])]
         = [k \in 1 .. Depth(o) |-> IF k = m THEN w(At(t, o, k)) ELSE At(t, o, k)]
  BY <1>2, <1>9
<1>12. ScopesOf(u, o) = [s EXCEPT ![m] = w(s[m])]
  BY <1>8, <1>10, <1>11
<1>13. QED
  BY <1>12 DEF m, s, w

\* Entries and tables.
LEMMA NoEntry == <<>> \in Table /\ DOMAIN <<>> = {}
<1>1. DOMAIN <<>> = {} /\ <<>> = [x \in {} |-> x]
  OBVIOUS
<1>2. <<>> \in [{} -> Entries]
  BY <1>1
<1>3. QED
  BY <1>1, <1>2 DEF Table

LEMMA EntryIs ==
  ASSUME NEW t \in Seq(Table), NEW x, NEW i \in Nat, Has(t, x, i)
  PROVE  i \in 1 .. Len(t) /\ x \in All /\ t[i][x] \in Entries
<1>1. i \in 1 .. Len(t) /\ t[i] \in Table /\ x \in DOMAIN t[i]
  BY DEF Has
<1>2. QED
  BY <1>1 DEF Table

LEMMA WithIs ==
  ASSUME NEW f \in Table, NEW x \in All, NEW e \in Entries
  PROVE  /\ Tables!With(f, x, e) \in Table
         /\ DOMAIN Tables!With(f, x, e) = DOMAIN f \cup {x}
         /\ Tables!With(f, x, e)[x] = e
         /\ \A y \in DOMAIN f : y # x => Tables!With(f, x, e)[y] = f[y]
<1>1. DOMAIN f \in SUBSET All /\ \A y \in DOMAIN f : f[y] \in Entries
  BY DEF Table
<1> DEFINE D == DOMAIN f \cup {x}
           g == [y \in D |-> IF y = x THEN e ELSE f[y]]
<1>2. Tables!With(f, x, e) = g
  BY DEF Tables!With
<1>3. D \in SUBSET All /\ g \in [D -> Entries]
  BY <1>1
<1> HIDE DEF D
<1>4. g \in Table
  BY <1>3 DEF Table
<1>5. QED
  BY <1>2, <1>4 DEF D

LEMMA PutIs ==
  ASSUME NEW t \in Seq(Table), NEW x \in All, NEW e \in Entries, NEW p \in 1 .. Len(t)
  PROVE  /\ Tables!Put(t, p, x, e) \in Seq(Table)
         /\ Len(Tables!Put(t, p, x, e)) = Len(t)
         /\ SetIn(t, Tables!Put(t, p, x, e), x, p, e)
         /\ \A y : y # x => SameIn(t, Tables!Put(t, p, x, e), y)
<1> DEFINE f == Tables!With(t[p], x, e)
           u == Tables!Put(t, p, x, e)
<1>0. t[p] \in Table /\ Len(t) \in Nat /\ DOMAIN t = 1 .. Len(t) /\ p \in DOMAIN t
  OBVIOUS
<1>1. /\ f \in Table /\ DOMAIN f = DOMAIN t[p] \cup {x} /\ f[x] = e
      /\ \A y \in DOMAIN t[p] : y # x => f[y] = t[p][y]
  BY <1>0, WithIs
<1>2. u = [t EXCEPT ![p] = f]
  BY DEF Tables!Put
<1> HIDE DEF f, u
<1>3. u \in Seq(Table) /\ Len(u) = Len(t) /\ DOMAIN u = DOMAIN t
  BY <1>0, <1>1, <1>2
<1>4. u[p] = f /\ \A i \in DOMAIN t : i # p => u[i] = t[i]
  BY <1>0, <1>2
<1>5. SetIn(t, u, x, p, e)
  BY <1>0, <1>1, <1>3, <1>4 DEF SetIn, Has
<1>6. ASSUME NEW y, y # x PROVE SameIn(t, u, y)
  BY <1>0, <1>1, <1>3, <1>4, <1>6 DEF SameIn, Has
<1>7. QED
  BY <1>3, <1>5, <1>6 DEF u

LEMMA PushIs ==
  ASSUME NEW t \in Seq(Table)
  PROVE  /\ Tables!Push(t) \in Seq(Table) /\ Len(Tables!Push(t)) = Len(t) + 1
         /\ \A y : SameIn(t, Tables!Push(t), y)
<1> DEFINE u == Tables!Push(t)
<1>1. u = Append(t, <<>>) /\ <<>> \in Table /\ DOMAIN <<>> = {} /\ Len(t) \in Nat
  BY NoEntry DEF Tables!Push
<1> HIDE DEF u
<1>2. /\ u \in Seq(Table) /\ Len(u) = Len(t) + 1 /\ DOMAIN u = 1 .. Len(t) + 1
      /\ DOMAIN t = 1 .. Len(t)
      /\ u[Len(t) + 1] = <<>> /\ \A i \in 1 .. Len(t) : u[i] = t[i]
  BY <1>1
<1>3. ASSUME NEW y PROVE SameIn(t, u, y)
  BY <1>1, <1>2 DEF SameIn, Has
<1>4. QED
  BY <1>2, <1>3 DEF u

LEMMA PopIs ==
  ASSUME NEW t \in Seq(Table), NEW m \in Nat, Len(t) = m + 1
  PROVE  /\ Tables!Pop(t) \in Seq(Table) /\ Len(Tables!Pop(t)) = m
         /\ DOMAIN Tables!Pop(t) = 1 .. m
         /\ \A i \in 1 .. m : Tables!Pop(t)[i] = t[i]
  BY DEF Tables!Pop

LEMMA Along ==
  ASSUME NEW t, NEW u, NEW w, NEW x
  PROVE  /\ SameIn(t, u, x) /\ SameIn(u, w, x) => SameIn(t, w, x)
         /\ \A p, e : SameIn(t, u, x) /\ SetIn(u, w, x, p, e) => SetIn(t, w, x, p, e)
         /\ \A p, e : SetIn(t, u, x, p, e) /\ SameIn(u, w, x) /\ p \in Nat => SetIn(t, w, x, p, e)
         /\ \A p, e, f : SetIn(t, u, x, p, e) /\ SetIn(u, w, x, p, f) => SetIn(t, w, x, p, f)
<1>1. SameIn(t, u, x) /\ SameIn(u, w, x) => SameIn(t, w, x)
  BY DEF SameIn
<1>2. ASSUME NEW p, NEW e, SameIn(t, u, x), SetIn(u, w, x, p, e) PROVE SetIn(t, w, x, p, e)
  BY <1>2 DEF SameIn, SetIn
<1>3. ASSUME NEW p \in Nat, NEW e, SetIn(t, u, x, p, e), SameIn(u, w, x) PROVE SetIn(t, w, x, p, e)
  BY <1>3 DEF SameIn, SetIn
<1>4. ASSUME NEW p, NEW e, NEW f, SetIn(t, u, x, p, e), SetIn(u, w, x, p, f)
      PROVE  SetIn(t, w, x, p, f)
  BY <1>4 DEF SetIn
<1>5. QED
  BY <1>1, <1>2, <1>3, <1>4

\* get_symtab_entry()
LEMMA FoundIs ==
  ASSUME NEW t \in Seq(Table), NEW x
  PROVE  /\ Tables!Found(t, x) \in 0 .. Len(t)
         /\ Tables!Found(t, x) = 0 <=> \A i \in Nat : ~Has(t, x, i)
         /\ Tables!Found(t, x) # 0 =>
               Has(t, x, Tables!Found(t, x)) /\ Topmost(t, x, Tables!Found(t, x))
         /\ \A p \in Nat : Has(t, x, p) /\ Topmost(t, x, p) => Tables!Found(t, x) = p
<1> DEFINE held == {i \in DOMAIN t : x \in DOMAIN t[i]}
           top == CHOOSE i \in held : \A j \in held : j <= i
<1>1. held = {i \in Nat : Has(t, x, i)} /\ held \subseteq 1 .. Len(t) /\ Len(t) \in Nat
  BY DEF Has
<1>2. Tables!Found(t, x) = IF held = {} THEN 0 ELSE top
  BY DEF Tables!Found
<1> HIDE DEF held
<1>3. held # {} => \E i \in held : \A j \in held : j <= i
  <2>1. held \subseteq Nat /\ \A k \in held : k <= Len(t)
    BY <1>1
  <2>2. QED
    BY <1>1, <2>1, Greatest
<1>4. held # {} => top \in held /\ \A j \in held : j <= top
  BY <1>3
<1> HIDE DEF top
<1>5. \A p \in held : (\A j \in held : j <= p) => p = top
  BY <1>1, <1>4
<1>6. QED
  BY <1>1, <1>2, <1>4, <1>5 DEF Topmost

LEMMA FoundSame ==
  ASSUME NEW t \in Seq(Table), NEW u \in Seq(Table), NEW x, SameIn(t, u, x)
  PROVE  Tables!Found(u, x) = Tables!Found(t, x)
<1> DEFINE f == Tables!Found(t, x)
<1>1. f \in Nat
  BY FoundIs
<1>2. CASE f = 0
  <2>1. \A i \in Nat : ~Has(u, x, i)
    BY <1>2, FoundIs DEF SameIn
  <2>2. QED
    BY <1>2, <2>1, FoundIs
<1>3. CASE f # 0
  <2>1. Has(u, x, f) /\ Topmost(u, x, f)
    BY <1>1, <1>3, FoundIs DEF SameIn, Topmost
  <2>2. QED
    BY <1>1, <2>1, FoundIs
<1>4. QED
  BY <1>2, <1>3

\* The entry for x in table p, or a new one.
New == [val |-> Null, local |-> FALSE, readonly |-> FALSE]
Old(t, x, p) == IF Has(t, x, p) THEN t[p][x] ELSE New
SetTo(old, v, l, r) ==
  IF old.readonly THEN old
  ELSE [val |-> IF v = Null THEN old.val ELSE v, local |-> old.local \/ l, readonly |-> r]

LEMMA SetToIs ==
  ASSUME NEW old \in Entries, NEW v \in Values \cup {Null}, NEW l \in BOOLEAN, NEW r \in BOOLEAN
  PROVE  SetTo(old, v, l, r) \in Entries
<1>1. CASE old.readonly
  BY <1>1 DEF SetTo
<1>2. CASE ~old.readonly
  <2>1. SetTo(old, v, l, r)
           = [val |-> IF v = Null THEN old.val ELSE v, local |-> old.local \/ l, readonly |-> r]
    BY <1>2 DEF SetTo
  <2>2. old.val \in Values \cup {Null} /\ (old.local \/ l) \in BOOLEAN
    BY DEF Entries
  <2>3. QED
    BY <2>1, <2>2 DEF Entries
<1>3. QED
  BY <1>1, <1>2

LEMMA OldIs ==
  ASSUME NEW t \in Seq(Table), NEW x, NEW p \in Nat
  PROVE  Old(t, x, p) \in Entries
<1>1. New \in Entries
  BY DEF New, Entries
<1>2. QED
  BY <1>1, EntryIs DEF Old

\* do_set()
Target(t, x, forceNew) ==
  IF forceNew \/ Tables!Found(t, x) = 0 THEN Len(t) ELSE Tables!Found(t, x)

\* do_set() changes one entry, in the table where it is found or in the last one.
LEMMA DoSetIs ==
  ASSUME NEW t \in Seq(Table), Len(t) # 0, NEW x \in All, NEW v \in Values \cup {Null},
         NEW l \in BOOLEAN, NEW r \in BOOLEAN, NEW forceNew \in BOOLEAN,
         NEW u, u = Tables!DoSet(t, x, v, l, r, forceNew),
         NEW p, p = Target(t, x, forceNew)
  PROVE  /\ u \in Seq(Table) /\ Len(u) = Len(t) /\ p \in 1 .. Len(t)
         /\ SetIn(t, u, x, p, SetTo(Old(t, x, p), v, l, r))
         /\ \A y : y # x => SameIn(t, u, y)
<1> DEFINE i == IF forceNew THEN (IF x \in DOMAIN t[Len(t)] THEN Len(t) ELSE 0)
                ELSE Tables!Found(t, x)
           q == IF i = 0 THEN Len(t) ELSE i
           old == IF i = 0 THEN New ELSE t[i][x]
           e == SetTo(Old(t, x, p), v, l, r)
<1>1. Len(t) \in Nat \ {0} /\ DOMAIN t = 1 .. Len(t) /\ Tables!Found(t, x) \in 0 .. Len(t)
  BY FoundIs
<1>2. p \in 1 .. Len(t)
  BY <1>1 DEF Target
<1>3. q = p /\ (i # 0 => i = p /\ Has(t, x, p)) /\ (i = 0 => ~Has(t, x, p))
  <2>1. CASE forceNew
    <3>1. p = Len(t) /\ i = IF x \in DOMAIN t[Len(t)] THEN Len(t) ELSE 0
      BY <2>1 DEF Target
    <3>2. QED
      BY <1>1, <3>1 DEF Has
  <2>2. CASE ~forceNew
    <3>1. i = Tables!Found(t, x) /\ p = IF i = 0 THEN Len(t) ELSE i
      BY <2>2 DEF Target
    <3> HIDE DEF i
    <3>2. (i = 0 => ~Has(t, x, p)) /\ (i # 0 => Has(t, x, i))
      BY <1>1, <1>2, <3>1, FoundIs
    <3>3. QED
      BY <3>1, <3>2
  <2>3. QED
    BY <2>1, <2>2
<1>4. u = IF old.readonly THEN t
          ELSE Tables!Put(t, q, x, [val |-> IF v = Null THEN old.val ELSE v,
                                     local |-> old.local \/ l, readonly |-> r])
  BY DEF Tables!DoSet, Tables!Entry, New
<1> HIDE DEF i, q, old
<1>5. old = Old(t, x, p)
  BY <1>3 DEF old, Old
<1>6. e \in Entries
  BY <1>2, OldIs, SetToIs
<1>7. CASE old.readonly
  <2>1. u = t /\ e = old
    BY <1>4, <1>5, <1>7 DEF SetTo
  <2>2. Has(t, x, p) /\ old = t[p][x]
    BY <1>5, <1>7 DEF Old, New
  <2>3. QED
    BY <1>2, <2>1, <2>2 DEF SetIn, SameIn
<1>8. CASE ~old.readonly
  <2>1. u = Tables!Put(t, p, x, e)
    BY <1>3, <1>4, <1>5, <1>8 DEF SetTo
  <2> HIDE DEF e
  <2>2. QED
    BY <1>2, <1>6, <2>1, PutIs DEF e
<1>9. QED
  BY <1>7, <1>8

\* merge_global() finds no readonly entry where it brings one that is not.
Mergeable(w, m) ==
  \A x : Up(w, x, m) /\ Has(w, x, m - 1) /\ w[m - 1][x].readonly => w[m][x].readonly

\* h is the table f with the entries that g has for the caller.
MergedInto(f, g, h) ==
  /\ h \in Table
  /\ DOMAIN h = DOMAIN f \cup {x \in DOMAIN g : ~g[x].local}
  /\ \A x \in DOMAIN h :
        IF x \in DOMAIN g /\ ~g[x].local
        THEN /\ h[x].val = g[x].val
             /\ h[x].local <=> x \in DOMAIN f /\ f[x].local
             /\ h[x].readonly = g[x].readonly
        ELSE h[x] = f[x]

LEMMA MergedTable ==
  ASSUME NEW f \in Table, NEW g \in Table,
         \A x \in DOMAIN f \cap DOMAIN g : ~g[x].local /\ f[x].readonly => g[x].readonly
  PROVE  MergedInto(f, g, Tables!Merged(f, g))
<1> DEFINE up == {x \in DOMAIN g : ~g[x].local}
           before(x) == IF x \in DOMAIN f THEN f[x] ELSE New
           e(x) == IF x \notin up THEN f[x]
                   ELSE [val |-> g[x].val, local |-> before(x).local,
                         readonly |-> g[x].readonly \/ before(x).readonly]
           D == DOMAIN f \cup up
           h == [x \in D |-> e(x)]
<1>1. Tables!Merged(f, g) = h
  BY DEF Tables!Merged, Tables!Entry, New
<1>2. /\ DOMAIN f \in SUBSET All /\ \A x \in DOMAIN f : f[x] \in Entries
      /\ DOMAIN g \in SUBSET All /\ \A x \in DOMAIN g : g[x] \in Entries
  BY DEF Table
<1>3. ASSUME NEW x \in up
      PROVE  /\ e(x) \in Entries /\ e(x).val = g[x].val
             /\ e(x).local <=> x \in DOMAIN f /\ f[x].local
             /\ e(x).readonly = g[x].readonly
  <2>1. /\ g[x].val \in Values \cup {Null} /\ g[x].readonly \in BOOLEAN
        /\ x \in DOMAIN g /\ ~g[x].local
    BY <1>2 DEF Entries
  <2>2. /\ before(x).local \in BOOLEAN /\ before(x).readonly \in BOOLEAN
        /\ before(x).local <=> x \in DOMAIN f /\ f[x].local
        /\ before(x).readonly => x \in DOMAIN f /\ f[x].readonly
    BY <1>2 DEF Entries, New
  <2>3. (g[x].readonly \/ before(x).readonly) = g[x].readonly
    BY <2>1, <2>2
  <2>4. e(x) = [val |-> g[x].val, local |-> before(x).local,
                readonly |-> g[x].readonly \/ before(x).readonly]
    OBVIOUS
  <2> HIDE DEF e, before
  <2>5. QED
    BY <2>1, <2>2, <2>3, <2>4 DEF Entries
<1>4. \A x \in D \ up : e(x) = f[x] /\ x \in DOMAIN f
  OBVIOUS
<1>5. D \in SUBSET All /\ \A x \in D : x \in up <=> x \in DOMAIN g /\ ~g[x].local
  BY <1>2
<1> HIDE DEF e, up, D
<1>6. \A x \in D : e(x) \in Entries
  BY <1>2, <1>3, <1>4
<1>7. h \in Table
  BY <1>5, <1>6 DEF Table
<1>8. DOMAIN h = D /\ \A x \in D : h[x] = e(x)
  OBVIOUS
<1> HIDE DEF h
<1>9. \A x \in D : IF x \in DOMAIN g /\ ~g[x].local
                   THEN /\ e(x).val = g[x].val
                        /\ e(x).local <=> x \in DOMAIN f /\ f[x].local
                        /\ e(x).readonly = g[x].readonly
                   ELSE e(x) = f[x]
  BY <1>3, <1>4, <1>5
<1>10. QED
  BY <1>1, <1>7, <1>8, <1>9 DEF D, up, MergedInto

\* symtab_stack_pop() and merge_global(): what was above lies one table lower, unless
\* it was local, and the other tables stay.
LEMMA PopMergeIs ==
  ASSUME NEW w \in Seq(Table), NEW n \in Nat \ {0}, Len(w) = n + 1, Mergeable(w, n + 1),
         NEW u, u = Tables!PopMerge(w)
  PROVE  /\ u \in Seq(Table) /\ Len(u) = n
         /\ \A x : MergedIn(w, u, x, n + 1)
<1> DEFINE q == Tables!Pop(w)
           g == Tables!Merged(w[n], w[n + 1])
<1>1. /\ q \in Seq(Table) /\ Len(q) = n /\ DOMAIN q = 1 .. n
      /\ \A i \in 1 .. n : q[i] = w[i]
  BY PopIs
<1>2. u = [q EXCEPT ![n] = Tables!Merged(q[n], w[n + 1])]
  BY DEF Tables!PopMerge
<1>3. /\ q[n] = w[n] /\ n \in 1 .. n /\ n + 1 \in 1 .. n + 1
      /\ n \in 1 .. n + 1 /\ DOMAIN w = 1 .. n + 1
  BY <1>1
<1> HIDE DEF q
<1>4. u = [q EXCEPT ![n] = g]
  BY <1>2, <1>3
<1>5. w[n] \in Table /\ w[n + 1] \in Table
  BY <1>3
<1>6. \A x : /\ Has(w, x, n) <=> x \in DOMAIN w[n]
             /\ Has(w, x, n + 1) <=> x \in DOMAIN w[n + 1]
             /\ Up(w, x, n + 1) <=> x \in DOMAIN w[n + 1] /\ ~w[n + 1][x].local
  BY <1>3 DEF Has, Up
<1>7. \A x \in DOMAIN w[n] \cap DOMAIN w[n + 1] :
         ~w[n + 1][x].local /\ w[n][x].readonly => w[n + 1][x].readonly
  <2>1. (n + 1) - 1 = n
    OBVIOUS
  <2>2. QED
    BY <1>6, <2>1 DEF Mergeable
<1>8. MergedInto(w[n], w[n + 1], g)
  <2> DEFINE f0 == w[n]
             g0 == w[n + 1]
  <2>1. /\ f0 \in Table /\ g0 \in Table
        /\ \A x \in DOMAIN f0 \cap DOMAIN g0 : ~g0[x].local /\ f0[x].readonly => g0[x].readonly
    BY <1>5, <1>7
  <2> HIDE DEF f0, g0
  <2>2. MergedInto(f0, g0, Tables!Merged(f0, g0))
    BY <2>1, MergedTable
  <2>3. QED
    BY <2>2 DEF f0, g0
<1> HIDE DEF g
<1>9. /\ u \in Seq(Table) /\ Len(u) = n /\ DOMAIN u = 1 .. n
      /\ u[n] = g /\ \A i \in 1 .. n : i # n => u[i] = w[i]
  BY <1>1, <1>3, <1>4, <1>8 DEF MergedInto
<1>10. ASSUME NEW x PROVE MergedIn(w, u, x, n + 1)
  <2>1. (n + 1) - 1 = n
    OBVIOUS
  <2>2. \A i \in Nat : Has(u, x, i) => i < n + 1
    BY <1>9 DEF Has
  <2>3. ASSUME NEW i \in Nat, i < n + 1, Up(w, x, n + 1) => i # n
        PROVE  /\ Has(w, x, i) <=> Has(u, x, i)
               /\ Has(w, x, i) => w[i][x] = u[i][x]
    <3>1. CASE i = n
      <4>1. ~(x \in DOMAIN w[n + 1] /\ ~w[n + 1][x].local)
        BY <1>6, <2>3, <3>1
      <4>2. QED
        BY <1>3, <1>8, <1>9, <3>1, <4>1 DEF Has, MergedInto
    <3>2. CASE i # n
      BY <1>3, <1>9, <2>3, <3>2 DEF Has
    <3>3. QED
      BY <3>1, <3>2
  <2>4. ASSUME Up(w, x, n + 1)
        PROVE  /\ Has(u, x, n) /\ u[n][x].val = w[n + 1][x].val
               /\ u[n][x].local <=> Has(w, x, n) /\ w[n][x].local
               /\ u[n][x].readonly = w[n + 1][x].readonly
    <3>1. x \in DOMAIN w[n + 1] /\ ~w[n + 1][x].local /\ x \in DOMAIN g
      BY <1>6, <1>8, <2>4 DEF MergedInto
    <3>2. QED
      BY <1>3, <1>6, <1>8, <1>9, <3>1 DEF Has, MergedInto
  <2>5. QED
    BY <2>1, <2>2, <2>3, <2>4 DEF MergedIn
<1>11. QED
  BY <1>9, <1>10

\* A table that is merged without entries, or with one for x, which the tables t had
\* not, or that is the copy of the topmost.
LEMMA MergedNothing ==
  ASSUME NEW w \in Seq(Table), NEW n \in Nat \ {0}, Len(w) = n + 1,
         \A x : ~Has(w, x, n + 1), NEW u, u = Tables!PopMerge(w)
  PROVE  /\ u \in Seq(Table) /\ Len(u) = n
         /\ \A x : SameIn(w, u, x)
<1>1. \A x : ~Up(w, x, n + 1)
  BY DEF Up
<1>2. Mergeable(w, n + 1)
  BY <1>1 DEF Mergeable
<1>3. u \in Seq(Table) /\ Len(u) = n /\ \A x : MergedIn(w, u, x, n + 1)
  BY <1>2, PopMergeIs
<1>4. ASSUME NEW x PROVE SameIn(w, u, x)
  <2>1. \A i \in Nat : Has(w, x, i) => i < n + 1
    <3>1. \A i \in Nat : Has(w, x, i) => i \in 1 .. n + 1 /\ i # n + 1
      BY DEF Has
    <3>2. QED
      BY <3>1
  <2>2. QED
    BY <1>1, <1>3, <2>1 DEF MergedIn, SameIn
<1>5. QED
  BY <1>3, <1>4

\* What the commands find for x, and what it becomes.
Cur(t, x) == IF Tables!Found(t, x) = 0 THEN Absent ELSE Bound(t[Tables!Found(t, x)][x])
Rebound(b, v, r) ==
  IF b.ro THEN b ELSE [val |-> IF v = Null THEN b.val ELSE v, ro |-> r]

\* From t to u the variable x is bound to b where it is declared.
Assigns(t, u, x, b) ==
  /\ u \in Seq(Table) /\ Len(u) = Len(t)
  /\ \E p \in 1 .. Len(t), e \in Entries : Changed(t, u, x, p, e) /\ Bound(e) = b

LEMMA Bindings ==
  /\ Bound(New) = Absent
  /\ \A old, v, l, r : Bound(SetTo(old, v, l, r)) = Rebound(Bound(old), v, r)
  /\ \A old, v, l, r : old.local \in BOOLEAN /\ l \in BOOLEAN /\ ~l =>
        SetTo(old, v, l, r).local = old.local
<1>1. Bound(New) = Absent
  BY DEF Bound, New, Absent
<1>2. ASSUME NEW old, NEW v, NEW l, NEW r
      PROVE  Bound(SetTo(old, v, l, r)) = Rebound(Bound(old), v, r)
  <2>1. CASE old.readonly
    BY <2>1 DEF SetTo, Bound, Rebound
  <2>2. CASE ~old.readonly
    BY <2>2 DEF SetTo, Bound, Rebound
  <2>3. QED
    BY <2>1, <2>2
<1>3. ASSUME NEW old, NEW v, NEW l \in BOOLEAN, NEW r, old.local \in BOOLEAN, ~l
      PROVE  SetTo(old, v, l, r).local = old.local
  <2>1. CASE old.readonly
    BY <2>1 DEF SetTo
  <2>2. CASE ~old.readonly
    BY <1>3, <2>2 DEF SetTo
  <2>3. QED
    BY <2>1, <2>2
<1>4. QED
  BY <1>1, <1>2, <1>3

\* What is found is at the topmost table that has it, or would be put in the last one.
LEMMA TargetIs ==
  ASSUME NEW t \in Seq(Table), Len(t) # 0, NEW x, NEW no \in BOOLEAN, ~no,
         NEW p, p = Target(t, x, no)
  PROVE  /\ p \in 1 .. Len(t) /\ Topmost(t, x, p)
         /\ Bound(Old(t, x, p)) = Cur(t, x)
<1>1. Tables!Found(t, x) \in 0 .. Len(t) /\ Len(t) \in Nat \ {0}
  BY FoundIs
<1>2. CASE Tables!Found(t, x) = 0
  <2>1. p = Len(t) /\ \A i \in Nat : ~Has(t, x, i)
    BY <1>2, FoundIs DEF Target
  <2>2. Old(t, x, p) = New
    BY <1>1, <2>1 DEF Old
  <2>3. Cur(t, x) = Absent /\ Bound(New) = Absent
    BY <1>2, Bindings DEF Cur
  <2>4. p \in 1 .. Len(t) /\ Topmost(t, x, p)
    BY <1>1, <2>1 DEF Topmost
  <2>5. QED
    BY <2>2, <2>3, <2>4
<1>3. CASE Tables!Found(t, x) # 0
  <2>1. p = Tables!Found(t, x) /\ Has(t, x, p) /\ Topmost(t, x, p)
    BY <1>3, FoundIs DEF Target
  <2>2. Old(t, x, p) = t[p][x]
    BY <2>1 DEF Old
  <2>3. Cur(t, x) = Bound(t[p][x])
    BY <1>3, <2>1 DEF Cur
  <2>4. p \in 1 .. Len(t)
    BY <1>1, <1>3, <2>1
  <2>5. QED
    BY <2>1, <2>2, <2>3, <2>4
<1>4. QED
  BY <1>2, <1>3

\* do_set() without SET_FLAG_LOCAL changes what is declared.
LEMMA SetAssigns ==
  ASSUME NEW t \in Seq(Table), Len(t) # 0, NEW x \in All, NEW v \in Values \cup {Null},
         NEW r \in BOOLEAN, NEW no \in BOOLEAN, ~no, NEW u, u = Tables!DoSet(t, x, v, no, r, no)
  PROVE  Assigns(t, u, x, Rebound(Cur(t, x), v, r))
<1> DEFINE p == Target(t, x, no)
           old == Old(t, x, p)
           e == SetTo(old, v, no, r)
<1>1. /\ u \in Seq(Table) /\ Len(u) = Len(t) /\ p \in 1 .. Len(t)
      /\ SetIn(t, u, x, p, e) /\ \A y : y # x => SameIn(t, u, y)
  BY DoSetIs
<1>2. Topmost(t, x, p) /\ Bound(old) = Cur(t, x)
  BY TargetIs
<1>5. old.local <=> Has(t, x, p) /\ t[p][x].local
  BY DEF Old, New
<1> HIDE DEF p
<1>3. old \in Entries /\ p \in Nat
  <2>1. p \in Nat
    BY <1>1
  <2>2. QED
    BY <2>1, OldIs
<1> HIDE DEF old
<1>4. e \in Entries /\ e.local = old.local /\ Bound(e) = Rebound(Cur(t, x), v, r)
  <2>1. e \in Entries
    BY <1>3, SetToIs
  <2>2. old.local \in BOOLEAN
    BY <1>3 DEF Entries
  <2>3. Bound(e) = Rebound(Bound(old), v, r)
    BY Bindings
  <2>4. e.local = old.local
    BY <2>2, Bindings
  <2>5. QED
    BY <1>2, <2>1, <2>3, <2>4
<1> HIDE DEF e
<1>6. SameLocals(t, u, x)
  BY <1>1, <1>3, <1>4, <1>5 DEF SameLocals, SetIn
<1>7. Changed(t, u, x, p, e)
  BY <1>1, <1>2, <1>6 DEF Changed
<1>8. QED
  BY <1>1, <1>4, <1>7 DEF Assigns

\* A table of its own for a command leaves what is found.
LEMMA PushKeeps ==
  ASSUME NEW t \in Seq(Table), NEW x
  PROVE  Tables!Found(Tables!Push(t), x) = Tables!Found(t, x)
  BY PushIs, FoundSame

\* Only what the tables t have is in another table than the last of w.
LEMMA CopyMerged ==
  ASSUME NEW t \in Seq(Table), NEW n \in Nat \ {0}, Len(t) = n,
         NEW w \in Seq(Table), Len(w) = n + 1,
         NEW x \in All, NEW e, SetIn(t, w, x, n + 1, e), ~e.local, \A y : y # x => SameIn(t, w, y),
         Has(t, x, n) /\ t[n][x].readonly => e.readonly,
         NEW u, u = Tables!PopMerge(w)
  PROVE  Assigns(t, u, x, Bound(e))
<1>1. DOMAIN t = 1 .. n /\ (n + 1) - 1 = n /\ n + 1 \in Nat
  OBVIOUS
<1>2. \A y : ~Has(t, y, n + 1)
  BY <1>1 DEF Has
<1>3. \A y : y # x => ~Up(w, y, n + 1)
  BY <1>1, <1>2 DEF Up, SameIn
<1>4. Has(w, x, n + 1) /\ w[n + 1][x] = e /\ Up(w, x, n + 1)
  BY DEF SetIn, Up
<1>5. \A i \in Nat : i # n + 1 => /\ Has(t, x, i) <=> Has(w, x, i)
                                  /\ Has(t, x, i) => t[i][x] = w[i][x]
  BY DEF SetIn
<1>6. Mergeable(w, n + 1)
  <2>1. n # n + 1
    OBVIOUS
  <2>2. Has(w, x, n) /\ w[n][x].readonly => e.readonly
    BY <1>5, <2>1
  <2>3. QED
    BY <1>1, <1>3, <1>4, <2>2 DEF Mergeable
<1>7. u \in Seq(Table) /\ Len(u) = n /\ \A y : MergedIn(w, u, y, n + 1)
  BY <1>6, PopMergeIs
<1>8. ASSUME NEW y, y # x PROVE SameIn(t, u, y)
  <2>1. MergedIn(w, u, y, n + 1) /\ ~Up(w, y, n + 1) /\ SameIn(t, w, y)
    BY <1>3, <1>7, <1>8
  <2>2. \A i \in Nat : (Has(u, y, i) => i < n + 1) /\ (Has(t, y, i) => i < n + 1)
    BY <1>1, <2>1 DEF MergedIn, Has
  <2>3. QED
    BY <2>1, <2>2 DEF MergedIn, SameIn
<1> DEFINE f == u[n][x]
<1>9. /\ Has(u, x, n) /\ f.val = e.val /\ f.readonly = e.readonly
      /\ f.local <=> Has(t, x, n) /\ t[n][x].local
  BY <1>1, <1>4, <1>5, <1>7 DEF MergedIn
<1>10. f \in Entries
  BY <1>7, <1>9, EntryIs
<1>11. Bound(f) = Bound(e)
  BY <1>9 DEF Bound
<1>12. SetIn(t, u, x, n, f)
  <2>1. \A i \in Nat : (Has(u, x, i) => i < n + 1) /\ (Has(t, x, i) => i < n + 1)
    BY <1>1, <1>7 DEF MergedIn, Has
  <2>2. ASSUME NEW i \in Nat, i # n
        PROVE  /\ Has(t, x, i) <=> Has(u, x, i)
               /\ Has(t, x, i) => t[i][x] = u[i][x]
    BY <1>1, <1>5, <1>7, <2>1, <2>2 DEF MergedIn
  <2>3. QED
    BY <1>9, <2>2 DEF SetIn
<1>13. SameLocals(t, u, x)
  BY <1>9, <1>12 DEF SameLocals, SetIn
<1>14. Topmost(t, x, n)
  BY <1>1 DEF Topmost, Has
<1>15. Changed(t, u, x, n, f)
  BY <1>8, <1>12, <1>13, <1>14 DEF Changed
<1>16. n \in 1 .. Len(t)
  OBVIOUS
<1> HIDE DEF f
<1>17. QED
  BY <1>7, <1>10, <1>11, <1>15, <1>16 DEF Assigns

\* Tables that have the same entries are assigned to alike.
LEMMA AssignsAlong ==
  ASSUME NEW t \in Seq(Table), NEW q \in Seq(Table), NEW w \in Seq(Table), NEW u \in Seq(Table),
         Len(u) = Len(t), NEW x, NEW b, Assigns(q, w, x, b),
         \A y : SameIn(t, q, y), \A y : SameIn(w, u, y)
  PROVE  Assigns(t, u, x, b)
<1>1. PICK p \in 1 .. Len(q), e \in Entries : Changed(q, w, x, p, e) /\ Bound(e) = b
  BY DEF Assigns
<1>2. /\ SetIn(q, w, x, p, e) /\ SameLocals(q, w, x) /\ Topmost(q, x, p)
      /\ \A y \in All \ {x} : SameIn(q, w, y)
  BY <1>1 DEF Changed
<1>3. p \in Nat
  OBVIOUS
<1>4. SetIn(t, u, x, p, e)
  <2>1. SetIn(t, w, x, p, e)
    BY <1>2, Along
  <2>2. QED
    BY <1>3, <2>1, Along
<1>5. p \in 1 .. Len(t)
  BY <1>3, <1>4 DEF SetIn, Has
<1>6. SameLocals(t, u, x)
  BY <1>2 DEF SameLocals, SameIn
<1>7. Topmost(t, x, p)
  BY <1>2 DEF Topmost, SameIn
<1>8. \A y \in All \ {x} : SameIn(t, u, y)
  BY <1>2, Along
<1>9. Changed(t, u, x, p, e)
  BY <1>4, <1>6, <1>7, <1>8 DEF Changed
<1>10. QED
  BY <1>1, <1>5, <1>9 DEF Assigns

LEMMA PopSame ==
  ASSUME NEW w \in Seq(Table), NEW n \in Nat, Len(w) = n + 1, NEW x, ~Has(w, x, n + 1),
         NEW u, u = Tables!Pop(w)
  PROVE  SameIn(w, u, x)
<1>1. DOMAIN u = 1 .. n /\ \A i \in 1 .. n : u[i] = w[i]
  BY PopIs
<1>2. DOMAIN w = 1 .. n + 1
  OBVIOUS
<1>3. \A i \in Nat : Has(w, x, i) => i \in 1 .. n
  BY <1>2 DEF Has
<1>4. \A i \in 1 .. n : i \in DOMAIN w /\ i \in DOMAIN u
  BY <1>1, <1>2
<1>5. QED
  BY <1>1, <1>3, <1>4 DEF SameIn, Has

\* do_set() in a command with a table of its own, which is merged.
LEMMA BuiltinAssigns ==
  ASSUME NEW t \in Seq(Table), Len(t) # 0, NEW x \in All, NEW v \in Values \cup {Null},
         NEW r \in BOOLEAN, NEW no \in BOOLEAN, ~no,
         NEW u, u = Tables!PopMerge(Tables!DoSet(Tables!Push(t), x, v, no, r, no))
  PROVE  Assigns(t, u, x, Rebound(Cur(t, x), v, r))
<1> DEFINE n == Len(t)
           q == Tables!Push(t)
           w == Tables!DoSet(q, x, v, no, r, no)
           f == Tables!Found(t, x)
           p == Target(q, x, no)
           e == SetTo(Old(q, x, p), v, no, r)
<1>1. n \in Nat \ {0} /\ f \in 0 .. n /\ DOMAIN t = 1 .. n
  BY FoundIs
<1>2. q \in Seq(Table) /\ Len(q) = n + 1 /\ \A y : SameIn(t, q, y)
  BY PushIs
<1>3. Tables!Found(q, x) = f
  BY PushKeeps
<1>4. u = Tables!PopMerge(w)
  OBVIOUS
<1> HIDE DEF q
<1>5. p = IF f = 0 THEN n + 1 ELSE f
  BY <1>2, <1>3 DEF Target
<1>6. /\ w \in Seq(Table) /\ Len(w) = n + 1 /\ p \in 1 .. n + 1
      /\ SetIn(q, w, x, p, e) /\ \A y : y # x => SameIn(q, w, y)
  <2>1. Len(q) # 0
    BY <1>1, <1>2
  <2>2. /\ w \in Seq(Table) /\ Len(w) = Len(q) /\ p \in 1 .. Len(q)
        /\ SetIn(q, w, x, p, e) /\ \A y : y # x => SameIn(q, w, y)
    BY <1>2, <2>1, DoSetIs
  <2>3. QED
    BY <1>2, <2>2
<1>7. Assigns(q, w, x, Rebound(Cur(q, x), v, r)) /\ Bound(Old(q, x, p)) = Cur(q, x)
  <2>1. Len(q) # 0
    BY <1>1, <1>2
  <2>2. Bound(Old(q, x, p)) = Cur(q, x)
    BY <1>2, <2>1, TargetIs
  <2>3. QED
    BY <1>2, <2>1, <2>2, SetAssigns
<1>8. Bound(e) = Rebound(Cur(q, x), v, r)
  BY <1>7, Bindings
<1>9. Cur(q, x) = Cur(t, x)
  BY <1>1, <1>2, <1>3, FoundIs DEF Cur, SameIn
<1> HIDE DEF w, p, e, f
<1>10. SetIn(t, w, x, p, e) /\ \A y : y # x => SameIn(t, w, y)
  BY <1>2, <1>6, Along
<1>11. CASE f = 0
  <2>1. p = n + 1 /\ \A i \in Nat : ~Has(t, x, i)
    BY <1>5, <1>11, FoundIs DEF f
  <2>2. ~e.local
    <3>1. ~Has(q, x, p)
      BY <1>1, <1>2, <2>1 DEF SameIn
    <3>2. Old(q, x, p) = New
      BY <3>1 DEF Old
    <3>3. New.local \in BOOLEAN /\ ~New.local
      BY DEF New
    <3>4. e.local = New.local
      BY <3>2, <3>3, Bindings DEF e
    <3>5. QED
      BY <3>3, <3>4
  <2>3. ~Has(t, x, n)
    BY <1>1, <2>1
  <2>4. SetIn(t, w, x, n + 1, e)
    BY <1>10, <2>1
  <2>5. Assigns(t, u, x, Bound(e))
    BY <1>1, <1>4, <1>6, <1>10, <2>2, <2>3, <2>4, CopyMerged
  <2>6. QED
    BY <1>8, <1>9, <2>5
<1>12. CASE f # 0
  <2>1. p \in 1 .. n /\ p # n + 1
    BY <1>1, <1>5, <1>12
  <2>2. \A y : ~Has(w, y, n + 1)
    <3>1. \A y : ~Has(t, y, n + 1) /\ n + 1 \in Nat \ {p}
      BY <1>1, <2>1 DEF Has
    <3>2. QED
      BY <1>10, <3>1 DEF SetIn, SameIn
  <2>3. u \in Seq(Table) /\ Len(u) = n /\ \A y : SameIn(w, u, y)
    BY <1>1, <1>4, <1>6, <2>2, MergedNothing
  <2>4. QED
    BY <1>2, <1>6, <1>7, <1>9, <2>3, AssignsAlong
<1>13. QED
  BY <1>11, <1>12

\* ${x:=v} in the words of an external command: what is found lies below its table.
LEMMA WordAssigns ==
  ASSUME NEW t \in Seq(Table), NEW x \in All, NEW v \in Values \cup {Null},
         NEW no \in BOOLEAN, ~no, NEW r \in BOOLEAN, Tables!Found(t, x) # 0,
         NEW u, u = Tables!Pop(Tables!DoSet(Tables!Push(t), x, v, no, r, no))
  PROVE  Assigns(t, u, x, Rebound(Cur(t, x), v, r))
<1> DEFINE n == Len(t)
           q == Tables!Push(t)
           w == Tables!DoSet(q, x, v, no, r, no)
           f == Tables!Found(t, x)
           p == Target(q, x, no)
           e == SetTo(Old(q, x, p), v, no, r)
<1>1. n \in Nat /\ f \in 1 .. n /\ DOMAIN t = 1 .. n
  BY FoundIs
<1>2. q \in Seq(Table) /\ Len(q) = n + 1 /\ Len(q) # 0 /\ \A y : SameIn(t, q, y)
  BY <1>1, PushIs
<1>3. Tables!Found(q, x) = f
  BY PushKeeps
<1>4. u = Tables!Pop(w)
  OBVIOUS
<1> HIDE DEF q
<1>5. p = f
  BY <1>1, <1>2, <1>3 DEF Target
<1>6. /\ w \in Seq(Table) /\ Len(w) = Len(q)
      /\ SetIn(q, w, x, p, e) /\ \A y : y # x => SameIn(q, w, y)
  <2>1. /\ w \in Seq(Table) /\ Len(w) = Len(q) /\ p \in 1 .. Len(q)
        /\ SetIn(q, w, x, p, e) /\ \A y : y # x => SameIn(q, w, y)
    BY <1>2, DoSetIs
  <2>2. QED
    BY <2>1
<1>7. Assigns(q, w, x, Rebound(Cur(q, x), v, r))
  BY <1>2, SetAssigns
<1>8. Cur(q, x) = Cur(t, x)
  BY <1>1, <1>2, <1>3, FoundIs DEF Cur, SameIn
<1> HIDE DEF w, p, e, f
<1>9. \A y : ~Has(w, y, n + 1)
  <2>1. \A y : ~Has(q, y, n + 1)
    <3>1. \A y : ~Has(t, y, n + 1) /\ n + 1 \in Nat
      BY <1>1 DEF Has
    <3>2. QED
      BY <1>2, <3>1 DEF SameIn
  <2>2. n + 1 \in Nat \ {p}
    BY <1>1, <1>5
  <2>3. QED
    BY <1>6, <2>1, <2>2 DEF SetIn, SameIn
<1>10. u \in Seq(Table) /\ Len(u) = n
  BY <1>1, <1>2, <1>4, <1>6, PopIs
<1>11. \A y : SameIn(w, u, y)
  BY <1>1, <1>2, <1>4, <1>6, <1>9, PopSame
<1>12. QED
  BY <1>2, <1>6, <1>7, <1>8, <1>10, <1>11, AssignsAlong

\* The copy that an assignment before a command makes in its table.
Prefixed(t, w, x, b) ==
  /\ w \in Seq(Table) /\ Len(w) = Len(t) + 1
  /\ \E e \in Entries : SetIn(t, w, x, Len(t) + 1, e) /\ ~e.local /\ Bound(e) = b
  /\ \A y : y # x => SameIn(t, w, y)

LEMMA PrefixSets ==
  ASSUME NEW t \in Seq(Table), NEW x \in All, NEW v \in Values \cup {Null},
         NEW no \in BOOLEAN, ~no,
         NEW w, w = Tables!PrefixSet(Tables!Push(t), x, v)
  PROVE  Prefixed(t, w, x, Rebound(Cur(t, x), v, no))
<1> DEFINE n == Len(t)
           q == Tables!Push(t)
           f == Tables!Found(t, x)
           d == IF f = 0 THEN New
                ELSE [q[f][x] EXCEPT !.local = (f = n + 1) /\ q[f][x].local]
           r == Tables!Put(q, n + 1, x, d)
           p == Target(r, x, no)
           e == SetTo(Old(r, x, p), v, no, no)
<1>0. no = FALSE
  OBVIOUS
<1>1. n \in Nat /\ f \in 0 .. n /\ DOMAIN t = 1 .. n
  BY FoundIs
<1>2. q \in Seq(Table) /\ Len(q) = n + 1 /\ \A y : SameIn(t, q, y)
  BY PushIs
<1>3. Tables!Found(q, x) = f
  BY PushKeeps
<1> HIDE DEF q
<1>4. w = Tables!DoSet(r, x, v, no, no, no)
  <2>1. w = Tables!DoSet(r, x, v, FALSE, FALSE, FALSE)
    BY <1>2, <1>3 DEF Tables!PrefixSet, Tables!Entry, New, q
  <2> HIDE DEF r
  <2>2. QED
    BY <1>0, <2>1
<1>5. d \in Entries /\ d.local \in BOOLEAN /\ ~d.local /\ Bound(d) = Cur(t, x)
  <2>1. CASE f = 0
    <3>1. d = New /\ Cur(t, x) = Absent
      BY <2>1 DEF Cur
    <3>2. New \in Entries /\ New.local \in BOOLEAN /\ ~New.local
      BY DEF New, Entries
    <3>3. QED
      BY <3>1, <3>2, Bindings
  <2>2. CASE f # 0
    <3>1. f \in Nat /\ Has(t, x, f) /\ f # n + 1
      BY <1>1, <2>2, FoundIs
    <3>2. q[f][x] = t[f][x] /\ t[f][x] \in Entries
      BY <1>2, <3>1, EntryIs DEF SameIn
    <3>3. d = [t[f][x] EXCEPT !.local = FALSE]
      BY <2>2, <3>1, <3>2
    <3> HIDE DEF d
    <3>4. /\ d \in Entries /\ d.local = FALSE
          /\ d.val = t[f][x].val /\ d.readonly = t[f][x].readonly
      BY <3>2, <3>3 DEF Entries
    <3>5. Cur(t, x) = Bound(t[f][x])
      BY <2>2 DEF Cur
    <3>6. QED
      BY <3>4, <3>5 DEF Bound
  <2>3. QED
    BY <2>1, <2>2
<1> HIDE DEF d, f
<1>6. /\ r \in Seq(Table) /\ Len(r) = n + 1 /\ SetIn(q, r, x, n + 1, d)
      /\ \A y : y # x => SameIn(q, r, y)
  <2>1. n + 1 \in 1 .. Len(q)
    BY <1>1, <1>2
  <2>2. QED
    BY <1>2, <1>5, <2>1, PutIs
<1> HIDE DEF r
<1>7. Tables!Found(r, x) = n + 1
  <2>1. Has(r, x, n + 1) /\ n + 1 \in Nat
    BY <1>1, <1>6 DEF SetIn
  <2>2. Topmost(r, x, n + 1)
    BY <1>1, <1>6 DEF Topmost, Has
  <2>3. QED
    BY <1>6, <2>1, <2>2, FoundIs
<1>8. p = n + 1
  BY <1>1, <1>6, <1>7 DEF Target
<1>9. /\ w \in Seq(Table) /\ Len(w) = n + 1 /\ SetIn(r, w, x, p, e)
      /\ \A y : y # x => SameIn(r, w, y)
  <2>1. Len(r) # 0
    BY <1>1, <1>6
  <2>2. /\ w \in Seq(Table) /\ Len(w) = Len(r) /\ p \in 1 .. Len(r)
        /\ SetIn(r, w, x, p, e) /\ \A y : y # x => SameIn(r, w, y)
    BY <1>4, <1>6, <2>1, DoSetIs
  <2>3. QED
    BY <1>6, <2>2
<1>10. Old(r, x, p) = d
  BY <1>6, <1>8 DEF Old, SetIn
<1>11. e \in Entries /\ ~e.local /\ Bound(e) = Rebound(Cur(t, x), v, no)
  <2>1. e = SetTo(d, v, no, no)
    BY <1>10
  <2> HIDE DEF e
  <2>2. e \in Entries
    BY <1>5, <2>1, SetToIs
  <2>3. ~e.local
    BY <1>5, <2>1, Bindings
  <2>4. Bound(e) = Rebound(Bound(d), v, no)
    BY <2>1, Bindings
  <2>5. QED
    BY <1>5, <2>2, <2>3, <2>4
<1> HIDE DEF e, p
<1>12. SetIn(t, w, x, n + 1, e)
  <2>1. SetIn(t, r, x, n + 1, d)
    BY <1>2, <1>6, Along
  <2>2. QED
    BY <1>8, <1>9, <2>1, Along
<1>13. \A y : y # x => SameIn(t, w, y)
  BY <1>2, <1>6, <1>9, Along
<1>14. QED
  BY <1>9, <1>11, <1>12, <1>13 DEF Prefixed

LEMMA PrefixAssigns ==
  ASSUME NEW t \in Seq(Table), Len(t) # 0, NEW x \in All, NEW w, NEW v, NEW no,
         Prefixed(t, w, x, Rebound(Cur(t, x), v, no)),
         NEW u, u = Tables!PopMerge(w)
  PROVE  Assigns(t, u, x, Rebound(Cur(t, x), v, no))
<1> DEFINE n == Len(t)
           b == Rebound(Cur(t, x), v, no)
<1>1. n \in Nat \ {0} /\ DOMAIN t = 1 .. n
  OBVIOUS
<1>2. PICK e \in Entries : SetIn(t, w, x, n + 1, e) /\ ~e.local /\ Bound(e) = b
  BY DEF Prefixed
<1>3. Has(t, x, n) /\ t[n][x].readonly => e.readonly
  <2>1. SUFFICES ASSUME Has(t, x, n), t[n][x].readonly PROVE e.readonly
    OBVIOUS
  <2>2. Topmost(t, x, n)
    BY <1>1 DEF Topmost, Has
  <2>3. Tables!Found(t, x) = n
    BY <1>1, <2>1, <2>2, FoundIs
  <2>4. Cur(t, x) = Bound(t[n][x])
    BY <1>1, <2>3 DEF Cur
  <2>5. Cur(t, x).ro
    BY <2>1, <2>4 DEF Bound
  <2>6. b.ro
    BY <2>5 DEF Rebound
  <2> HIDE DEF b
  <2>7. b.ro = e.readonly
    BY <1>2 DEF Bound
  <2>8. QED
    BY <2>6, <2>7
<1> HIDE DEF b
<1>4. QED
  BY <1>1, <1>2, <1>3, CopyMerged DEF Prefixed, b

LEMMA PrefixGone ==
  ASSUME NEW t \in Seq(Table), NEW x, NEW w, NEW b, Prefixed(t, w, x, b),
         NEW u, u = Tables!Pop(w)
  PROVE  u \in Seq(Table) /\ Len(u) = Len(t) /\ \A y : SameIn(t, u, y)
<1> DEFINE n == Len(t)
<1>1. n \in Nat /\ DOMAIN t = 1 .. n
  OBVIOUS
<1>2. /\ w \in Seq(Table) /\ Len(w) = n + 1 /\ \A y : y # x => SameIn(t, w, y)
      /\ \A i \in Nat \ {n + 1} : /\ Has(t, x, i) <=> Has(w, x, i)
                                  /\ Has(t, x, i) => t[i][x] = w[i][x]
  BY DEF Prefixed, SetIn
<1>3. /\ u \in Seq(Table) /\ Len(u) = n /\ DOMAIN u = 1 .. n
      /\ \A i \in 1 .. n : u[i] = w[i]
  BY <1>1, <1>2, PopIs
<1>4. \A y : \A i \in 1 .. n : Has(u, y, i) <=> Has(w, y, i)
  BY <1>1, <1>2, <1>3 DEF Has
<1>5. ASSUME NEW y, NEW i \in Nat
      PROVE  /\ Has(t, y, i) <=> Has(u, y, i)
             /\ Has(t, y, i) => t[i][y] = u[i][y]
  <2>1. CASE i \in 1 .. n
    <3>1. i # n + 1
      BY <1>1, <2>1
    <3>2. /\ Has(t, y, i) <=> Has(w, y, i)
          /\ Has(t, y, i) => t[i][y] = w[i][y]
      BY <1>2, <3>1 DEF SameIn
    <3>3. QED
      BY <1>3, <1>4, <2>1, <3>2
  <2>2. CASE i \notin 1 .. n
    BY <1>1, <1>3, <2>2 DEF Has
  <2>3. QED
    BY <2>1, <2>2
<1>6. QED
  BY <1>3, <1>5 DEF SameIn

\* A variable has the value that its innermost declaration has.
LEMMA HomeNow ==
  ASSUME NEW t, NEW o, Good(t, o), NEW x \in All, NEW h, IsHome(t, o, x, h)
  PROVE  Now(t, h, x) = Cur(t, x)
<1> DEFINE f == Tables!Found(t, x)
<1>1. /\ t \in Seq(Table) /\ Len(t) = Len(o) /\ Len(o) \in Nat /\ h \in 1 .. Len(o)
      /\ h \in Nat \ {0}
  BY HomeIsFunction DEF Good, IsHome
<1>2. CASE f = 0
  <2>1. \A i \in Nat : ~Has(t, x, i)
    BY <1>1, <1>2, FoundIs
  <2>2. CopiesFrom(t, x, h) = {}
    BY <2>1 DEF CopiesFrom
  <2>3. Now(t, h, x) = Absent
    BY <1>1, <2>2, NowIs
  <2>4. QED
    BY <1>2, <2>3 DEF Cur
<1>3. CASE f # 0
  <2>1. f \in 0 .. Len(o) /\ Has(t, x, f) /\ Topmost(t, x, f)
    BY <1>1, <1>3, FoundIs
  <2>2. h <= f
    BY <1>1, <1>3, <2>1 DEF IsHome, Topmost
  <2>3. Open(t, x, h, f)
    <3>1. \A m \in h + 1 .. f : m \in h + 1 .. Len(o)
      BY <1>1, <2>1
    <3>2. QED
      BY <3>1 DEF IsHome, Open
  <2>4. f \in CopiesFrom(t, x, h) /\ \A k \in CopiesFrom(t, x, h) : k <= f
    BY <2>1, <2>2, <2>3 DEF CopiesFrom, Topmost
  <2>5. Now(t, h, x) = Bound(t[f][x])
    BY <1>1, <2>4, NowIs
  <2>6. QED
    BY <1>3, <2>5 DEF Cur
<1>4. QED
  BY <1>2, <1>3

\* The functions o in progress see the same in the tables u as in the tables t.
SameAt(t, u, o) ==
  /\ \A x \in All : Now(u, 1, x) = Now(t, 1, x)
  /\ \A i \in Fns(o) : /\ Declared(u, i) = Declared(t, i)
                       /\ \A x \in Declared(t, i) : Now(u, i, x) = Now(t, i, x)

LEMMA SameScopeAt ==
  ASSUME NEW t, NEW u, NEW o, SameAt(t, u, o)
  PROVE  Global(u) = Global(t) /\ \A i \in Fns(o) : ScopeAt(u, i) = ScopeAt(t, i)
<1>1. Global(u) = Global(t)
  BY DEF SameAt, Global
<1>2. ASSUME NEW i \in Fns(o) PROVE ScopeAt(u, i) = ScopeAt(t, i)
  <2>1. /\ ScopeAt(t, i) = [y \in Declared(t, i) |-> Now(t, i, y)]
        /\ ScopeAt(u, i) = [y \in Declared(u, i) |-> Now(u, i, y)]
    BY ScopeAtIs
  <2>2. Declared(u, i) = Declared(t, i) /\ \A y \in Declared(t, i) : Now(u, i, y) = Now(t, i, y)
    BY <1>2 DEF SameAt
  <2>3. QED
    BY <2>1, <2>2
<1>3. QED
  BY <1>1, <1>2

LEMMA SameScopes ==
  ASSUME NEW t, NEW u, NEW o \in Seq(Owner), NEW oo \in Seq(Owner), Fns(oo) = Fns(o),
         SameAt(t, u, o)
  PROVE  ScopesOf(u, oo) = ScopesOf(t, o)
<1>1. Depth(oo) = Depth(o) /\ \A k : Nth(oo, k) = Nth(o, k)
  BY DEF Depth, Nth
<1>2. ASSUME NEW k \in 1 .. Depth(o) PROVE At(u, oo, k) = At(t, o, k)
  <2>1. CASE k = 1
    BY <2>1, SameScopeAt DEF At
  <2>2. CASE k # 1
    <3>1. Cardinality(Fns(o)) \in Nat
      BY Functions
    <3>2. k - 1 \in 1 .. Cardinality(Fns(o))
      BY <2>2, <3>1 DEF Depth
    <3>3. Nth(o, k - 1) \in Fns(o)
      BY <3>2, NthIs
    <3>4. QED
      BY <1>1, <2>2, <3>3, SameScopeAt DEF At
  <2>3. QED
    BY <2>1, <2>2
<1>3. /\ ScopesOf(t, o) = [k \in 1 .. Depth(o) |-> At(t, o, k)]
      /\ ScopesOf(u, oo) = [k \in 1 .. Depth(oo) |-> At(u, oo, k)]
  BY ScopesOfIs
<1>4. QED
  BY <1>1, <1>2, <1>3

LEMMA AssignedScopes ==
  ASSUME NEW t, NEW o, Good(t, o), NEW x \in All, NEW h, IsHome(t, o, x, h),
         NEW u, NEW b, Assigns(t, u, x, b)
  PROVE  ScopesOf(u, o) = [ScopesOf(t, o) EXCEPT ![Index(o, h)] = Tables!S!With(@, x, b)]
<1>1. u \in Seq(Table) /\ Len(u) = Len(t)
  BY DEF Assigns
<1>2. PICK p \in 1 .. Len(t), e \in Entries : Changed(t, u, x, p, e) /\ Bound(e) = b
  BY DEF Assigns
<1>3. ScopesOf(u, o) = [ScopesOf(t, o) EXCEPT ![Index(o, h)] = Tables!S!With(@, x, Bound(e))]
  BY <1>1, <1>2, ChangedScopes
<1>4. QED
  BY <1>2, <1>3

\* A readonly variable that the functions have copied stays readonly.
LEMMA GoodAssigned ==
  ASSUME NEW t, NEW o, Good(t, o), NEW x \in All, NEW u, NEW b, Assigns(t, u, x, b),
         Cur(t, x).ro => b.ro
  PROVE  Good(u, o)
<1>1. u \in Seq(Table) /\ Len(u) = Len(t)
  BY DEF Assigns
<1>2. PICK p \in 1 .. Len(t), e \in Entries : Changed(t, u, x, p, e) /\ Bound(e) = b
  BY DEF Assigns
<1>3. /\ SetIn(t, u, x, p, e) /\ SameLocals(t, u, x) /\ Topmost(t, x, p) /\ p \in Nat
      /\ \A y \in All \ {x} : SameIn(t, u, y)
  BY <1>2 DEF Changed
<1>4. /\ t \in Seq(Table) /\ Owned(o) /\ Len(t) = Len(o) /\ Len(o) \in Nat
      /\ \A y \in All : GoodFor(t, o, y)
  BY DEF Good, Owned
<1>5. ASSUME NEW y \in All \ {x} PROVE GoodFor(u, o, y)
  <2>1. SameIn(t, u, y) /\ GoodFor(t, o, y)
    BY <1>3, <1>4
  <2>2. \A i, k \in Nat : Open(t, y, i, k) <=> Open(u, y, i, k)
    BY <2>1 DEF Open, SameIn
  <2>3. QED
    BY <2>1, <2>2 DEF GoodFor, SameIn
<1>6. GoodFor(u, o, x)
  <2>1. SUFFICES ASSUME NEW i \in Nat, Has(u, x, i)
                 PROVE  /\ i > 1 /\ u[i][x].local => o[i] = "function"
                        /\ u[i][x].readonly =>
                             \A k \in Nat : k > i /\ Has(u, x, k) /\ Open(u, x, i, k)
                                               => u[k][x].readonly
    BY DEF GoodFor
  <2>2. GoodFor(t, o, x)
    BY <1>4
  <2>3. i > 1 /\ u[i][x].local => o[i] = "function"
    BY <1>3, <2>1, <2>2 DEF SameLocals, GoodFor
  <2>4. ASSUME u[i][x].readonly, NEW k \in Nat, k > i, Has(u, x, k), Open(u, x, i, k)
        PROVE  u[k][x].readonly
    <3>1. k <= p /\ i # p
      <4>1. k # p => Has(t, x, k)
        BY <1>3, <2>4 DEF SetIn
      <4>2. QED
        BY <1>3, <2>4, <4>1 DEF Topmost
    <3>2. i \in 1 .. Len(u)
      BY <1>1, <2>1, EntryIs
    <3>3. \A m \in Nat : m <= k => (Open(t, x, i, m))
      <4>1. SUFFICES ASSUME NEW m \in Nat, m <= k PROVE Open(t, x, i, m)
        OBVIOUS
      <4>2. \A l \in i + 1 .. m : l \in i + 1 .. k /\ l \in Nat /\ l > 1
        BY <2>4, <3>2, <4>1
      <4>3. QED
        BY <1>3, <2>4, <4>2 DEF Open, SameLocals
    <3>4. Has(t, x, i) /\ t[i][x].readonly
      BY <1>3, <2>1, <2>4, <3>1 DEF SetIn
    <3>5. CASE k # p
      <4>1. Has(t, x, k) /\ t[k][x] = u[k][x]
        BY <1>3, <2>4, <3>5 DEF SetIn
      <4>2. QED
        BY <2>2, <2>4, <3>3, <3>4, <4>1 DEF GoodFor
    <3>6. CASE k = p
      <4> DEFINE f == Tables!Found(t, x)
      <4>1. f # 0 /\ f \in Nat /\ Has(t, x, f) /\ Topmost(t, x, f)
        <5>1. f \in 0 .. Len(t)
          BY <1>4, FoundIs
        <5>2. f # 0
          BY <1>4, <3>4, FoundIs
        <5>3. QED
          BY <1>4, <5>1, <5>2, FoundIs
      <4>2. i <= f /\ f <= p
        BY <1>3, <3>4, <4>1 DEF Topmost
      <4>3. t[f][x].readonly
        <5>1. CASE f = i
          BY <3>4, <5>1
        <5>2. CASE f # i
          <6>1. f > i /\ Open(t, x, i, f)
            BY <3>3, <3>6, <4>1, <4>2, <5>2
          <6>2. QED
            BY <2>2, <3>4, <4>1, <6>1 DEF GoodFor
        <5>3. QED
          BY <5>1, <5>2
      <4>4. Cur(t, x).ro
        BY <4>1, <4>3 DEF Cur, Bound
      <4>5. b.ro
        BY <4>4
      <4>6. b.ro = e.readonly
        BY <1>2 DEF Bound
      <4>7. QED
        BY <1>3, <3>6, <4>5, <4>6 DEF SetIn
    <3>7. QED
      BY <3>5, <3>6
  <2>5. QED
    BY <2>3, <2>4
<1>7. QED
  BY <1>1, <1>4, <1>5, <1>6 DEF Good

LEMMA GoodSame ==
  ASSUME NEW t, NEW o, Good(t, o), NEW u \in Seq(Table), NEW oo, Owned(oo), Len(u) = Len(oo),
         \A y \in All : SameIn(t, u, y), \A i \in 1 .. Len(o) : i \in DOMAIN oo /\ oo[i] = o[i]
  PROVE  Good(u, oo)
<1> SUFFICES ASSUME NEW y \in All PROVE GoodFor(u, oo, y)
  BY DEF Good
<1>1. t \in Seq(Table) /\ Len(t) = Len(o) /\ SameIn(t, u, y) /\ GoodFor(t, o, y)
  BY DEF Good
<1>2. \A i, k \in Nat : Open(t, y, i, k) <=> Open(u, y, i, k)
  BY <1>1 DEF Open, SameIn
<1>3. \A i \in Nat : Has(t, y, i) => oo[i] = o[i]
  BY <1>1, EntryIs
<1>4. QED
  BY <1>1, <1>2, <1>3 DEF GoodFor, SameIn

(* A function is called, and returns. *)

\* The owners oo are o and k on top of them.
OnTop(o, k, oo) ==
  /\ Owned(oo) /\ Len(oo) = Len(o) + 1 /\ oo[Len(o) + 1] = k
  /\ \A i \in 1 .. Len(o) : i \in DOMAIN oo /\ oo[i] = o[i]
  /\ Fns(oo) = IF k = "eval" THEN Fns(o) ELSE Fns(o) \cup {Len(o) + 1}

LEMMA OneMore ==
  ASSUME NEW o, Owned(o), NEW k \in {"function", "eval"}, NEW oo, oo = Append(o, k)
  PROVE  OnTop(o, k, oo)
<1>1. o \in Seq(Owner) /\ Len(o) \in Nat \ {0} /\ k \in Owner
  BY DEF Owned, Owner
<1>2. /\ oo \in Seq(Owner) /\ Len(oo) = Len(o) + 1 /\ oo[Len(o) + 1] = k
      /\ \A i \in 1 .. Len(o) : i \in DOMAIN oo /\ oo[i] = o[i]
      /\ DOMAIN oo = 1 .. Len(o) + 1 /\ DOMAIN o = 1 .. Len(o)
  BY <1>1
<1>3. Owned(oo)
  <2>1. oo[1] = "shell"
    BY <1>1, <1>2 DEF Owned
  <2>2. ASSUME NEW i \in 2 .. Len(oo) PROVE oo[i] \in {"function", "eval"}
    <3>1. CASE i = Len(o) + 1
      BY <1>2, <3>1
    <3>2. CASE i # Len(o) + 1
      <4>1. i \in 2 .. Len(o) /\ i \in 1 .. Len(o)
        BY <1>1, <1>2, <3>2
      <4>2. QED
        BY <1>2, <4>1 DEF Owned
    <3>3. QED
      BY <3>1, <3>2
  <2>3. QED
    BY <1>1, <1>2, <2>1, <2>2 DEF Owned
<1>4. Fns(oo) = IF k = "eval" THEN Fns(o) ELSE Fns(o) \cup {Len(o) + 1}
  <2>1. 1 .. Len(o) + 1 = (1 .. Len(o)) \cup {Len(o) + 1}
    BY <1>1
  <2>2. QED
    BY <1>2, <2>1 DEF Fns
<1>5. QED
  BY <1>2, <1>3, <1>4 DEF OnTop

LEMMA OneMoreFunction ==
  ASSUME NEW o, Owned(o), NEW oo, oo = Append(o, "function")
  PROVE  /\ Depth(oo) = Depth(o) + 1
         /\ \A k \in 1 .. Cardinality(Fns(o)) : Nth(oo, k) = Nth(o, k)
         /\ Nth(oo, Depth(o)) = Len(o) + 1
<1> DEFINE n == Len(o)
           c == Cardinality(Fns(o))
<1>1. /\ Owned(oo) /\ Fns(oo) = Fns(o) \cup {n + 1} /\ oo \in Seq(Owner) /\ o \in Seq(Owner)
      /\ n \in Nat
  BY OneMore DEF OnTop, Owned
<1>2. Fns(o) \subseteq 1 .. n /\ IsFiniteSet(Fns(o)) /\ c \in Nat
  BY <1>1, Functions
<1>3. n + 1 \notin Fns(o)
  BY <1>1, <1>2
<1> HIDE DEF n
<1>4. Cardinality(Fns(oo)) = c + 1
  BY <1>1, <1>2, <1>3, FS_AddElement
<1>5. \A i \in Fns(o) : Below(Fns(oo), i) = Below(Fns(o), i)
  BY <1>1, <1>2 DEF Below
<1>6. Below(Fns(oo), n + 1) = Fns(oo)
  BY <1>1, <1>2 DEF Below
<1>7. ASSUME NEW k \in 1 .. c PROVE Nth(oo, k) = Nth(o, k)
  <2> DEFINE i == Nth(o, k)
  <2>1. i \in Fns(o) /\ Rank(o, i) = k
    BY <1>1, NthIs
  <2> HIDE DEF i
  <2>2. i \in Fns(oo) /\ Rank(oo, i) = k
    BY <1>1, <1>5, <2>1 DEF Rank
  <2>3. Nth(oo, Rank(oo, i)) = i
    BY <1>1, <2>2, NthIs
  <2>4. QED
    BY <2>2, <2>3 DEF i
<1>8. Nth(oo, c + 1) = n + 1
  <2>1. Rank(oo, n + 1) = c + 1
    BY <1>4, <1>6 DEF Rank
  <2>2. n + 1 \in Fns(oo)
    BY <1>1
  <2>3. Nth(oo, Rank(oo, n + 1)) = n + 1
    BY <1>1, <2>2, NthIs
  <2>4. QED
    BY <2>1, <2>3
<1>9. Depth(oo) = Depth(o) + 1 /\ Depth(o) = c + 1
  BY <1>2, <1>4 DEF Depth
<1>10. QED
  BY <1>7, <1>8, <1>9 DEF n

\* The scope of the new function comes on top of the others.
NewScope(s, r, g) ==
  r = Append(s, g) /\ s = SubSeq(r, 1, Len(r) - 1) /\ Len(r) > 1

LEMMA MoreScopes ==
  ASSUME NEW t, NEW u, NEW o, Owned(o), SameAt(t, u, o), NEW oo, oo = Append(o, "function")
  PROVE  NewScope(ScopesOf(t, o), ScopesOf(u, oo), ScopeAt(u, Len(o) + 1))
<1> DEFINE d == Depth(o)
           s == ScopesOf(t, o)
           r == ScopesOf(u, oo)
           g == ScopeAt(u, Len(o) + 1)
<1>1. o \in Seq(Owner) /\ oo \in Seq(Owner)
  BY OneMore DEF OnTop, Owned
<1>2. /\ s = [k \in 1 .. d |-> At(t, o, k)] /\ Len(s) = d /\ d \in Nat \ {0}
      /\ r = [k \in 1 .. d + 1 |-> At(u, oo, k)] /\ Len(r) = d + 1
  <2>1. Depth(oo) = d + 1
    BY OneMoreFunction
  <2>2. s = [k \in 1 .. d |-> At(t, o, k)] /\ Len(s) = d /\ d \in Nat \ {0}
    BY <1>1, ScopesOfIs
  <2>3. r = [k \in 1 .. Depth(oo) |-> At(u, oo, k)] /\ Len(r) = Depth(oo)
    BY <1>1, ScopesOfIs
  <2>4. QED
    BY <2>1, <2>2, <2>3
<1>3. \A k \in 1 .. d : At(u, oo, k) = At(t, o, k)
  <2>1. SUFFICES ASSUME NEW k \in 1 .. d PROVE At(u, oo, k) = At(t, o, k)
    OBVIOUS
  <2>2. CASE k = 1
    BY <2>2, SameScopeAt DEF At
  <2>3. CASE k # 1
    <3>1. k - 1 \in 1 .. Cardinality(Fns(o))
      <4>1. Cardinality(Fns(o)) \in Nat
        BY <1>1, Functions
      <4>2. QED
        BY <2>3, <4>1 DEF Depth
    <3>2. Nth(o, k - 1) \in Fns(o) /\ Nth(oo, k - 1) = Nth(o, k - 1)
      BY <1>1, <3>1, NthIs, OneMoreFunction
    <3>3. QED
      BY <2>3, <3>2, SameScopeAt DEF At
  <2>4. QED
    BY <2>2, <2>3
<1>4. At(u, oo, d + 1) = g
  <2>1. d + 1 # 1 /\ (d + 1) - 1 = d
    BY <1>2
  <2>2. Nth(oo, d) = Len(o) + 1
    BY OneMoreFunction
  <2> HIDE DEF d
  <2>3. At(u, oo, d + 1) = ScopeAt(u, Nth(oo, d))
    BY <2>1 DEF At
  <2>4. QED
    BY <2>2, <2>3
<1> DEFINE E == {At(t, o, k) : k \in 1 .. d} \cup {g}
<1> HIDE DEF d, s, r, g
<1>5. s \in Seq(E) /\ g \in E /\ \A k \in 1 .. d : s[k] = At(t, o, k)
  <2>1. s \in [1 .. d -> E]
    BY <1>2
  <2>2. QED
    BY <1>2, <2>1
<1>6. r \in Seq(E) /\ \A k \in 1 .. d : r[k] = s[k]
  <2>1. ASSUME NEW k \in 1 .. d + 1 PROVE At(u, oo, k) \in E
    <3>1. CASE k = d + 1
      BY <1>4, <1>5, <3>1
    <3>2. CASE k # d + 1
      <4>1. k \in 1 .. d
        BY <1>2, <3>2
      <4>2. QED
        BY <1>3, <4>1
    <3>3. QED
      BY <3>1, <3>2
  <2>2. r \in [1 .. d + 1 -> E]
    BY <1>2, <2>1
  <2>3. \A k \in 1 .. d : r[k] = At(u, oo, k)
    BY <1>2
  <2>4. \A k \in 1 .. d : r[k] = s[k]
    BY <1>3, <1>5, <2>3
  <2> HIDE DEF E
  <2>5. r \in Seq(E)
    <3>1. d + 1 \in Nat
      BY <1>2
    <3>2. QED
      BY <2>2, <3>1
  <2>6. QED
    BY <2>4, <2>5
<1>7. r[d + 1] = g
  BY <1>2, <1>4
<1> HIDE DEF E
<1>8. r = Append(s, g)
  <2>1. Append(s, g) \in Seq(E) /\ Len(Append(s, g)) = d + 1
    BY <1>2, <1>5
  <2>2. \A k \in 1 .. d + 1 : Append(s, g)[k] = IF k = d + 1 THEN g ELSE s[k]
    BY <1>2, <1>5
  <2>3. ASSUME NEW k \in 1 .. d + 1 PROVE Append(s, g)[k] = r[k]
    <3>1. k = d + 1 \/ k \in 1 .. d
      BY <1>2
    <3>2. QED
      BY <1>6, <1>7, <2>2, <3>1
  <2>4. QED
    BY <1>2, <1>6, <2>1, <2>3, SeqEqual
<1>9. s = SubSeq(r, 1, d)
  <2>1. SubSeq(r, 1, d) \in Seq(E) /\ Len(SubSeq(r, 1, d)) = d
    BY <1>2, <1>6
  <2>2. \A k \in 1 .. d : SubSeq(r, 1, d)[k] = r[k]
    BY <1>2, <1>6
  <2> DEFINE z == SubSeq(r, 1, d)
  <2> HIDE DEF z
  <2>3. Len(s) = Len(z) /\ \A k \in 1 .. Len(s) : s[k] = z[k]
    BY <1>2, <1>6, <2>1, <2>2 DEF z
  <2>4. z \in Seq(E)
    BY <2>1 DEF z
  <2>5. s = z
    BY <1>5, <2>3, <2>4, SeqEqual
  <2>6. QED
    BY <2>5 DEF z
<1>10. Len(r) > 1 /\ Len(r) - 1 = d
  BY <1>2
<1>11. NewScope(s, r, g)
  BY <1>8, <1>9, <1>10 DEF NewScope
<1>12. QED
  BY <1>11 DEF s, r, g

LEMMA SameAtAlong ==
  ASSUME NEW t, NEW u, NEW w, NEW o, SameAt(t, u, o)
  PROVE  SameAt(u, t, o) /\ (SameAt(u, w, o) => SameAt(t, w, o))
<1>1. SameAt(u, t, o)
  BY DEF SameAt
<1>2. SameAt(u, w, o) => SameAt(t, w, o)
  BY DEF SameAt
<1>3. QED
  BY <1>1, <1>2

LEMMA PushedAt ==
  ASSUME NEW t \in Seq(Table), NEW o \in Seq(Owner), Len(t) = Len(o), Len(t) # 0
  PROVE  SameAt(t, Tables!Push(t), o)
<1> DEFINE u == Tables!Push(t)
           n == Len(t)
<1>1. u \in Seq(Table) /\ \A y : SameIn(t, u, y)
  BY PushIs
<1>2. u = Append(t, <<>>) /\ n \in Nat
  BY DEF Tables!Push
<1> HIDE DEF u
<1>3. \A i \in 1 .. n : u[i] = t[i]
  BY <1>2
<1>4. Fns(o) \subseteq 1 .. n
  BY Functions
<1>5. \A i \in Fns(o) : Declared(u, i) = Declared(t, i)
  BY <1>3, <1>4 DEF Declared
<1>6. \A i \in Nat \ {0} : \A x : Now(t, i, x) = Now(u, i, x)
  BY <1>1, SameNow
<1>7. \A i \in Fns(o) : i \in Nat \ {0}
  BY <1>4
<1>8. QED
  BY <1>5, <1>6, <1>7 DEF SameAt, u

\* The tables of a function and of those that called it are good to be merged.
LEMMA GoodMerges ==
  ASSUME NEW w, NEW oo, Good(w, oo), NEW n \in Nat \ {0}, Len(w) = n + 1
  PROVE  Mergeable(w, n + 1)
<1> SUFFICES ASSUME NEW x, Up(w, x, n + 1), Has(w, x, n + 1 - 1), w[n + 1 - 1][x].readonly
             PROVE  w[n + 1][x].readonly
  BY DEF Mergeable
<1>1. n + 1 - 1 = n /\ n + 1 \in Nat /\ n + 1 > n /\ n + 1 .. n + 1 = {n + 1}
  OBVIOUS
<1>2. w \in Seq(Table) /\ Has(w, x, n) /\ w[n][x].readonly /\ Has(w, x, n + 1)
  BY <1>1 DEF Good, Up
<1>3. x \in All
  BY <1>2, EntryIs
<1>4. GoodFor(w, oo, x)
  BY <1>3 DEF Good
<1>5. Open(w, x, n, n + 1)
  BY <1>1 DEF Open, Up
<1>6. QED
  BY <1>1, <1>2, <1>4, <1>5 DEF GoodFor

LEMMA MergedAt ==
  ASSUME NEW w \in Seq(Table), NEW n \in Nat \ {0}, Len(w) = n + 1, Mergeable(w, n + 1),
         NEW u, u = Tables!PopMerge(w), NEW o, Fns(o) \subseteq 1 .. n
  PROVE  SameAt(w, u, o)
<1> DEFINE m == n + 1
<1>1. u \in Seq(Table) /\ Len(u) = n /\ \A x : MergedIn(w, u, x, m)
  BY PopMergeIs
<1>2. m \in Nat /\ m > 1 /\ m - 1 = n /\ DOMAIN w = 1 .. m /\ DOMAIN u = 1 .. n
  BY <1>1
<1> HIDE DEF m
<1>3. \A x : Topmost(w, x, m)
  BY <1>2 DEF Topmost, Has
<1>4. \A x : \A i \in 1 .. n : Now(u, i, x) = Now(w, i, x)
  BY <1>1, <1>2, <1>3, MergedNow
<1>5. ASSUME NEW i \in 1 .. n PROVE Declared(u, i) = Declared(w, i)
  <2>1. i \in Nat /\ i < m /\ i \in DOMAIN w /\ i \in DOMAIN u
    BY <1>2
  <2>2. ASSUME NEW x PROVE x \in Declared(u, i) <=> x \in Declared(w, i)
    <3>1. MergedIn(w, u, x, m)
      BY <1>1
    <3>2. CASE Up(w, x, m) => i # m - 1
      BY <2>1, <3>1, <3>2 DEF MergedIn, Has, Declared
    <3>3. CASE Up(w, x, m) /\ i = m - 1
      BY <2>1, <3>1, <3>3 DEF MergedIn, Has, Declared
    <3>4. QED
      BY <3>2, <3>3
  <2>3. QED
    BY <2>2
<1>6. 1 \in 1 .. n
  OBVIOUS
<1>7. QED
  BY <1>4, <1>5, <1>6 DEF SameAt

LEMMA ReturnGood ==
  ASSUME NEW w, NEW oo, Good(w, oo), NEW o, Owned(o), NEW k, oo = Append(o, k),
         NEW u, u = Tables!PopMerge(w)
  PROVE  Good(u, o)
<1> DEFINE n == Len(o)
           m == n + 1
<1>1. /\ w \in Seq(Table) /\ n \in Nat \ {0} /\ Len(w) = m /\ m \in Nat /\ m > 1 /\ m - 1 = n
      /\ \A i \in 1 .. n : oo[i] = o[i]
  BY DEF Good, Owned
<1>2. /\ u \in Seq(Table) /\ Len(u) = n /\ \A x : MergedIn(w, u, x, m)
  BY <1>1, GoodMerges, PopMergeIs
<1> HIDE DEF m, n
<1>3. SUFFICES ASSUME NEW x \in All PROVE GoodFor(u, o, x)
  BY <1>1, <1>2 DEF Good, n
<1>4. MergedIn(w, u, x, m) /\ GoodFor(w, oo, x)
  BY <1>2 DEF Good
<1>5. \A i \in Nat : Has(u, x, i) => i \in 1 .. n
  BY <1>2, EntryIs
<1>6. SUFFICES ASSUME NEW i \in Nat, Has(u, x, i)
               PROVE  /\ i > 1 /\ u[i][x].local => o[i] = "function"
                      /\ u[i][x].readonly =>
                           \A l \in Nat : l > i /\ Has(u, x, l) /\ Open(u, x, i, l)
                                             => u[l][x].readonly
  BY DEF GoodFor
<1>7. i \in 1 .. n /\ i < m
  BY <1>1, <1>5, <1>6
<1>8. \A l \in Nat : l < m => (Has(u, x, l) /\ u[l][x].local <=> Has(w, x, l) /\ w[l][x].local)
  BY <1>1, <1>4 DEF MergedIn
<1>9. i > 1 /\ u[i][x].local => o[i] = "function"
  <2>1. u[i][x].local => Has(w, x, i) /\ w[i][x].local
    BY <1>6, <1>7, <1>8
  <2>2. oo[i] = o[i]
    BY <1>1, <1>7
  <2>3. QED
    BY <1>4, <2>1, <2>2 DEF GoodFor
<1>10. ASSUME u[i][x].readonly, NEW l \in Nat, l > i, Has(u, x, l), Open(u, x, i, l)
       PROVE  u[l][x].readonly
  <2>1. l \in 1 .. n /\ l < m /\ i # m - 1
    BY <1>1, <1>5, <1>7, <1>10
  <2>2. Has(w, x, i) /\ w[i][x].readonly
    BY <1>4, <1>6, <1>10, <2>1 DEF MergedIn
  <2>3. Open(w, x, i, l)
    <3>1. \A j \in i + 1 .. l : j \in Nat /\ j < m
      BY <1>1, <2>1
    <3>2. QED
      BY <1>8, <1>10, <3>1 DEF Open
  <2>4. CASE Up(w, x, m) => l # m - 1
    <3>1. Has(w, x, l) /\ w[l][x] = u[l][x]
      BY <1>4, <1>10, <2>1, <2>4 DEF MergedIn
    <3>2. QED
      BY <1>4, <1>10, <2>2, <2>3, <3>1 DEF GoodFor
  <2>5. CASE Up(w, x, m) /\ l = m - 1
    <3>1. u[l][x].readonly = w[m][x].readonly
      BY <1>4, <2>5 DEF MergedIn
    <3>2. Open(w, x, i, m)
      <4>1. \A j \in i + 1 .. m : j \in i + 1 .. l \/ j = m
        BY <1>1, <1>10, <2>5
      <4>2. QED
        BY <2>3, <2>5, <4>1 DEF Open, Up
    <3>3. m > i /\ Has(w, x, m)
      BY <1>1, <1>7, <2>5 DEF Up
    <3>4. w[m][x].readonly
      BY <1>1, <1>4, <2>2, <3>2, <3>3 DEF GoodFor
    <3>5. QED
      BY <3>1, <3>4
  <2>6. QED
    BY <2>4, <2>5
<1>11. QED
  BY <1>9, <1>10

\* A declaration in the function that is executed.
LEMMA GoodDeclared ==
  ASSUME NEW t, NEW o, Good(t, o), NEW x \in All, NEW u \in Seq(Table), Len(u) = Len(t),
         NEW n, n = Len(t), o[n] = "function", ~Has(t, x, n), NEW e, SetIn(t, u, x, n, e), e.local,
         \A y : y # x => SameIn(t, u, y)
  PROVE  Good(u, o)
<1>1. /\ t \in Seq(Table) /\ Owned(o) /\ Len(t) = Len(o) /\ n \in Nat
      /\ \A y \in All : GoodFor(t, o, y)
  BY DEF Good, Owned
<1>2. ASSUME NEW y \in All, y # x PROVE GoodFor(u, o, y)
  <2>1. SameIn(t, u, y) /\ GoodFor(t, o, y)
    BY <1>1, <1>2
  <2>2. \A i, k \in Nat : Open(t, y, i, k) <=> Open(u, y, i, k)
    BY <2>1 DEF Open, SameIn
  <2>3. QED
    BY <2>1, <2>2 DEF GoodFor, SameIn
<1>3. GoodFor(u, o, x)
  <2>1. GoodFor(t, o, x)
    BY <1>1
  <2>2. SUFFICES ASSUME NEW i \in Nat, Has(u, x, i)
                 PROVE  /\ i > 1 /\ u[i][x].local => o[i] = "function"
                        /\ u[i][x].readonly =>
                             \A k \in Nat : k > i /\ Has(u, x, k) /\ Open(u, x, i, k)
                                               => u[k][x].readonly
    BY DEF GoodFor
  <2>3. i > 1 /\ u[i][x].local => o[i] = "function"
    BY <1>1, <2>1, <2>2 DEF SetIn, GoodFor
  <2>4. ASSUME u[i][x].readonly, NEW k \in Nat, k > i, Has(u, x, k), Open(u, x, i, k)
        PROVE  u[k][x].readonly
    <3>1. i \in 1 .. n /\ k \in 1 .. n
      BY <2>2, <2>4, EntryIs
    <3>2. k # n
      <4>1. k \in i + 1 .. k
        BY <2>4
      <4>2. QED
        BY <2>4, <4>1 DEF Open, SetIn
    <3>3. i # n
      BY <2>4, <3>1
    <3>4. Has(t, x, i) /\ t[i][x] = u[i][x] /\ Has(t, x, k) /\ t[k][x] = u[k][x]
      BY <2>2, <2>4, <3>2, <3>3 DEF SetIn
    <3>5. Open(t, x, i, k)
      <4>1. \A m \in i + 1 .. k : m \in Nat \ {n}
        BY <3>1, <3>2
      <4>2. QED
        BY <2>4, <4>1 DEF Open, SetIn
    <3>6. QED
      BY <2>1, <2>4, <3>4, <3>5 DEF GoodFor
  <2>5. QED
    BY <2>3, <2>4
<1>4. QED
  BY <1>1, <1>2, <1>3 DEF Good

\* The last table n of u declares x in addition to what t declares.
DeclaresIn(t, u, x, n, e) ==
  /\ \A i \in 1 .. n - 1 : Declared(u, i) = Declared(t, i)
  /\ Declared(u, n) = Declared(t, n) \cup {x}
  /\ Now(u, n, x) = Bound(e)
  /\ \A i \in Nat \ {0} : \A y : y # x \/ i # n => Now(u, i, y) = Now(t, i, y)

LEMMA DeclaredAt ==
  ASSUME NEW t \in Seq(Table), NEW x, NEW u \in Seq(Table), Len(u) = Len(t),
         NEW n \in Nat \ {0}, n = Len(t), ~Has(t, x, n), NEW e, SetIn(t, u, x, n, e), e.local,
         \A y : y # x => SameIn(t, u, y)
  PROVE  DeclaresIn(t, u, x, n, e)
<1>1. DOMAIN t = 1 .. n /\ DOMAIN u = 1 .. n
  OBVIOUS
<1>2. ASSUME NEW i \in 1 .. n, NEW y, y # x \/ i # n
      PROVE  y \in Declared(u, i) <=> y \in Declared(t, i)
  <2>1. /\ Has(t, y, i) <=> Has(u, y, i)
        /\ Has(t, y, i) => t[i][y] = u[i][y]
    BY <1>2 DEF SetIn, SameIn
  <2>2. QED
    BY <1>1, <2>1 DEF Declared, Has
<1>3. \A i \in 1 .. n - 1 : Declared(u, i) = Declared(t, i)
  <2>1. \A i \in 1 .. n - 1 : i \in 1 .. n /\ i # n
    OBVIOUS
  <2>2. QED
    BY <1>2, <2>1
<1>4. Declared(u, n) = Declared(t, n) \cup {x}
  <2>1. x \in Declared(u, n)
    BY DEF SetIn, Has, Declared
  <2>2. QED
    BY <1>2, <2>1
<1>5. Topmost(t, x, n)
  BY <1>1 DEF Topmost, Has
<1>6. /\ Now(u, n, x) = Bound(e)
      /\ \A i \in Nat \ {0} : i # n => Now(u, i, x) = Now(t, i, x)
  BY <1>5, DeclaredNow
<1>7. \A i \in Nat \ {0} : \A y : y # x => Now(u, i, y) = Now(t, i, y)
  BY SameNow
<1>8. QED
  BY <1>3, <1>4, <1>6, <1>7 DEF DeclaresIn

\* The parameters of a function.
ParamScope(e) == [x \in {Param} |-> Bound(e)]

\* The tables w of a function oo about to start see what the tables t of o do.
Starts(t, o, w, oo, m) ==
  /\ Good(t, o) /\ oo = Append(o, "function") /\ Good(w, oo) /\ SameAt(t, w, o)
  /\ m = Len(o) + 1 /\ ~Has(w, Param, m) /\ \A y : Has(w, y, m) => ~w[m][y].local
Started(t, o, u, oo, e) ==
  Good(u, oo) /\ ScopesOf(u, oo) = Append(ScopesOf(t, o), ParamScope(e))

LEMMA CallScopes ==
  ASSUME NEW t, NEW o, NEW w, NEW oo, NEW m, Starts(t, o, w, oo, m), NEW e \in Entries, e.local
  PROVE  Started(t, o, Tables!Put(w, m, Param, e), oo, e)
<1> DEFINE u == Tables!Put(w, m, Param, e)
<1>0. /\ Good(t, o) /\ oo = Append(o, "function") /\ Good(w, oo) /\ SameAt(t, w, o)
      /\ m = Len(o) + 1 /\ ~Has(w, Param, m) /\ \A y : Has(w, y, m) => ~w[m][y].local
      /\ u = Tables!Put(w, m, Param, e)
  BY DEF Starts
<1> HIDE DEF u
<1>1. /\ Owned(o) /\ o \in Seq(Owner) /\ Len(o) \in Nat \ {0} /\ m \in Nat \ {0} /\ m - 1 = Len(o)
      /\ w \in Seq(Table) /\ Len(oo) = m /\ oo[m] = "function" /\ Len(w) = m
      /\ Param \in All
  BY <1>0, OneMore DEF OnTop, Good, Owned, All
<1>2. /\ u \in Seq(Table) /\ Len(u) = m /\ SetIn(w, u, Param, m, e)
      /\ \A y : y # Param => SameIn(w, u, y)
  <2>1. m \in 1 .. Len(w)
    BY <1>0, <1>1
  <2>2. QED
    BY <1>0, <1>1, <2>1, PutIs
<1>3. Good(u, oo)
  BY <1>0, <1>1, <1>2, GoodDeclared
<1>4. DeclaresIn(w, u, Param, m, e)
  <2>1. w \in Seq(Table) /\ u \in Seq(Table) /\ Len(u) = Len(w) /\ m \in Nat \ {0} /\ m = Len(w)
    BY <1>0, <1>1, <1>2
  <2>2. SetIn(w, u, Param, m, e) /\ \A y : y # Param => SameIn(w, u, y)
    BY <1>0, <1>2
  <2>3. QED
    BY <1>0, <2>1, <2>2, DeclaredAt
<1>5. SameAt(w, u, o)
  <2>1. Fns(o) \subseteq 1 .. m - 1
    BY <1>0, <1>1, Functions
  <2>2. \A i \in (1 .. m - 1) \cup {1} : i \in Nat \ {0} /\ i # m
    BY <1>0, <1>1
  <2>3. QED
    BY <1>0, <1>4, <2>1, <2>2 DEF SameAt, DeclaresIn
<1>6. ScopesOf(u, oo) = Append(ScopesOf(t, o), ScopeAt(u, m))
  <2>1. SameAt(t, u, o)
    BY <1>0, <1>5, SameAtAlong
  <2>2. NewScope(ScopesOf(t, o), ScopesOf(u, oo), ScopeAt(u, Len(o) + 1))
    BY <1>0, <1>1, <2>1, MoreScopes
  <2>3. QED
    BY <1>0, <2>2 DEF NewScope
<1>7. ScopeAt(u, m) = [x \in {Param} |-> Bound(e)]
  <2>1. Declared(w, m) = {}
    BY <1>0, <1>1 DEF Declared, Has
  <2>2. ScopeAt(u, m) = [y \in Declared(u, m) |-> Now(u, m, y)]
    BY ScopeAtIs
  <2>3. QED
    BY <1>0, <1>4, <2>1, <2>2 DEF DeclaresIn
<1> DEFINE g == ScopeAt(u, m)
<1> HIDE DEF g
<1>8. g = ParamScope(e)
  BY <1>0, <1>7 DEF g, ParamScope
<1>9. ScopesOf(u, oo) = Append(ScopesOf(t, o), g)
  BY <1>0, <1>6 DEF g
<1>10. QED
  BY <1>3, <1>8, <1>9 DEF u, Started

LEMMA SameInAt ==
  ASSUME NEW t \in Seq(Table), NEW u \in Seq(Table), NEW o \in Seq(Owner), Len(t) = Len(o),
         Len(u) = Len(t), \A y : SameIn(t, u, y)
  PROVE  SameAt(t, u, o)
<1>1. \A i \in Nat \ {0} : \A x : Now(t, i, x) = Now(u, i, x)
  BY SameNow
<1>2. DOMAIN t = 1 .. Len(t) /\ DOMAIN u = 1 .. Len(t) /\ Fns(o) \subseteq 1 .. Len(t)
  BY Functions
<1>3. ASSUME NEW i \in 1 .. Len(t) PROVE Declared(u, i) = Declared(t, i)
  <2>1. ASSUME NEW y PROVE y \in Declared(u, i) <=> y \in Declared(t, i)
    <3>1. i \in DOMAIN t /\ i \in DOMAIN u /\ SameIn(t, u, y) /\ i \in Nat
      BY <1>2
    <3>2. /\ Has(t, y, i) <=> Has(u, y, i)
          /\ Has(t, y, i) => t[i][y] = u[i][y]
      BY <3>1 DEF SameIn
    <3>3. QED
      BY <3>1, <3>2 DEF Has, Declared
  <2>2. QED
    BY <2>1
<1>4. QED
  BY <1>1, <1>2, <1>3 DEF SameAt

(* The commands. *)

LEMMA CurIs ==
  ASSUME NEW t \in Seq(Table), NEW x
  PROVE  /\ Cur(t, x) = [val |-> Cur(t, x).val, ro |-> Cur(t, x).ro]
         /\ Cur(t, x).ro \in BOOLEAN
<1> DEFINE f == Tables!Found(t, x)
<1>1. CASE f = 0
  BY <1>1 DEF Cur, Absent
<1>2. CASE f # 0
  <2>1. f \in 0 .. Len(t) /\ Has(t, x, f)
    BY <1>2, FoundIs
  <2>2. t[f][x] \in Entries
    BY <2>1, EntryIs
  <2>3. t[f][x].readonly \in BOOLEAN
    BY <2>2 DEF Entries
  <2>4. Cur(t, x) = Bound(t[f][x])
    BY <1>2 DEF Cur
  <2>5. QED
    BY <2>3, <2>4 DEF Bound
<1>3. QED
  BY <1>1, <1>2

\* S!Home(x) has x, with the value that a command finds.
HomeHas(x) ==
  /\ x \in DOMAIN Tables!Scopes[Tables!S!Home(x)]
  /\ Tables!Scopes[Tables!S!Home(x)][x] = Cur(symtab_stack, x)

LEMMA HomeValue ==
  ASSUME Good(symtab_stack, owners), NEW x \in All
  PROVE  HomeHas(x)
<1>1. PICK h : IsHome(symtab_stack, owners, x, h)
  BY HomeExists
<1>2. Tables!S!Home(x) = Index(owners, h)
  BY <1>1, HomeScope
<1>3. /\ x \in DOMAIN ScopesOf(symtab_stack, owners)[Index(owners, h)]
      /\ ScopesOf(symtab_stack, owners)[Index(owners, h)][x] = Now(symtab_stack, h, x)
  BY <1>1, HomeIs
<1>4. Now(symtab_stack, h, x) = Cur(symtab_stack, x)
  BY <1>1, HomeNow
<1>5. Tables!Scopes = ScopesOf(symtab_stack, owners)
  BY ScopesAre
<1>6. QED
  BY <1>2, <1>3, <1>4, <1>5 DEF HomeHas

\* What the tables do to a variable, its scope does.
LEMMA BindStep ==
  ASSUME Good(symtab_stack, owners), NEW x \in All, owners' = owners, NEW b,
         Assigns(symtab_stack, symtab_stack', x, b), Cur(symtab_stack, x).ro => b.ro
  PROVE  Good(symtab_stack', owners') /\ Tables!S!Bind(Tables!S!Home(x), x, b)
<1>1. PICK h : IsHome(symtab_stack, owners, x, h)
  BY HomeExists
<1>2. Tables!S!Home(x) = Index(owners, h)
  BY <1>1, HomeScope
<1>3. ScopesOf(symtab_stack', owners)
        = [ScopesOf(symtab_stack, owners) EXCEPT ![Index(owners, h)] = Tables!S!With(@, x, b)]
  BY <1>1, AssignedScopes
<1>4. /\ Tables!Scopes = ScopesOf(symtab_stack, owners)
      /\ (Tables!Scopes)' = ScopesOf(symtab_stack', owners)
  BY ScopesAre
<1>5. Tables!S!Bind(Tables!S!Home(x), x, b)
  BY <1>2, <1>3, <1>4 DEF Tables!S!Bind
<1>6. Good(symtab_stack', owners')
  BY GoodAssigned
<1>7. QED
  BY <1>5, <1>6

LEMMA SetStep ==
  ASSUME Good(symtab_stack, owners), NEW x \in Names, NEW v \in Values, owners' = owners,
         NEW no, no = FALSE,
         Assigns(symtab_stack, symtab_stack', x, Rebound(Cur(symtab_stack, x), v, no))
  PROVE  Good(symtab_stack', owners') /\ Tables!S!AssignIfAllowed(x, v)
<1> DEFINE c == Cur(symtab_stack, x)
           b == Rebound(c, v, no)
<1>1. x \in All /\ v # Null
  BY ShellStateAssumption DEF All
<1>2. c.ro => b.ro
  BY DEF Rebound
<1>3. Good(symtab_stack', owners') /\ Tables!S!Bind(Tables!S!Home(x), x, b)
  BY <1>1, <1>2, BindStep
<1>4. HomeHas(x)
  BY <1>1, HomeValue
<1>5. b = IF c.ro THEN c ELSE [val |-> v, ro |-> FALSE]
  BY <1>1 DEF Rebound
<1> HIDE DEF b, c
<1>6. c = Cur(symtab_stack, x)
  BY DEF c
<1>7. Tables!S!AssignIfAllowed(x, v)
  BY <1>3, <1>4, <1>5, <1>6
  DEF HomeHas, Tables!S!AssignIfAllowed, Tables!S!Set, Tables!S!Binding
<1>8. QED
  BY <1>3, <1>7

LEMMA AssignmentStep ==
  ASSUME Good(symtab_stack, owners), NEW x \in Names, NEW v \in Values, Tables!Assignment(x, v)
  PROVE  Good(symtab_stack', owners') /\ Tables!S!AssignIfAllowed(x, v)
<1> DEFINE t == symtab_stack
           no == FALSE
           w == Tables!PrefixSet(Tables!Push(t), x, v)
<1>1. x \in All /\ t \in Seq(Table) /\ Len(t) # 0
  BY DEF All, Good, Owned
<1>2. no \in BOOLEAN /\ ~no /\ no = FALSE
  OBVIOUS
<1>3. symtab_stack' = Tables!PopMerge(w) /\ owners' = owners
  BY DEF Tables!Assignment, Tables!Becomes
<1> HIDE DEF no, w
<1>4. Prefixed(t, w, x, Rebound(Cur(t, x), v, no))
  BY <1>1, <1>2, PrefixSets DEF w
<1>5. Assigns(t, symtab_stack', x, Rebound(Cur(t, x), v, no))
  BY <1>1, <1>3, <1>4, PrefixAssigns
<1>6. QED
  BY <1>2, <1>3, <1>5, SetStep

LEMMA BuiltinStep ==
  ASSUME Good(symtab_stack, owners), NEW x \in Names, NEW v \in Values, Tables!BuiltinSet(x, v)
  PROVE  Good(symtab_stack', owners') /\ Tables!S!AssignIfAllowed(x, v)
<1> DEFINE t == symtab_stack
           no == FALSE
<1>1. x \in All /\ t \in Seq(Table) /\ Len(t) # 0
  BY DEF All, Good, Owned
<1>2. no \in BOOLEAN /\ ~no /\ no = FALSE
  OBVIOUS
<1>3. owners' = owners /\
      symtab_stack' = Tables!PopMerge(Tables!DoSet(Tables!Push(t), x, v, no, no, no))
  BY DEF Tables!BuiltinSet, Tables!Becomes
<1> HIDE DEF no
<1>4. Assigns(t, symtab_stack', x, Rebound(Cur(t, x), v, no))
  BY <1>1, <1>2, <1>3, BuiltinAssigns
<1>5. QED
  BY <1>2, <1>3, <1>4, SetStep

LEMMA WordStep ==
  ASSUME Good(symtab_stack, owners), NEW x \in Names, NEW v \in Values, Tables!WordSet(x, v),
         Risky = {}
  PROVE  Good(symtab_stack', owners') /\ Tables!S!AssignIfAllowed(x, v)
<1> DEFINE t == symtab_stack
           no == FALSE
<1>1. x \in All /\ t \in Seq(Table) /\ Len(t) # 0
  BY DEF All, Good, Owned
<1>2. no \in BOOLEAN /\ ~no /\ no = FALSE
  OBVIOUS
<1>3. /\ owners' = owners /\ Tables!Found(t, x) # 0
      /\ symtab_stack' = Tables!Pop(Tables!DoSet(Tables!Push(t), x, v, no, no, no))
  BY DEF Tables!WordSet, Tables!Becomes
<1> HIDE DEF no
<1>4. Assigns(t, symtab_stack', x, Rebound(Cur(t, x), v, no))
  BY <1>1, <1>2, <1>3, WordAssigns
<1>5. QED
  BY <1>2, <1>3, <1>4, SetStep

LEMMA ForStep ==
  ASSUME Good(symtab_stack, owners), NEW x \in Names, NEW v \in Values, Tables!ForLoop(x, v)
  PROVE  Good(symtab_stack', owners') /\ Tables!S!AssignIfAllowed(x, v)
<1> DEFINE t == symtab_stack
           no == FALSE
<1>1. x \in All /\ t \in Seq(Table) /\ Len(t) # 0
  BY DEF All, Good, Owned
<1>2. no \in BOOLEAN /\ ~no /\ no = FALSE
  OBVIOUS
<1>3. owners' = owners /\ symtab_stack' = Tables!DoSet(t, x, v, no, no, no)
  BY DEF Tables!ForLoop, Tables!Becomes
<1> HIDE DEF no
<1>4. Assigns(t, symtab_stack', x, Rebound(Cur(t, x), v, no))
  BY <1>1, <1>2, <1>3, SetAssigns
<1>5. QED
  BY <1>2, <1>3, <1>4, SetStep

LEMMA SameStep ==
  ASSUME Good(symtab_stack, owners), Owned(owners'), Fns(owners') = Fns(owners),
         SameAt(symtab_stack, symtab_stack', owners)
  PROVE  Tables!Same
<1>1. owners \in Seq(Owner) /\ owners' \in Seq(Owner)
  BY DEF Good, Owned
<1>2. ScopesOf(symtab_stack', owners') = ScopesOf(symtab_stack, owners)
  BY <1>1, SameScopes
<1>3. QED
  BY <1>2, ScopesAre DEF Tables!Same

LEMMA ExternalStep ==
  ASSUME Good(symtab_stack, owners), NEW x \in Names, NEW v \in Values, Tables!External(x, v),
         Risky = {}
  PROVE  Good(symtab_stack', owners') /\ Tables!Same
<1> DEFINE t == symtab_stack
           u == symtab_stack'
           no == FALSE
           w == Tables!PrefixSet(Tables!Push(t), x, v)
<1>1. x \in All /\ t \in Seq(Table) /\ Len(t) = Len(owners) /\ Owned(owners)
  BY DEF All, Good
<1>2. no \in BOOLEAN /\ ~no
  OBVIOUS
<1>3. u = Tables!Pop(w) /\ owners' = owners
  <2>1. \A expands \in Tables!Expands : expands
    BY DEF Tables!Expands
  <2>2. Tables!Becomes(Tables!Pop(w))
    BY <2>1 DEF Tables!External
  <2>3. QED
    BY <2>2 DEF Tables!Becomes
<1> HIDE DEF no, w
<1>4. Prefixed(t, w, x, Rebound(Cur(t, x), v, no))
  BY <1>1, <1>2, PrefixSets DEF w
<1>5. u \in Seq(Table) /\ Len(u) = Len(t) /\ \A y : SameIn(t, u, y)
  BY <1>1, <1>3, <1>4, PrefixGone
<1> HIDE DEF t, u
<1>6. \A i \in 1 .. Len(owners) : i \in DOMAIN owners' /\ owners'[i] = owners[i]
  BY <1>1, <1>3 DEF Owned
<1>7. Good(u, owners')
  BY <1>1, <1>3, <1>5, <1>6, GoodSame DEF t
<1>8. SameAt(t, u, owners)
  BY <1>1, <1>5, SameInAt DEF Owned
<1>9. Tables!Same
  BY <1>1, <1>3, <1>8, SameStep DEF t, u
<1>10. QED
  BY <1>7, <1>9 DEF u

LEMMA ReadOnlyStep ==
  ASSUME Good(symtab_stack, owners), NEW x \in Names, Tables!ReadOnly(x)
  PROVE  Good(symtab_stack', owners') /\ Tables!S!ReadOnly(x)
<1> DEFINE t == symtab_stack
           no == FALSE
           yes == TRUE
           c == Cur(t, x)
           b == Rebound(c, Null, yes)
<1>1. x \in All /\ t \in Seq(Table) /\ Len(t) # 0 /\ Null \in Values \cup {Null}
  BY DEF All, Good, Owned
<1>2. no \in BOOLEAN /\ ~no /\ yes \in BOOLEAN /\ yes = TRUE
  OBVIOUS
<1>3. owners' = owners /\
      symtab_stack' = Tables!PopMerge(Tables!DoSet(Tables!Push(t), x, Null, no, yes, no))
  BY DEF Tables!ReadOnly, Tables!Becomes
<1> HIDE DEF no, yes
<1>4. Assigns(t, symtab_stack', x, b)
  BY <1>1, <1>2, <1>3, BuiltinAssigns
<1>5. c.ro => b.ro
  BY DEF Rebound
<1>6. Good(symtab_stack', owners') /\ Tables!S!Bind(Tables!S!Home(x), x, b)
  BY <1>1, <1>3, <1>4, <1>5, BindStep
<1>7. b = [val |-> c.val, ro |-> TRUE]
  <2>1. CASE c.ro
    <3>1. c = [val |-> c.val, ro |-> c.ro] /\ c.ro \in BOOLEAN
      BY <1>1, CurIs
    <3> HIDE DEF c
    <3>2. c.ro = TRUE
      BY <2>1, <3>1
    <3>3. c = [val |-> c.val, ro |-> TRUE]
      BY <3>1, <3>2
    <3>4. b = c
      BY <2>1 DEF Rebound
    <3>5. QED
      BY <3>3, <3>4
  <2>2. CASE ~c.ro
    BY <1>2, <2>2 DEF Rebound
  <2>3. QED
    BY <2>1, <2>2
<1>8. HomeHas(x)
  BY <1>1, HomeValue
<1> HIDE DEF b, c
<1>9. c = Cur(symtab_stack, x)
  BY DEF c
<1>10. Tables!S!ReadOnly(x)
  BY <1>6, <1>7, <1>8, <1>9
  DEF HomeHas, Tables!S!ReadOnly, Tables!S!Value, Tables!S!Binding
<1>11. QED
  BY <1>6, <1>10

\* declare -g: nothing but the shell's table has the variable.
LEMMA DeclareGlobalStep ==
  ASSUME Good(symtab_stack, owners), LevelsAre, NEW x \in Names, NEW v \in Values,
         Tables!DeclareGlobal(x, v), Risky = {}
  PROVE  Good(symtab_stack', owners') /\ Tables!S!AssignGlobal(x, v)
<1> DEFINE t == symtab_stack
           n == Len(t)
           old == Old(t, x, 1)
           c == Cur(t, x)
           b == Rebound(c, v, FALSE)
           pops == symtab_level > 0
           e == IF old.readonly THEN old ELSE [old EXCEPT !.val = v, !.local = @ \/ pops]
<1>1. /\ x \in All /\ t \in Seq(Table) /\ n \in Nat \ {0} /\ v # Null /\ 1 \in 1 .. n
      /\ DOMAIN t = 1 .. n
  BY ShellStateAssumption DEF All, Good, Owned
<1>2. \A i \in 2 .. n : x \notin DOMAIN t[i]
  BY DEF Tables!DeclareGlobal
<1>3. \A i \in Nat : Has(t, x, i) => i = 1
  BY <1>1, <1>2 DEF Has
<1>4. old \in Entries
  BY <1>1, OldIs
<1>5. owners' = owners /\ symtab_stack' = Tables!Put(t, 1, x, e)
  <2>1. ~(pops /\ x \in DOMAIN t[n])
    <3>1. n > 1 => n \in 2 .. n
      BY <1>1
    <3>2. pops => n > 1
      BY <1>1 DEF LevelsAre, Good
    <3>3. QED
      BY <1>2, <3>1, <3>2
  <2>2. old = IF x \in DOMAIN t[1] THEN t[1][x] ELSE Tables!Entry(Null, FALSE, FALSE)
    BY <1>1 DEF Old, Has, New, Tables!Entry
  <2> DEFINE d == IF x \in DOMAIN t[1] THEN t[1][x] ELSE Tables!Entry(Null, FALSE, FALSE)
             g == IF d.readonly THEN [d EXCEPT !.val = d.val]
                  ELSE [d EXCEPT !.val = v, !.local = @ \/ pops]
  <2>3. owners' = owners /\ symtab_stack' = Tables!Put(t, 1, x, g)
    BY <2>1 DEF Tables!DeclareGlobal, Tables!Becomes, Tables!Lowers
  <2>4. d = old
    BY <2>2
  <2> HIDE DEF d, old
  <2>5. [old EXCEPT !.val = old.val] = old
    BY <1>4 DEF Entries
  <2>6. g = e
    BY <2>4, <2>5
  <2>7. QED
    BY <2>3, <2>6
<1>6. e \in Entries /\ Bound(e) = Rebound(Bound(old), v, FALSE)
  <2> HIDE DEF old
  <2>1. CASE old.readonly
    BY <1>4, <2>1 DEF Bound, Rebound
  <2>2. CASE ~old.readonly
    <3>1. e = [old EXCEPT !.val = v, !.local = old.local \/ pops]
      BY <2>2
    <3>2. e.readonly = old.readonly /\ e.val = v
      BY <1>4, <3>1 DEF Entries
    <3>3. old.readonly = FALSE
      BY <1>4, <2>2 DEF Entries
    <3>4. e \in Entries
      <4>1. (old.local \/ pops) \in BOOLEAN
        OBVIOUS
      <4>2. QED
        BY <1>4, <3>1, <4>1 DEF Entries
    <3> HIDE DEF e
    <3>5. Bound(e) = [val |-> v, ro |-> FALSE]
      BY <3>2, <3>3 DEF Bound
    <3>6. Rebound(Bound(old), v, FALSE) = [val |-> v, ro |-> FALSE]
      BY <1>1, <2>2 DEF Bound, Rebound
    <3>7. QED
      BY <3>4, <3>5, <3>6
  <2>3. QED
    BY <2>1, <2>2
<1>7. Bound(old) = c
  <2>1. CASE Has(t, x, 1)
    <3>1. Topmost(t, x, 1)
      BY <1>3 DEF Topmost
    <3>2. Tables!Found(t, x) = 1
      BY <1>1, <2>1, <3>1, FoundIs
    <3>3. QED
      BY <2>1, <3>2 DEF Cur, Old
  <2>2. CASE ~Has(t, x, 1)
    <3>1. \A i \in Nat : ~Has(t, x, i)
      BY <1>3, <2>2
    <3>2. Tables!Found(t, x) = 0
      BY <1>1, <3>1, FoundIs
    <3>3. QED
      BY <2>2, <3>2 DEF Cur, Old, Bound, New, Absent
  <2>3. QED
    BY <2>1, <2>2
<1>8. Assigns(t, symtab_stack', x, b)
  <2> HIDE DEF e, old
  <2>1. /\ symtab_stack' \in Seq(Table) /\ Len(symtab_stack') = Len(t)
        /\ SetIn(t, symtab_stack', x, 1, e) /\ \A y : y # x => SameIn(t, symtab_stack', y)
    BY <1>1, <1>5, <1>6, PutIs
  <2>2. Topmost(t, x, 1)
    BY <1>3 DEF Topmost
  <2>3. SameLocals(t, symtab_stack', x)
    BY <2>1 DEF SameLocals, SetIn
  <2>4. Changed(t, symtab_stack', x, 1, e)
    BY <2>1, <2>2, <2>3 DEF Changed
  <2>5. QED
    BY <1>1, <1>6, <1>7, <2>1, <2>4 DEF Assigns
<1>9. c.ro => b.ro
  BY DEF Rebound
<1>10. Good(symtab_stack', owners') /\ Tables!S!Bind(Tables!S!Home(x), x, b)
  BY <1>1, <1>5, <1>8, <1>9, BindStep
<1>11. Tables!S!Home(x) = 1
  <2>1. 1 \in 1 .. Len(owners) /\ Len(owners) \in Nat
    BY DEF Good, Owned
  <2>2. Open(t, x, 1, Len(owners))
    BY <1>3, <2>1 DEF Open
  <2>3. IsHome(t, owners, x, 1)
    BY <2>1, <2>2 DEF IsHome
  <2>4. Tables!S!Home(x) = Index(owners, 1)
    BY <1>1, <2>3, HomeScope
  <2>5. QED
    BY <2>4 DEF Index
<1>12. HomeHas(x)
  BY <1>1, HomeValue
<1>13. b = IF c.ro THEN c ELSE [val |-> v, ro |-> FALSE]
  BY <1>1 DEF Rebound
<1> HIDE DEF b, c
<1>14. c = Cur(symtab_stack, x)
  BY DEF c
<1>15. Tables!S!AssignGlobal(x, v)
  BY <1>10, <1>11, <1>12, <1>13, <1>14
  DEF HomeHas, Tables!S!AssignGlobal, Tables!S!Set, Tables!S!Binding
<1>16. QED
  BY <1>10, <1>15

LEMMA AssignedHome ==
  ASSUME Good(symtab_stack, owners), NEW x \in All, NEW w, NEW b, Assigns(symtab_stack, w, x, b)
  PROVE  ScopesOf(w, owners)
           = [Tables!Scopes EXCEPT ![Tables!S!Home(x)] = Tables!S!With(@, x, b)]
<1>1. PICK h : IsHome(symtab_stack, owners, x, h)
  BY HomeExists
<1>2. Tables!S!Home(x) = Index(owners, h)
  BY <1>1, HomeScope
<1>3. ScopesOf(w, owners)
        = [ScopesOf(symtab_stack, owners) EXCEPT ![Index(owners, h)] = Tables!S!With(@, x, b)]
  BY <1>1, AssignedScopes
<1>4. Tables!Scopes = ScopesOf(symtab_stack, owners)
  BY ScopesAre
<1>5. QED
  BY <1>2, <1>3, <1>4

\* The entry for x is taken out of table i.
Drop(t, i, x) == [t EXCEPT ![i] = [y \in DOMAIN t[i] \ {x} |-> t[i][y]]]
Dropped(t, u, x, i) ==
  /\ u \in Seq(Table) /\ Len(u) = Len(t)
  /\ \A y : y # x => SameIn(t, u, y)
  /\ ~Has(u, x, i)
  /\ \A j \in Nat : Has(u, x, j) => Has(t, x, j)
  /\ \A j \in 1 .. Len(t) : Declared(u, j) = Declared(t, j) \ (IF j = i THEN {x} ELSE {})

LEMMA DropIs ==
  ASSUME NEW t \in Seq(Table), NEW x, NEW i \in 1 .. Len(t), NEW u, u = Drop(t, i, x)
  PROVE  Dropped(t, u, x, i)
<1> DEFINE D == DOMAIN t[i] \ {x}
           f == [y \in D |-> t[i][y]]
<1>1. t[i] \in Table /\ Len(t) \in Nat /\ DOMAIN t = 1 .. Len(t)
  OBVIOUS
<1>2. DOMAIN t[i] \in SUBSET All /\ \A y \in DOMAIN t[i] : t[i][y] \in Entries
  BY <1>1 DEF Table
<1>3. D \in SUBSET All /\ f \in [D -> Entries] /\ DOMAIN f = D /\ \A y \in D : f[y] = t[i][y]
  BY <1>2
<1>4. u = [t EXCEPT ![i] = f] /\ \A y : y \in D <=> y \in DOMAIN t[i] /\ y # x
  BY DEF Drop
<1> HIDE DEF D, f
<1>5. f \in Table
  BY <1>3 DEF Table
<1>6. u \in Seq(Table) /\ Len(u) = Len(t) /\ DOMAIN u = DOMAIN t
  BY <1>4, <1>5
<1>7. u[i] = f /\ \A j \in DOMAIN t : j # i => u[j] = t[j]
  BY <1>1, <1>4
<1>8. ASSUME NEW y, y # x PROVE SameIn(t, u, y)
  BY <1>3, <1>4, <1>6, <1>7, <1>8 DEF SameIn, Has
<1>9. ~Has(u, x, i)
  BY <1>3, <1>4, <1>7 DEF Has
<1>10. \A j \in Nat : Has(u, x, j) => Has(t, x, j)
  BY <1>3, <1>4, <1>6, <1>7 DEF Has
<1>11. ASSUME NEW j \in 1 .. Len(t)
       PROVE  Declared(u, j) = Declared(t, j) \ (IF j = i THEN {x} ELSE {})
  BY <1>1, <1>3, <1>4, <1>7 DEF Declared
<1>12. QED
  BY <1>6, <1>8, <1>9, <1>10, <1>11 DEF Dropped

LEMMA NotCopied ==
  ASSUME NEW n \in Nat, NEW X \in SUBSET (1 .. n), ~(Tables!Cardinality(X) > 1),
         NEW i \in X, NEW j \in X
  PROVE  i = j
<1>1. SUFFICES ASSUME i # j PROVE FALSE
  OBVIOUS
<1>2. IsFiniteSet(1 .. n)
  BY FS_Interval
<1>3. IsFiniteSet(X) /\ Cardinality(X) \in Nat
  BY <1>2, FS_Subset, FS_CardinalityType
<1>4. IsFiniteSet({i}) /\ Cardinality({i}) = 1
  BY FS_Singleton
<1>5. IsFiniteSet({i} \cup {j}) /\ Cardinality({i} \cup {j}) = 2
  <2>1. j \notin {i}
    BY <1>1
  <2>2. IsFiniteSet({i} \cup {j}) /\ Cardinality({i} \cup {j}) = Cardinality({i}) + 1
    BY <1>4, <2>1, FS_AddElement
  <2>3. QED
    BY <1>4, <2>2
<1>6. {i} \cup {j} \in SUBSET X
  OBVIOUS
<1>7. Cardinality({i} \cup {j}) <= Cardinality(X)
  BY <1>3, <1>6, FS_Subset
<1>8. ~(Cardinality(X) > 1)
  BY SameCardinality
<1>9. QED
  BY <1>3, <1>5, <1>7, <1>8

\* unset, of a variable that has not been copied.
LEMMA UnsetStep ==
  ASSUME Good(symtab_stack, owners), NEW x \in Names, Tables!Unset(x), Risky = {}
  PROVE  Good(symtab_stack', owners') /\ Tables!S!Unset(x)
<1> DEFINE t == symtab_stack
           u == symtab_stack'
           i == Tables!Found(t, x)
           e == t[i][x]
           n == Len(t)
           c == Cur(t, x)
<1>1. /\ x \in All /\ t \in Seq(Table) /\ n \in Nat \ {0} /\ DOMAIN t = 1 .. n /\ n = Len(owners)
      /\ Owned(owners)
  BY DEF All, Good, Owned
<1>2. /\ i # 0 /\ ~e.readonly /\ owners' = owners
      /\ e.local \/ ~Tables!Copied(x)
      /\ IF e.local THEN u = Tables!Put(t, i, x, Tables!Entry(Null, TRUE, FALSE))
         ELSE u = Drop(t, i, x)
  BY DEF Tables!Unset, Tables!Becomes, Drop
<1>3. i \in 1 .. n /\ i \in Nat \ {0} /\ Has(t, x, i) /\ Topmost(t, x, i)
  <2>1. i \in 0 .. n
    BY <1>1, FoundIs
  <2>2. Has(t, x, i) /\ Topmost(t, x, i)
    BY <1>1, <1>2, FoundIs
  <2>3. QED
    BY <1>1, <1>2, <2>1, <2>2
<1>4. c = Bound(e) /\ ~c.ro
  BY <1>2 DEF Cur, Bound
<1>5. HomeHas(x)
  BY <1>1, HomeValue
<1>6. ASSUME Tables!S!Bind(Tables!S!Home(x), x, Absent) PROVE Tables!S!Unset(x)
  <2> HIDE DEF c
  <2>1. c = Cur(symtab_stack, x)
    BY DEF c
  <2>2. QED
    BY <1>4, <1>5, <1>6, <2>1
    DEF HomeHas, Tables!S!Unset, Tables!S!Set, Tables!S!Binding, Absent
<1> HIDE DEF c, i
<1>7. CASE e.local
  <2> DEFINE g == Tables!Entry(Null, TRUE, FALSE)
  <2>1. g \in Entries /\ g.local = TRUE /\ Bound(g) = Absent
    BY DEF Tables!Entry, Entries, Bound, Absent
  <2>2. u = Tables!Put(t, i, x, g)
    BY <1>2, <1>7
  <2> HIDE DEF g
  <2>3. /\ u \in Seq(Table) /\ Len(u) = n
        /\ SetIn(t, u, x, i, g) /\ \A y : y # x => SameIn(t, u, y)
    BY <1>1, <1>3, <2>1, <2>2, PutIs
  <2>4. SameLocals(t, u, x)
    <3>1. SUFFICES ASSUME NEW m \in Nat
                   PROVE  Has(t, x, m) /\ t[m][x].local <=> Has(u, x, m) /\ u[m][x].local
      BY DEF SameLocals
    <3>2. CASE m = i
      BY <1>3, <1>7, <2>1, <2>3, <3>2 DEF SetIn
    <3>3. CASE m # i
      BY <2>3, <3>3 DEF SetIn
    <3>4. QED
      BY <3>2, <3>3
  <2>5. Changed(t, u, x, i, g)
    BY <1>3, <2>3, <2>4 DEF Changed
  <2>6. Assigns(t, u, x, Absent)
    BY <1>3, <2>1, <2>3, <2>5 DEF Assigns
  <2>7. Good(u, owners') /\ Tables!S!Bind(Tables!S!Home(x), x, Absent)
    <3>1. Cur(symtab_stack, x).ro => Absent.ro
      BY <1>4 DEF c
    <3>2. QED
      BY <1>1, <1>2, <2>6, <3>1, BindStep
  <2>8. QED
    BY <1>6, <2>7
<1>8. CASE ~e.local
  <2> DEFINE w == Tables!Put(t, i, x, New)
  <2>1. New \in Entries /\ New.local = FALSE /\ Bound(New) = Absent
    BY DEF New, Entries, Bound, Absent
  <2>2. u = Drop(t, i, x)
    BY <1>2, <1>8
  <2>3. /\ u \in Seq(Table) /\ Len(u) = n /\ \A y : y # x => SameIn(t, u, y)
        /\ ~Has(u, x, i) /\ \A j \in Nat : Has(u, x, j) => Has(t, x, j)
        /\ \A j \in 1 .. n : Declared(u, j) = Declared(t, j) \ (IF j = i THEN {x} ELSE {})
    <3>1. Dropped(t, u, x, i)
      BY <1>1, <1>3, <2>2, DropIs
    <3>2. QED
      BY <3>1 DEF Dropped
  <2>4. /\ w \in Seq(Table) /\ Len(w) = n
        /\ SetIn(t, w, x, i, New) /\ \A y : y # x => SameIn(t, w, y)
    BY <1>1, <1>3, <2>1, PutIs
  <2> HIDE DEF w
  <2>1a. \A j \in Nat : Has(t, x, j) => j = i
    <3>1. ~Tables!Copied(x)
      BY <1>2, <1>8
    <3> DEFINE X == {j \in DOMAIN t : x \in DOMAIN t[j]}
    <3>2. X \in SUBSET (1 .. n) /\ ~(Tables!Cardinality(X) > 1)
      BY <1>1, <3>1 DEF Tables!Copied
    <3>3. \A j : Has(t, x, j) <=> j \in X
      BY DEF Has
    <3> HIDE DEF X
    <3>4. QED
      BY <1>1, <1>3, <3>2, <3>3, NotCopied
  <2>5. \A j \in Nat : ~Has(u, x, j)
    BY <2>1a, <2>3
  <2>6. SameLocals(t, w, x)
    <3>1. SUFFICES ASSUME NEW m \in Nat
                   PROVE  Has(t, x, m) /\ t[m][x].local <=> Has(w, x, m) /\ w[m][x].local
      BY DEF SameLocals
    <3>2. CASE m = i
      BY <1>3, <1>8, <2>1, <2>4, <3>2 DEF SetIn
    <3>3. CASE m # i
      BY <2>4, <3>3 DEF SetIn
    <3>4. QED
      BY <3>2, <3>3
  <2>7. Changed(t, w, x, i, New)
    BY <1>3, <2>4, <2>6 DEF Changed
  <2>8. Assigns(t, w, x, Absent)
    BY <1>3, <2>1, <2>4, <2>7 DEF Assigns
  <2>9. ScopesOf(w, owners)
           = [Tables!Scopes EXCEPT ![Tables!S!Home(x)] = Tables!S!With(@, x, Absent)]
    BY <1>1, <2>8, AssignedHome
  <2>10. SameAt(w, u, owners)
    <3>1. Fns(owners) \subseteq 1 .. n
      BY <1>1, Functions DEF Owned
    <3>2. ASSUME NEW j \in Nat \ {0} PROVE Now(w, j, x) = Absent /\ Now(u, j, x) = Absent
      <4>1. Now(u, j, x) = Absent
        <5>1. CopiesFrom(u, x, j) = {}
          BY <2>5 DEF CopiesFrom
        <5>2. QED
          BY <2>3, <5>1, NowIs
      <4>2. \A k \in CopiesFrom(w, x, j) : k = i
        BY <2>4, <2>1a DEF CopiesFrom, SetIn
      <4>3. w[i][x] = New
        BY <2>4 DEF SetIn
      <4>4. Now(w, j, x) = Absent
        <5>1. CASE CopiesFrom(w, x, j) = {}
          BY <2>4, <5>1, NowIs
        <5>2. CASE CopiesFrom(w, x, j) # {}
          <6>1. PICK k \in CopiesFrom(w, x, j) : \A l \in CopiesFrom(w, x, j) : l <= k
            BY <2>4, <5>2, NowIs
          <6>2. Now(w, j, x) = Bound(w[k][x])
            BY <2>4, <6>1, NowIs
          <6>3. k = i
            BY <4>2
          <6>4. QED
            BY <2>1, <4>3, <6>2, <6>3
        <5>3. QED
          BY <5>1, <5>2
      <4>5. QED
        BY <4>1, <4>4
    <3>3. ASSUME NEW y, y # x PROVE \A j \in Nat \ {0} : Now(w, j, y) = Now(u, j, y)
      <4>1. \A j \in Nat \ {0} : Now(t, j, y) = Now(u, j, y)
        BY <1>1, <2>3, <3>3, SameNow
      <4>2. \A j \in Nat \ {0} : Now(t, j, y) = Now(w, j, y)
        BY <1>1, <2>4, <3>3, SameNow
      <4>3. QED
        BY <4>1, <4>2
    <3>4. ASSUME NEW j \in Fns(owners) PROVE Declared(u, j) = Declared(w, j)
      <4>1. j \in 1 .. n /\ j \in Nat /\ j > 1
        <5>1. j # 1
          BY <1>1 DEF Fns, Owned
        <5>2. QED
          BY <3>1, <3>4, <5>1
      <4>2. Declared(w, j) = Declared(t, j)
        BY <1>1, <2>4, <2>6, <4>1, SameDeclared
      <4>3. j = i => x \notin Declared(t, j)
        BY <1>8 DEF Declared
      <4>4. QED
        BY <2>3, <4>1, <4>2, <4>3
    <3>5. QED
      BY <1>1, <3>1, <3>2, <3>3, <3>4 DEF SameAt
  <2>11. ScopesOf(u, owners') = ScopesOf(w, owners)
    BY <1>1, <1>2, <2>10, SameScopes DEF Owned
  <2>12. Tables!S!Bind(Tables!S!Home(x), x, Absent)
    BY <2>9, <2>11, ScopesAre DEF Tables!S!Bind
  <2>13. Good(u, owners')
    <3>1. ASSUME NEW y \in All PROVE GoodFor(u, owners, y)
      <4>1. CASE y = x
        BY <2>5, <4>1 DEF GoodFor
      <4>2. CASE y # x
        <5>1. SameIn(t, u, y) /\ GoodFor(t, owners, y)
          BY <2>3, <4>2 DEF Good
        <5>2. \A j, k \in Nat : Open(t, y, j, k) <=> Open(u, y, j, k)
          BY <5>1 DEF Open, SameIn
        <5>3. QED
          BY <5>1, <5>2 DEF GoodFor, SameIn
      <4>3. QED
        BY <4>1, <4>2
    <3>2. QED
      BY <1>1, <1>2, <2>3, <3>1 DEF Good
  <2>14. QED
    BY <1>6, <2>12, <2>13
<1>9. QED
  BY <1>7, <1>8

\* The function that is executed has the last scope.
LEMMA TopScope ==
  ASSUME NEW t, NEW o, Owned(o), NEW n, n = Len(o), o[n] = "function"
  PROVE  /\ n \in Fns(o) /\ n \in Nat \ {0, 1} /\ Index(o, n) = Depth(o)
         /\ 1 \notin Fns(o)
         /\ ScopesOf(t, o)[Depth(o)] = ScopeAt(t, n) /\ Depth(o) \in Nat /\ Depth(o) > 1
         /\ Len(ScopesOf(t, o)) = Depth(o)
<1>1. o \in Seq(Owner) /\ n \in Nat \ {0, 1} /\ 1 \notin Fns(o)
  BY DEF Owned, Fns
<1>2. n \in Fns(o)
  BY <1>1 DEF Fns
<1>3. Below(Fns(o), n) = Fns(o)
  <2>1. Fns(o) \subseteq 1 .. n
    BY <1>1, Functions
  <2>2. QED
    BY <1>1, <2>1 DEF Below
<1>4. Index(o, n) = Depth(o)
  BY <1>1, <1>3 DEF Index, Rank, Depth
<1>5. /\ Index(o, n) \in 1 .. Depth(o) /\ Index(o, n) # 1
      /\ ScopesOf(t, o)[Index(o, n)] = ScopeAt(t, n)
  BY <1>1, <1>2, IndexIs
<1>6. Depth(o) \in Nat \ {0} /\ Len(ScopesOf(t, o)) = Depth(o)
  BY <1>1, ScopesOfIs
<1>7. QED
  BY <1>1, <1>2, <1>4, <1>5, <1>6

LEMMA DeclaredScopes ==
  ASSUME NEW t, NEW u, NEW o, Owned(o), NEW n, n = Len(o), o[n] = "function",
         NEW x, NEW e, DeclaresIn(t, u, x, n, e), x \notin Declared(t, n)
  PROVE  ScopesOf(u, o) = [ScopesOf(t, o) EXCEPT ![Depth(o)] = Tables!S!With(@, x, Bound(e))]
<1> DEFINE m == Depth(o)
           s == ScopesOf(t, o)
           w(f) == Tables!S!With(f, x, Bound(e))
<1>1. /\ o \in Seq(Owner) /\ n \in Fns(o) /\ n \in Nat \ {0, 1} /\ 1 \notin Fns(o)
      /\ m \in Nat \ {0} /\ s[m] = ScopeAt(t, n) /\ Index(o, n) = m /\ m > 1
  BY TopScope DEF Owned
<1>2. ScopeAt(u, n) = w(ScopeAt(t, n))
  <2>1. /\ ScopeAt(t, n) = [y \in Declared(t, n) |-> Now(t, n, y)]
        /\ ScopeAt(u, n) = [y \in Declared(u, n) |-> Now(u, n, y)]
    BY ScopeAtIs
  <2>2. DOMAIN ScopeAt(t, n) = Declared(t, n)
    BY <2>1
  <2>3. /\ Declared(u, n) = Declared(t, n) \cup {x}
        /\ \A y \in Declared(u, n) : Now(u, n, y) = IF y = x THEN Bound(e) ELSE Now(t, n, y)
    BY <1>1 DEF DeclaresIn
  <2>4. ScopeAt(u, n) = [y \in Declared(t, n) \cup {x} |-> IF y = x THEN Bound(e) ELSE Now(t, n, y)]
    BY <2>1, <2>3
  <2>5. w(ScopeAt(t, n)) = [y \in Declared(t, n) \cup {x} |->
                              IF y = x THEN Bound(e) ELSE ScopeAt(t, n)[y]]
    BY <2>2 DEF Tables!S!With
  <2>6. \A y \in Declared(t, n) : ScopeAt(t, n)[y] = Now(t, n, y)
    BY <2>1
  <2> HIDE DEF w
  <2>7. QED
    BY <2>4, <2>5, <2>6
<1>3. ASSUME NEW k \in 1 .. m PROVE At(u, o, k) = IF k = m THEN w(At(t, o, k)) ELSE At(t, o, k)
  <2> HIDE DEF w
  <2>1. CASE k = 1
    <3>1. Global(u) = Global(t)
      BY <1>1 DEF Global, DeclaresIn
    <3>2. k # m
      BY <1>1, <2>1
    <3>3. QED
      BY <2>1, <3>1, <3>2 DEF At
  <2>2. CASE k # 1
    <3> DEFINE i == Nth(o, k - 1)
    <3>1. /\ i \in Fns(o) /\ Index(o, i) = k
          /\ At(u, o, k) = ScopeAt(u, i) /\ At(t, o, k) = ScopeAt(t, i)
      BY <1>1, <2>2, Above
    <3> HIDE DEF i
    <3>2. CASE k = m
      <4>1. i = n
        BY <1>1, <3>1, <3>2, IndexGrows
      <4>2. QED
        BY <1>2, <3>1, <3>2, <4>1
    <3>3. CASE k # m
      <4>1. i # n
        BY <1>1, <3>1, <3>3
      <4>2. i \in 1 .. n - 1
        <5>1. Fns(o) \subseteq 1 .. n
          BY <1>1, Functions
        <5>2. QED
          BY <1>1, <3>1, <4>1, <5>1
      <4>3. Declared(u, i) = Declared(t, i) /\ \A y : Now(u, i, y) = Now(t, i, y)
        BY <1>1, <4>1, <4>2 DEF DeclaresIn
      <4>4. ScopeAt(u, i) = ScopeAt(t, i)
        BY <4>3, ScopeAtIs
      <4>5. QED
        BY <3>1, <3>3, <4>4
    <3>4. QED
      BY <3>2, <3>3
  <2>3. QED
    BY <2>1, <2>2
<1> HIDE DEF m, s, w
<1>4. s = [k \in 1 .. m |-> At(t, o, k)]
  BY <1>1, ScopesOfIs DEF s, m
<1>5. ScopesOf(u, o) = [k \in 1 .. m |-> At(u, o, k)]
  BY <1>1, ScopesOfIs DEF m
<1>6. [s EXCEPT ![m] = w(s[m])] = [k \in 1 .. m |-> IF k = m THEN w(At(t, o, k)) ELSE At(t, o, k)]
  BY <1>1, <1>4
<1>7. ScopesOf(u, o) = [s EXCEPT ![m] = w(s[m])]
  BY <1>3, <1>5, <1>6
<1>8. QED
  BY <1>7 DEF s, m, w

\* local pops its own table, sets the entry in the function's, and pushes a table again.
SetLast(t, u, x, n, e) ==
  u \in Seq(Table) /\ Len(u) = n /\ SetIn(t, u, x, n, e) /\ \A y : y # x => SameIn(t, u, y)

LEMMA DoSetDoes ==
  ASSUME NEW t \in Seq(Table), Len(t) # 0, NEW x \in All, NEW v \in Values \cup {Null},
         NEW l \in BOOLEAN, NEW r \in BOOLEAN, NEW forceNew \in BOOLEAN,
         NEW p, p = Target(t, x, forceNew)
  PROVE  SetLast(t, Tables!DoSet(t, x, v, l, r, forceNew), x, Len(t), SetTo(Old(t, x, p), v, l, r))
           \/ p # Len(t)
<1> DEFINE u == Tables!DoSet(t, x, v, l, r, forceNew)
<1>1. u = Tables!DoSet(t, x, v, l, r, forceNew)
  OBVIOUS
<1> HIDE DEF u
<1>2. /\ u \in Seq(Table) /\ Len(u) = Len(t) /\ p \in 1 .. Len(t)
      /\ SetIn(t, u, x, p, SetTo(Old(t, x, p), v, l, r))
      /\ \A y : y # x => SameIn(t, u, y)
  BY <1>1, DoSetIs
<1>3. QED
  BY <1>1, <1>2 DEF SetLast

\* A table that comes and goes empty.
LEMMA NothingPushed ==
  ASSUME NEW w \in Seq(Table), NEW n \in Nat \ {0}, Len(w) = n,
         NEW u, u = Tables!PopMerge(Tables!Push(w))
  PROVE  u \in Seq(Table) /\ Len(u) = n /\ \A y : SameIn(w, u, y)
<1> DEFINE q == Tables!Push(w)
<1>1. q \in Seq(Table) /\ Len(q) = n + 1 /\ \A y : SameIn(w, q, y)
  BY PushIs
<1>2. \A y : ~Has(q, y, n + 1)
  <2>1. \A y : ~Has(w, y, n + 1) /\ n + 1 \in Nat
    BY DEF Has
  <2>2. QED
    BY <1>1, <2>1 DEF SameIn
<1> HIDE DEF q
<1>3. u \in Seq(Table) /\ Len(u) = n /\ \A y : SameIn(q, u, y)
  BY <1>1, <1>2, MergedNothing DEF q
<1>4. QED
  BY <1>1, <1>3, Along

LEMMA LocalSets ==
  ASSUME NEW t \in Seq(Table), NEW n \in Nat \ {0}, n = Len(t), NEW x \in All,
         NEW v \in Values \cup {Null}, NEW l \in BOOLEAN, NEW forceNew \in BOOLEAN, forceNew,
         NEW r \in BOOLEAN,
         NEW u, u = Tables!PopMerge(Tables!Push(Tables!DoSet(t, x, v, l, r, forceNew)))
  PROVE  SetLast(t, u, x, n, SetTo(Old(t, x, n), v, l, r))
<1> DEFINE w == Tables!DoSet(t, x, v, l, r, forceNew)
           e == SetTo(Old(t, x, n), v, l, r)
           p == Target(t, x, forceNew)
<1>1. SetLast(t, w, x, Len(t), e)
  <2>1. p = n
    BY DEF Target
  <2>2. p = Target(t, x, forceNew) /\ Len(t) # 0
    OBVIOUS
  <2> HIDE DEF p
  <2>3. SetLast(t, w, x, Len(t), SetTo(Old(t, x, p), v, l, r)) \/ p # Len(t)
    BY <2>2, DoSetDoes
  <2>4. QED
    BY <2>1, <2>3
<1>2. w \in Seq(Table) /\ Len(w) = n /\ SetIn(t, w, x, n, e) /\ \A y : y # x => SameIn(t, w, y)
  BY <1>1 DEF SetLast
<1>0. u = Tables!PopMerge(Tables!Push(w))
  OBVIOUS
<1> HIDE DEF w, e
<1>3. u \in Seq(Table) /\ Len(u) = n /\ \A y : SameIn(w, u, y)
  BY <1>0, <1>2, NothingPushed
<1>4. SetIn(t, u, x, n, e) /\ \A y : y # x => SameIn(t, u, y)
  BY <1>2, <1>3, Along
<1>5. QED
  BY <1>3, <1>4 DEF e, SetLast

LEMMA DeclaresStep ==
  ASSUME Good(symtab_stack, owners), NEW x \in Names, NEW v \in Values \cup {Null},
         Tables!Declares(x, v), owners[Len(owners)] # "shell", Risky = {}
  PROVE  Good(symtab_stack', owners') /\ Tables!S!Local(x, v)
<1> DEFINE t == symtab_stack
           u == symtab_stack'
           n == Len(t)
           yes == TRUE
           too == TRUE
           no == FALSE
           e == SetTo(Old(t, x, n), v, yes, no)
           s == Tables!Scopes
           top == Depth(owners)
<1>1. /\ x \in All /\ t \in Seq(Table) /\ n \in Nat \ {0} /\ n = Len(owners) /\ Owned(owners)
      /\ DOMAIN t = 1 .. n
  BY DEF All, Good, Owned
<1>2. /\ owners' = owners /\ owners[n] = "function"
      /\ x \in DOMAIN t[n] => t[n][x].local
      /\ u = Tables!PopMerge(Tables!Push(Tables!DoSet(t, x, v, yes, no, too)))
  <2>1. Tables!Running = n /\ n \in 1 .. n /\ n = Len(owners)
    BY <1>1, RunningIs
  <2>2. owners[n] \in Owner
    BY <2>1 DEF Good, Owned
  <2>3. owners[n] = "function"
    BY <2>1, <2>2 DEF Tables!Declares, Owner
  <2>4. QED
    BY <1>1, <2>3 DEF Tables!Declares, Tables!Lowers
<1>3. too \in BOOLEAN /\ too /\ yes \in BOOLEAN /\ yes /\ no \in BOOLEAN /\ no = FALSE /\ yes = TRUE
  OBVIOUS
<1> HIDE DEF yes, too, no
<1>4. u \in Seq(Table) /\ Len(u) = n /\ SetIn(t, u, x, n, e) /\ \A y : y # x => SameIn(t, u, y)
  <2>1. n = Len(t)
    OBVIOUS
  <2> HIDE DEF n
  <2>2. SetLast(t, u, x, n, SetTo(Old(t, x, n), v, yes, no))
    BY <1>1, <1>2, <1>3, <2>1, LocalSets
  <2>3. QED
    BY <2>2 DEF SetLast
<1>5. /\ n \in Fns(owners) /\ n \in Nat \ {0, 1} /\ Index(owners, n) = top /\ top > 1
      /\ s[top] = ScopeAt(t, n) /\ Len(s) = top
  <2>1. s = ScopesOf(t, owners)
    BY ScopesAre
  <2>2. QED
    BY <1>1, <1>2, <2>1, TopScope
<1>6. DOMAIN s[top] = Declared(t, n)
  BY <1>5 DEF ScopeAt, Declared
<1> HIDE DEF s, top
<1>7. CASE Has(t, x, n)
  <2> DEFINE c == Cur(t, x)
             b == Rebound(c, v, no)
  <2>1. t[n][x].local /\ x \in DOMAIN t[n]
    BY <1>2, <1>7 DEF Has
  <2>2. IsHome(t, owners, x, n)
    BY <1>1, <1>7, <2>1 DEF IsHome, Open
  <2>3. Tables!S!Home(x) = top
    BY <1>1, <1>5, <2>2, HomeScope
  <2>4. Topmost(t, x, n)
    BY <1>1 DEF Topmost, Has
  <2>5. c = Bound(Old(t, x, n))
    <3>1. Tables!Found(t, x) = n
      BY <1>1, <1>7, <2>4, FoundIs
    <3>2. QED
      BY <1>1, <1>7, <3>1 DEF Cur, Old
  <2>6. Old(t, x, n) \in Entries /\ Old(t, x, n).local = TRUE
    <3>1. Old(t, x, n) \in Entries
      BY <1>1, OldIs
    <3>2. Old(t, x, n).local
      BY <1>7, <2>1 DEF Old
    <3>3. QED
      BY <3>1, <3>2 DEF Entries
  <2>7. e \in Entries /\ Bound(e) = b /\ e.local = TRUE
    <3>1. e \in Entries
      BY <1>3, <2>6, SetToIs
    <3>2. Bound(e) = b
      BY <2>5, Bindings
    <3>3. e.local = TRUE
      BY <1>3, <2>6 DEF SetTo
    <3>4. QED
      BY <3>1, <3>2, <3>3
  <2> HIDE DEF e
  <2>8. Assigns(t, u, x, b)
    <3>1. SameLocals(t, u, x)
      <4>1. SUFFICES ASSUME NEW m \in Nat
                     PROVE  Has(t, x, m) /\ t[m][x].local <=> Has(u, x, m) /\ u[m][x].local
        BY DEF SameLocals
      <4>2. CASE m = n
        BY <1>4, <1>7, <2>1, <2>7, <4>2 DEF SetIn
      <4>3. CASE m # n
        BY <1>4, <4>3 DEF SetIn
      <4>4. QED
        BY <4>2, <4>3
    <3>2. Changed(t, u, x, n, e)
      BY <1>4, <2>4, <3>1 DEF Changed
    <3>3. QED
      BY <1>1, <1>4, <2>7, <3>2 DEF Assigns
  <2>9. c.ro => b.ro
    BY DEF Rebound
  <2>10. Good(u, owners') /\ Tables!S!Bind(Tables!S!Home(x), x, b)
    BY <1>1, <1>2, <2>8, <2>9, BindStep
  <2>11. HomeHas(x)
    BY <1>1, HomeValue
  <2>12. b = IF c.ro THEN c ELSE [val |-> IF v = Null THEN c.val ELSE v, ro |-> FALSE]
    BY <1>3 DEF Rebound
  <2> HIDE DEF b, c
  <2>13. x \in DOMAIN s[top] /\ s[top][x] = c /\ Tables!S!Bind(top, x, b)
    BY <2>3, <2>10, <2>11 DEF HomeHas, s, c
  <2>14. Tables!S!Local(x, v)
    BY <1>5, <2>12, <2>13 DEF s, Tables!S!Local, Tables!S!Set, Tables!S!Binding
  <2>15. QED
    BY <2>10, <2>14
<1>8. CASE ~Has(t, x, n)
  <2>1. Old(t, x, n) = New
    BY <1>8 DEF Old
  <2>2. e = [val |-> v, local |-> TRUE, readonly |-> FALSE]
    <3>1. e = [val |-> IF v = Null THEN Null ELSE v, local |-> FALSE \/ yes, readonly |-> no]
      BY <2>1 DEF SetTo, New
    <3>2. (FALSE \/ yes) = TRUE
      BY <1>3
    <3> HIDE DEF e
    <3>3. QED
      BY <1>3, <3>1, <3>2
  <2>3. e.local /\ Bound(e) = [val |-> v, ro |-> FALSE]
    BY <2>2 DEF Bound
  <2> HIDE DEF e
  <2>4. Good(u, owners)
    BY <1>1, <1>2, <1>4, <1>8, <2>3, GoodDeclared
  <2>5. DeclaresIn(t, u, x, n, e)
    BY <1>1, <1>4, <1>8, <2>3, DeclaredAt
  <2>6. x \notin Declared(t, n)
    BY <1>1, <1>8 DEF Declared, Has
  <2>7. ScopesOf(u, owners)
          = [ScopesOf(t, owners) EXCEPT ![Depth(owners)] = Tables!S!With(@, x, Bound(e))]
    BY <1>1, <1>2, <2>5, <2>6, DeclaredScopes
  <2>8. Tables!S!Bind(top, x, [val |-> v, ro |-> FALSE])
    BY <1>2, <2>3, <2>7, ScopesAre DEF Tables!S!Bind, top
  <2>9. Tables!S!Local(x, v)
    BY <1>5, <1>6, <2>6, <2>8 DEF s, Tables!S!Local, Tables!S!Set, Tables!S!Binding
  <2>10. QED
    BY <1>2, <2>4, <2>9
<1>9. QED
  BY <1>7, <1>8

\* A command whose table comes and goes empty.
LEMMA NothingMerged ==
  ASSUME Good(symtab_stack, owners), owners' = owners,
         symtab_stack' = Tables!PopMerge(Tables!Push(symtab_stack))
  PROVE  Good(symtab_stack', owners') /\ Tables!Same
<1> DEFINE t == symtab_stack
           u == symtab_stack'
<1>1. t \in Seq(Table) /\ Len(t) = Len(owners) /\ Len(t) \in Nat \ {0} /\ Owned(owners)
  BY DEF Good, Owned
<1>2. u \in Seq(Table) /\ Len(u) = Len(t) /\ \A y : SameIn(t, u, y)
  BY <1>1, NothingPushed
<1> HIDE DEF t, u
<1>3. \A i \in 1 .. Len(owners) : i \in DOMAIN owners' /\ owners'[i] = owners[i]
  BY <1>1 DEF Owned
<1>4. Good(u, owners')
  BY <1>1, <1>2, <1>3, GoodSame DEF t
<1>5. SameAt(t, u, owners)
  BY <1>1, <1>2, SameInAt DEF Owned
<1>6. Tables!Same
  BY <1>1, <1>5, SameStep DEF t, u
<1>7. QED
  BY <1>4, <1>6 DEF u

LEMMA LocalStep ==
  ASSUME Good(symtab_stack, owners), LevelsAre, NEW x \in Names, NEW v \in Values \cup {Null},
         Tables!Local(x, v), Risky = {}
  PROVE  /\ Good(symtab_stack', owners')
         /\ IF owners[Tables!Running] = "shell" THEN Tables!Same ELSE Tables!S!Local(x, v)
<1> DEFINE n == Len(owners)
<1>1. /\ Tables!Running = n /\ n \in Nat \ {0} /\ Len(levels) = n
      /\ \A i \in 2 .. n : owners[i] \in {"function", "eval"}
  BY RunningIs DEF Good, Owned, LevelsAre
<1>2. CASE owners[n] = "shell"
  <2>1. n = 1
    BY <1>1, <1>2
  <2>2. levels[Len(levels)] = 0
    BY <1>1, <2>1 DEF LevelsAre
  <2>3. owners' = owners /\ symtab_stack' = Tables!PopMerge(Tables!Push(symtab_stack))
    BY <2>2 DEF Tables!Local, Tables!Lowers
  <2>4. QED
    BY <1>1, <1>2, <2>3, NothingMerged
<1>3. CASE owners[n] # "shell"
  <2>1. levels[Len(levels)] # 0
    BY <1>1, <1>3 DEF Tables!Local
  <2>2. Tables!Declares(x, v)
    BY <2>1 DEF Tables!Local
  <2>3. QED
    BY <1>1, <1>3, <2>2, DeclaresStep
<1>4. QED
  BY <1>2, <1>3

LEMMA DeclareStep ==
  ASSUME Good(symtab_stack, owners), LevelsAre, NEW x \in Names, NEW v \in Values,
         Tables!Declare(x, v), Risky = {}
  PROVE  /\ Good(symtab_stack', owners')
         /\ IF owners[Tables!Running] = "shell" THEN Tables!S!AssignGlobal(x, v)
            ELSE Tables!S!Local(x, v)
<1> DEFINE n == Len(owners)
<1>1. /\ Tables!Running = n /\ n \in Nat \ {0} /\ symtab_level \in Int /\ symtab_level < n
      /\ \A i \in 2 .. n : owners[i] \in {"function", "eval"}
  BY RunningIs DEF Good, Owned, LevelsAre
<1>2. CASE symtab_level > 0
  <2>1. n \in 2 .. n
    BY <1>1, <1>2
  <2>2. owners[n] # "shell"
    BY <1>1, <2>1
  <2>3. Tables!Declares(x, v)
    BY <1>2 DEF Tables!Declare
  <2>4. QED
    BY <1>1, <2>2, <2>3, DeclaresStep
<1>3. CASE ~(symtab_level > 0)
  <2>1. owners[n] = "shell" /\ Tables!DeclareGlobal(x, v)
    BY <1>1, <1>3 DEF Tables!Declare
  <2>2. QED
    BY <1>1, <2>1, DeclareGlobalStep
<1>4. QED
  BY <1>2, <1>3

LEMMA PushedGood ==
  ASSUME NEW t, NEW o, Good(t, o), NEW k \in {"function", "eval"}, NEW oo, oo = Append(o, k),
         NEW w, w = Tables!Push(t)
  PROVE  Good(w, oo) /\ SameAt(t, w, o) /\ \A y : SameIn(t, w, y) /\ ~Has(w, y, Len(o) + 1)
<1>1. t \in Seq(Table) /\ o \in Seq(Owner) /\ Len(o) \in Nat \ {0} /\ Len(t) = Len(o) /\ Owned(o)
  BY DEF Good, Owned
<1>2. w \in Seq(Table) /\ Len(w) = Len(t) + 1 /\ \A y : SameIn(t, w, y)
  BY <1>1, PushIs
<1>3. /\ Owned(oo) /\ Len(oo) = Len(o) + 1
      /\ \A i \in 1 .. Len(o) : i \in DOMAIN oo /\ oo[i] = o[i]
  <2>1. OnTop(o, k, oo)
    BY <1>1, OneMore
  <2>2. QED
    BY <2>1 DEF OnTop
<1>4. Good(w, oo)
  BY <1>1, <1>2, <1>3, GoodSame
<1>5. SameAt(t, w, o)
  BY <1>1, PushedAt
<1>6. \A y : ~Has(t, y, Len(o) + 1) /\ Len(o) + 1 \in Nat
  BY <1>1 DEF Has
<1>7. \A y : ~Has(w, y, Len(o) + 1)
  BY <1>2, <1>6 DEF SameIn
<1>8. QED
  BY <1>2, <1>4, <1>5, <1>7

LEMMA CallStep ==
  ASSUME Good(symtab_stack, owners), NEW a \in Args \cup {Null}, Tables!Call(a), Risky = {}
  PROVE  Good(symtab_stack', owners') /\ Tables!S!Call(a)
<1> DEFINE t == symtab_stack
           o == owners
           oo == Append(o, "function")
           w == Tables!Push(t)
           m == Len(o) + 1
           e == Tables!Entry(a, TRUE, TRUE)
           g == ParamScope(e)
<1>1. a # Null /\ a \in Values
  BY ShellStateAssumption DEF Tables!Call
<1>2. t \in Seq(Table) /\ Len(t) = Len(o) /\ Len(o) \in Nat
  BY DEF Good, Owned
<1>3. Len(w) = m
  BY <1>2, PushIs
<1>4. owners' = oo /\ symtab_stack' = Tables!Put(w, m, Param, e)
  BY <1>1, <1>3 DEF Tables!Call, Tables!Entered, Tables!WithParam
<1>5. e \in Entries /\ e.local /\ Bound(e) = [val |-> a, ro |-> TRUE]
  BY <1>1 DEF Tables!Entry, Entries, Bound
<1>6. oo = Append(o, "function") /\ w = Tables!Push(t) /\ m = Len(o) + 1
  OBVIOUS
<1> HIDE DEF oo, w, e, m
<1>7. Good(w, oo) /\ SameAt(t, w, o) /\ \A y : SameIn(t, w, y) /\ ~Has(w, y, Len(o) + 1)
  BY <1>6, PushedGood
<1>8. ~Has(w, Param, m) /\ \A y : Has(w, y, m) => ~w[m][y].local
  BY <1>6, <1>7
<1>9. Good(symtab_stack', oo) /\ ScopesOf(symtab_stack', oo) = Append(ScopesOf(t, o), g)
  <2>1. Starts(t, o, w, oo, m)
    BY <1>6, <1>7, <1>8 DEF Starts
  <2>2. Started(t, o, Tables!Put(w, m, Param, e), oo, e)
    BY <1>5, <2>1, CallScopes
  <2>3. QED
    BY <1>4, <2>2 DEF Started
<1>10. Tables!S!Params(a) = g
  BY <1>5 DEF Tables!S!Params, Tables!S!Binding, ParamScope
<1> HIDE DEF g
<1>11. Tables!S!Call(a)
  BY <1>4, <1>9, <1>10, ScopesAre DEF Tables!S!Call
<1>12. QED
  BY <1>4, <1>9, <1>11

LEMMA PrefixedGood ==
  ASSUME NEW t, NEW o, Good(t, o), NEW k \in {"function", "eval"}, NEW oo, oo = Append(o, k),
         NEW x \in All, NEW w, NEW b, Prefixed(t, w, x, b), Cur(t, x).ro => b.ro
  PROVE  Good(w, oo)
<1> DEFINE n == Len(t)
           q == Tables!Push(t)
<1>1. t \in Seq(Table) /\ n \in Nat \ {0} /\ n = Len(o)
  BY DEF Good, Owned
<1>2. q \in Seq(Table) /\ Len(q) = n + 1
  BY <1>1, PushIs
<1>3. Good(q, oo) /\ \A y : SameIn(t, q, y) /\ ~Has(q, y, n + 1)
  BY <1>1, PushedGood
<1>4. Tables!Found(q, x) = Tables!Found(t, x)
  BY <1>1, PushKeeps
<1> HIDE DEF q
<1>5. Cur(q, x) = Cur(t, x)
  BY <1>1, <1>2, <1>3, <1>4, FoundIs DEF Cur, SameIn
<1>6. PICK e \in Entries : SetIn(t, w, x, n + 1, e) /\ ~e.local /\ Bound(e) = b
  BY DEF Prefixed
<1>7. w \in Seq(Table) /\ Len(w) = n + 1 /\ \A y : y # x => SameIn(t, w, y)
  BY DEF Prefixed
<1>8. SetIn(q, w, x, n + 1, e) /\ \A y : y # x => SameIn(q, w, y)
  <2>1. \A y : SameIn(q, t, y)
    BY <1>3 DEF SameIn
  <2>2. QED
    BY <1>6, <1>7, <2>1, Along
<1>9. SameLocals(q, w, x)
  <2>1. SUFFICES ASSUME NEW m \in Nat
                 PROVE  Has(q, x, m) /\ q[m][x].local <=> Has(w, x, m) /\ w[m][x].local
    BY DEF SameLocals
  <2>2. CASE m = n + 1
    BY <1>3, <1>6, <1>8, <2>2 DEF SetIn
  <2>3. CASE m # n + 1
    BY <1>8, <2>3 DEF SetIn
  <2>4. QED
    BY <2>2, <2>3
<1>10. Topmost(q, x, n + 1)
  BY <1>2 DEF Topmost, Has
<1>11. Assigns(q, w, x, b)
  <2>1. Changed(q, w, x, n + 1, e)
    BY <1>8, <1>9, <1>10 DEF Changed
  <2>2. n + 1 \in 1 .. Len(q)
    BY <1>1, <1>2
  <2>3. QED
    BY <1>2, <1>6, <1>7, <2>1, <2>2 DEF Assigns
<1>12. QED
  BY <1>3, <1>5, <1>11, GoodAssigned

LEMMA CallWithStep ==
  ASSUME Good(symtab_stack, owners), NEW x \in Names, NEW v \in Values, NEW a \in Args,
         Tables!CallWith(x, v, a)
  PROVE  Good(symtab_stack', owners') /\ Tables!S!CallWith(x, v, a)
<1> DEFINE t == symtab_stack
           o == owners
           oo == Append(o, "function")
           n == Len(o)
           m == n + 1
           no == FALSE
           w == Tables!PrefixSet(Tables!Push(t), x, v)
           c == Cur(t, x)
           b == Rebound(c, v, no)
           r == Tables!PopMerge(w)
           e == Tables!Entry(a, TRUE, TRUE)
           g == ParamScope(e)
<1>1. /\ x \in All /\ x # Param /\ v # Null /\ a # Null /\ a \in Values
      /\ t \in Seq(Table) /\ Len(t) = n /\ n \in Nat \ {0} /\ Len(t) # 0 /\ Owned(o)
  BY ShellStateAssumption DEF All, Good, Owned
<1>2. no \in BOOLEAN /\ ~no /\ no = FALSE
  OBVIOUS
<1>3. oo = Append(o, "function") /\ r = Tables!PopMerge(w) /\ m = Len(o) + 1
  OBVIOUS
<1>4. /\ owners' = oo
      /\ symtab_stack' = Tables!Put(w, Len(w), Param, e)
  BY <1>1 DEF Tables!CallWith, Tables!Entered, Tables!WithParam
<1>5. e \in Entries /\ e.local /\ Bound(e) = [val |-> a, ro |-> TRUE]
  BY <1>1 DEF Tables!Entry, Entries, Bound
<1>6. c.ro => b.ro
  BY DEF Rebound
<1>7. b = IF c.ro THEN c ELSE [val |-> v, ro |-> FALSE]
  BY <1>1 DEF Rebound
<1> HIDE DEF no, oo, r, e
<1>8. Prefixed(t, w, x, b)
  BY <1>1, <1>2, PrefixSets
<1> HIDE DEF w
<1>9. /\ w \in Seq(Table) /\ Len(w) = m /\ ~Has(w, Param, m)
      /\ \A y : Has(w, y, m) => ~w[m][y].local
  <2>1. PICK d \in Entries : SetIn(t, w, x, m, d) /\ ~d.local
    BY <1>1, <1>8 DEF Prefixed
  <2>2. w \in Seq(Table) /\ Len(w) = m /\ \A y : y # x => SameIn(t, w, y)
    BY <1>1, <1>8 DEF Prefixed
  <2>3. \A y : ~Has(t, y, m) /\ m \in Nat
    BY <1>1 DEF Has
  <2>4. \A y : y # x => ~Has(w, y, m)
    BY <2>2, <2>3 DEF SameIn
  <2>5. ~w[m][x].local
    BY <2>1 DEF SetIn
  <2>6. QED
    BY <1>1, <2>2, <2>4, <2>5
<1>10. Good(w, oo)
  <2>1. Cur(t, x).ro => b.ro
    BY <1>6
  <2> HIDE DEF b
  <2>2. QED
    BY <1>1, <1>3, <1>8, <2>1, PrefixedGood
<1>11. Assigns(t, r, x, b)
  BY <1>1, <1>3, <1>8, PrefixAssigns
<1>12. Good(r, o)
  <2>1. Cur(t, x).ro => b.ro
    BY <1>6
  <2> HIDE DEF b
  <2>2. QED
    BY <1>1, <1>11, <2>1, GoodAssigned
<1>13. SameAt(r, w, o)
  <2>1. Mergeable(w, m)
    BY <1>1, <1>9, <1>10, GoodMerges
  <2>2. Fns(o) \subseteq 1 .. n
    BY <1>1, Functions DEF Owned
  <2>3. SameAt(w, r, o)
    BY <1>1, <1>3, <1>9, <2>1, <2>2, MergedAt
  <2>4. QED
    BY <2>3, SameAtAlong
<1> HIDE DEF m
<1>14. Good(symtab_stack', oo) /\ ScopesOf(symtab_stack', oo) = Append(ScopesOf(r, o), g)
  <2>1. Starts(r, o, w, oo, m)
    BY <1>3, <1>9, <1>10, <1>12, <1>13 DEF Starts, m
  <2>2. Started(r, o, Tables!Put(w, m, Param, e), oo, e)
    BY <1>5, <2>1, CallScopes
  <2>3. QED
    BY <1>4, <1>9, <2>2 DEF Started
<1>15. ScopesOf(r, o) = [Tables!Scopes EXCEPT ![Tables!S!Home(x)] = Tables!S!With(@, x, b)]
  BY <1>1, <1>11, AssignedHome
<1>16. HomeHas(x)
  BY <1>1, HomeValue
<1>17. Tables!S!Params(a) = g
  BY <1>5 DEF Tables!S!Params, Tables!S!Binding, ParamScope
<1> HIDE DEF g, b
<1>18. ScopesOf(r, o)
         = [Tables!Scopes EXCEPT ![Tables!S!Home(x)][x] =
                IF @.ro THEN @ ELSE Tables!S!Binding(v, FALSE)]
  <2> DEFINE s == Tables!Scopes
             h == Tables!S!Home(x)
             f == s[h]
  <2>1. x \in DOMAIN f /\ f[x] = c
    BY <1>16 DEF HomeHas
  <2>2. b = IF f[x].ro THEN f[x] ELSE Tables!S!Binding(v, FALSE)
    BY <1>7, <2>1 DEF Tables!S!Binding
  <2>3. Tables!S!With(f, x, b) = [f EXCEPT ![x] = b]
    BY <2>1 DEF Tables!S!With
  <2>4. ScopesOf(r, o) = [s EXCEPT ![h] = Tables!S!With(f, x, b)]
    BY <1>15
  <2>5. ScopesOf(r, o) = [s EXCEPT ![h] = [f EXCEPT ![x] = b]]
    BY <2>3, <2>4
  <2>6. QED
    BY <2>2, <2>5
<1>19. (Tables!Scopes)' = Append(ScopesOf(r, o), Tables!S!Params(a))
  BY <1>4, <1>14, <1>17, ScopesAre
<1>20. Tables!S!CallWith(x, v, a)
  BY <1>18, <1>19 DEF Tables!S!CallWith
<1>21. QED
  BY <1>4, <1>14, <1>20

LEMMA EvalStep ==
  ASSUME Good(symtab_stack, owners), Tables!Eval
  PROVE  Good(symtab_stack', owners') /\ Tables!Same
<1>1. owners' = Append(owners, "eval") /\ symtab_stack' = Tables!Push(symtab_stack)
  BY DEF Tables!Eval, Tables!Entered
<1>2. Good(symtab_stack', owners') /\ SameAt(symtab_stack, symtab_stack', owners)
  BY <1>1, PushedGood
<1>3. Owned(owners) /\ Owned(owners')
  BY <1>2 DEF Good
<1>4. Fns(owners') = Fns(owners)
  BY <1>1, <1>3, OneMore DEF OnTop
<1>5. QED
  BY <1>2, <1>3, <1>4, SameStep

LEMMA LastOwner ==
  ASSUME NEW oo, Owned(oo), Len(oo) > 1, NEW o, o = Tables!Pop(oo)
  PROVE  /\ Owned(o) /\ Len(oo) = Len(o) + 1
         /\ oo[Len(oo)] \in {"function", "eval"} /\ oo = Append(o, oo[Len(oo)])
<1> DEFINE n == Len(oo) - 1
<1>1. oo \in Seq(Owner) /\ n \in Nat \ {0} /\ Len(oo) = n + 1 /\ o = SubSeq(oo, 1, n)
  BY DEF Owned, Tables!Pop
<1> HIDE DEF n
<1>2. o \in Seq(Owner) /\ Len(o) = n /\ \A i \in 1 .. n : o[i] = oo[i]
  BY <1>1
<1>3. oo[n + 1] \in {"function", "eval"}
  <2>1. n + 1 \in 2 .. Len(oo)
    BY <1>1
  <2>2. QED
    BY <2>1 DEF Owned
<1>4. Owned(o)
  <2>1. o[1] = "shell"
    <3>1. 1 \in 1 .. n
      BY <1>1
    <3>2. QED
      BY <1>2, <3>1 DEF Owned
  <2>2. ASSUME NEW i \in 2 .. n PROVE o[i] \in {"function", "eval"}
    <3>1. i \in 2 .. Len(oo) /\ i \in 1 .. n
      BY <1>1
    <3>2. QED
      BY <1>2, <3>1 DEF Owned
  <2>3. QED
    BY <1>1, <1>2, <2>1, <2>2 DEF Owned
<1>5. oo = Append(o, oo[n + 1])
  <2> DEFINE k == oo[n + 1]
             z == Append(o, k)
  <2>1. k \in Owner
    BY <1>3 DEF Owner
  <2> HIDE DEF k
  <2>2. z \in Seq(Owner) /\ Len(z) = n + 1 /\ z[n + 1] = k /\ \A i \in 1 .. n : z[i] = o[i]
    BY <1>1, <1>2, <2>1
  <2> HIDE DEF z
  <2>3. \A i \in 1 .. Len(oo) : oo[i] = z[i]
    <3>1. SUFFICES ASSUME NEW i \in 1 .. Len(oo) PROVE oo[i] = z[i]
      OBVIOUS
    <3>2. i \in 1 .. n \/ i = n + 1
      BY <1>1
    <3>3. QED
      BY <1>2, <2>2, <3>2 DEF k
  <2>4. Len(oo) = Len(z)
    BY <1>1, <2>2
  <2>5. oo = z
    BY <1>1, <2>2, <2>3, <2>4, SeqEqual
  <2>6. QED
    BY <2>5 DEF z, k
<1>6. QED
  BY <1>1, <1>2, <1>3, <1>4, <1>5

\* The end of a function or of an eval: its table is merged or the scope goes.
LEMMA ReturnStep ==
  ASSUME Good(symtab_stack, owners), Tables!Return
  PROVE  /\ Good(symtab_stack', owners')
         /\ IF owners[Tables!Running] = "eval" THEN Tables!Same ELSE Tables!S!Return
<1> DEFINE t == symtab_stack
           u == symtab_stack'
           o == owners'
           k == owners[Len(owners)]
           n == Len(o)
<1>0. Tables!Running = Len(owners)
  BY RunningIs DEF Good
<1>1. u = Tables!PopMerge(t) /\ o = Tables!Pop(owners) /\ Len(owners) > 1
  BY <1>0 DEF Tables!Return
<1>2. Owned(owners) /\ t \in Seq(Table) /\ Len(t) = Len(owners)
  BY DEF Good
<1> HIDE DEF u, o
<1>3. /\ Owned(o) /\ Len(owners) = n + 1 /\ k \in {"function", "eval"} /\ owners = Append(o, k)
      /\ n \in Nat \ {0} /\ o \in Seq(Owner)
  BY <1>1, <1>2, LastOwner DEF Owned
<1> HIDE DEF k, n
<1>4. Good(u, o)
  BY <1>1, <1>3, ReturnGood
<1>5. SameAt(t, u, o)
  <2>1. Mergeable(t, n + 1)
    BY <1>2, <1>3, GoodMerges
  <2>2. Fns(o) \subseteq 1 .. n
    BY <1>3, Functions DEF n
  <2>3. QED
    BY <1>1, <1>2, <1>3, <2>1, <2>2, MergedAt
<1>6. CASE k = "eval"
  <2>1. Fns(owners) = Fns(o)
    BY <1>3, <1>6, OneMore DEF OnTop
  <2>2. SameAt(t, u, owners)
    BY <1>5, <2>1 DEF SameAt
  <2>3. Tables!Same
    BY <1>3, <2>1, <2>2, SameStep DEF u, o
  <2>4. QED
    BY <1>0, <1>4, <1>6, <2>3 DEF u, o, k
<1>7. CASE k # "eval"
  <2>1. owners = Append(o, "function")
    BY <1>3, <1>7
  <2>2. SameAt(u, t, o)
    BY <1>5, SameAtAlong
  <2>3. NewScope(ScopesOf(u, o), ScopesOf(t, owners), ScopeAt(t, Len(o) + 1))
    BY <1>3, <2>1, <2>2, MoreScopes
  <2>4. Tables!S!Return
    BY <2>3, ScopesAre DEF NewScope, Tables!S!Return, u, o
  <2>5. QED
    BY <1>0, <1>4, <1>7, <2>4 DEF u, o, k
<1>8. QED
  BY <1>6, <1>7

LEMMA ScopesStart ==
  ASSUME Tables!Init
  PROVE  Good(symtab_stack, owners) /\ Tables!S!Init
<1> DEFINE t == symtab_stack
           o == owners
<1>1. t = <<<<>>>> /\ o = <<"shell">>
  BY DEF Tables!Init
<1> HIDE DEF t, o
<1>2. t \in Seq(Table) /\ Len(t) = 1 /\ t[1] = <<>>
  BY <1>1, NoEntry
<1>3. o \in Seq(Owner) /\ Len(o) = 1 /\ o[1] = "shell"
  BY <1>1 DEF Owner
<1>4. Owned(o)
  BY <1>3 DEF Owned
<1>5. \A x : \A i \in Nat : ~Has(t, x, i)
  <2>1. DOMAIN t = 1 .. 1
    BY <1>2
  <2>2. QED
    BY <1>2, <2>1, NoEntry DEF Has
<1>6. Good(t, o)
  BY <1>2, <1>3, <1>4, <1>5 DEF Good, GoodFor
<1>7. \A x : Now(t, 1, x) = Absent
  <2>1. \A x : CopiesFrom(t, x, 1) = {}
    BY <1>5 DEF CopiesFrom
  <2>2. 1 \in Nat \ {0}
    OBVIOUS
  <2>3. QED
    BY <1>2, <2>1, <2>2, NowIs
<1>8. Fns(o) = {} /\ Depth(o) = 1
  <2>1. DOMAIN o = 1 .. 1
    BY <1>3
  <2>2. Fns(o) = {}
    BY <1>3, <2>1 DEF Fns
  <2>3. QED
    BY <2>2, FS_EmptySet DEF Depth
<1>9. ScopesOf(t, o) = <<[x \in All |-> Absent]>>
  <2> DEFINE g == Global(t)
  <2>1. g = [x \in All |-> Absent]
    BY <1>7 DEF Global
  <2>2. ScopesOf(t, o) = [k \in 1 .. Depth(o) |-> At(t, o, k)]
    BY <1>3, ScopesOfIs
  <2>3. \A k \in 1 .. 1 : At(t, o, k) = g
    BY DEF At
  <2> HIDE DEF g
  <2>4. ScopesOf(t, o) = [k \in 1 .. 1 |-> g]
    BY <1>8, <2>2, <2>3
  <2>5. [k \in 1 .. 1 |-> g] = <<g>>
    OBVIOUS
  <2>6. QED
    BY <2>1, <2>4, <2>5
<1>10. Tables!Scopes = ScopesOf(t, o)
  BY ScopesAre DEF t, o
<1>11. Tables!S!Init
  BY <1>9, <1>10 DEF Tables!S!Init, Tables!S!Binding, All, Absent
<1>12. QED
  BY <1>6, <1>11 DEF t, o

\* A step of the tables is one of dynamic scoping.
LEMMA StepScoped ==
  ASSUME Good(symtab_stack, owners), LevelsAre, Risky = {}
  PROVE  Tables!StepIsScoped
<1>1. ASSUME NEW x \in Names, NEW v \in Values
      PROVE  /\ Tables!Assignment(x, v) \/ Tables!BuiltinSet(x, v) \/ Tables!WordSet(x, v)
                  \/ Tables!ForLoop(x, v) => Tables!S!AssignIfAllowed(x, v)
             /\ Tables!External(x, v) => Tables!Same
             /\ Tables!Declare(x, v) => IF owners[Tables!Running] = "shell"
                                        THEN Tables!S!AssignGlobal(x, v) ELSE Tables!S!Local(x, v)
             /\ Tables!DeclareGlobal(x, v) => Tables!S!AssignGlobal(x, v)
             /\ \A a \in Args : Tables!CallWith(x, v, a) => Tables!S!CallWith(x, v, a)
  BY AssignmentStep, BuiltinStep, WordStep, ForStep, ExternalStep, DeclareStep, DeclareGlobalStep,
     CallWithStep
<1>2. ASSUME NEW x \in Names
      PROVE  /\ \A v \in Values \cup {Null} :
                   Tables!Local(x, v) => IF owners[Tables!Running] = "shell" THEN Tables!Same
                                         ELSE Tables!S!Local(x, v)
             /\ Tables!ReadOnly(x) => Tables!S!ReadOnly(x)
             /\ Tables!Unset(x) => Tables!S!Unset(x)
  BY LocalStep, ReadOnlyStep, UnsetStep
<1>3. \A a \in Args \cup {Null} : Tables!Call(a) => Tables!S!Call(a)
  BY CallStep
<1>4. Tables!Eval => Tables!Same
  BY EvalStep
<1>5. Tables!Return => IF owners[Tables!Running] = "eval" THEN Tables!Same ELSE Tables!S!Return
  BY ReturnStep
<1>6. QED
  BY <1>1, <1>2, <1>3, <1>4, <1>5 DEF Tables!StepIsScoped

\* No command makes the tables bad.
LEMMA StepGood ==
  ASSUME Good(symtab_stack, owners), LevelsAre, Risky = {}, Tables!Next
  PROVE  Good(symtab_stack', owners')
<1>1. ASSUME NEW x \in Names, NEW v \in Values,
             \/ Tables!Assignment(x, v) \/ Tables!External(x, v) \/ Tables!BuiltinSet(x, v)
             \/ Tables!WordSet(x, v) \/ Tables!ForLoop(x, v) \/ Tables!Declare(x, v)
             \/ Tables!DeclareGlobal(x, v)
             \/ \E a \in Args : Tables!CallWith(x, v, a)
      PROVE  Good(symtab_stack', owners')
  <2>1. CASE Tables!Assignment(x, v)
    BY <2>1, AssignmentStep
  <2>2. CASE Tables!External(x, v)
    BY <2>2, ExternalStep
  <2>3. CASE Tables!BuiltinSet(x, v)
    BY <2>3, BuiltinStep
  <2>4. CASE Tables!WordSet(x, v)
    BY <2>4, WordStep
  <2>5. CASE Tables!ForLoop(x, v)
    BY <2>5, ForStep
  <2>6. CASE Tables!DeclareGlobal(x, v)
    BY <2>6, DeclareGlobalStep
  <2>7. CASE \E a \in Args : Tables!CallWith(x, v, a)
    BY <2>7, CallWithStep
  <2>8. CASE Tables!Declare(x, v)
    BY <2>8, DeclareStep
  <2>9. QED
    BY <1>1, <2>1, <2>2, <2>3, <2>4, <2>5, <2>6, <2>7, <2>8
<1>2. ASSUME NEW x \in Names, NEW v \in Values \cup {Null}, Tables!Local(x, v)
      PROVE  Good(symtab_stack', owners')
  BY <1>2, LocalStep
<1>3. ASSUME NEW x \in Names, Tables!ReadOnly(x) \/ Tables!Unset(x)
      PROVE  Good(symtab_stack', owners')
  BY <1>3, ReadOnlyStep, UnsetStep
<1>4. ASSUME NEW a \in Args \cup {Null}, Tables!Call(a) PROVE Good(symtab_stack', owners')
  BY <1>4, CallStep
<1>5. CASE Tables!Eval
  BY <1>5, EvalStep
<1>6. CASE Tables!Return
  BY <1>6, ReturnStep
<1>7. QED
  BY <1>1, <1>2, <1>3, <1>4, <1>5, <1>6 DEF Tables!Next

\* A command leaves the levels alone, or lowers symtab_level; a call adds its own.
LEMMA StepLevels ==
  ASSUME Good(symtab_stack, owners), LevelsAre, Risky = {}, Tables!Next
  PROVE  LevelsAre'
<1> DEFINE n == Len(owners)
           same == owners' = owners /\ levels' = levels
                   /\ symtab_level' \in {symtab_level, symtab_level - 1}
           more == \E k : /\ owners' = Append(owners, k) /\ symtab_level' = symtab_level + 1
                           /\ levels' = Append(levels, symtab_level + 1)
           less == /\ n > 1 /\ owners' = Tables!Pop(owners) /\ symtab_level' = symtab_level - 1
                   /\ levels' = Tables!Pop(levels)
<1>1. n \in Nat \ {0} /\ owners \in Seq(Owner) /\ Tables!Running = n
  BY RunningIs DEF Good, Owned
<1>2. \A tabs : Tables!Becomes(tabs) \/ Tables!Lowers(tabs) => same
  BY DEF Tables!Becomes, Tables!Lowers
<1>3. \A k, tabs : Tables!Entered(k, tabs) => more
  BY DEF Tables!Entered
<1> HIDE DEF same, more
<1>4. ASSUME NEW x \in Names, NEW v \in Values
      PROVE  /\ Tables!Assignment(x, v) \/ Tables!External(x, v) \/ Tables!BuiltinSet(x, v) => same \/ more
             /\ Tables!WordSet(x, v) \/ Tables!ForLoop(x, v) => same
             /\ Tables!Declare(x, v) \/ Tables!DeclareGlobal(x, v) => same
             /\ \A a \in Args : Tables!CallWith(x, v, a) => more
  <2>1. Tables!Assignment(x, v) \/ Tables!External(x, v) \/ Tables!BuiltinSet(x, v) => same \/ more
    BY <1>2, <1>3 DEF Tables!Assignment, Tables!External, Tables!BuiltinSet
  <2>2. Tables!WordSet(x, v) \/ Tables!ForLoop(x, v) => same
    BY <1>2 DEF Tables!WordSet, Tables!ForLoop
  <2>3. Tables!DeclareGlobal(x, v) => same
    BY <1>2 DEF Tables!DeclareGlobal
  <2>4. Tables!Declare(x, v) => same
    BY <1>2, <2>3 DEF Tables!Declare, Tables!Declares
  <2>5. \A a \in Args : Tables!CallWith(x, v, a) => more
    BY <1>3 DEF Tables!CallWith
  <2>6. QED
    BY <2>1, <2>2, <2>3, <2>4, <2>5
<1>5. \A x \in Names, v \in Values \cup {Null} : Tables!Local(x, v) => same
  BY <1>2 DEF Tables!Local, Tables!Declares
<1>6. \A x \in Names : Tables!ReadOnly(x) \/ Tables!Unset(x) => same
  BY <1>2 DEF Tables!ReadOnly, Tables!Unset
<1>7. Tables!Eval \/ (\E a \in Args \cup {Null} : Tables!Call(a)) => more
  BY <1>3 DEF Tables!Eval, Tables!Call
<1>8. Tables!Return => less
  BY <1>1 DEF Tables!Return
<1> HIDE DEF less
<1>9. same \/ more \/ less
  BY <1>4, <1>5, <1>6, <1>7, <1>8 DEF Tables!Next
<1>10. CASE same
  BY <1>10 DEF same, LevelsAre
<1>11. CASE more
  <2>1. PICK k : /\ owners' = Append(owners, k) /\ symtab_level' = symtab_level + 1
                 /\ levels' = Append(levels, symtab_level + 1)
    BY <1>11 DEF more
  <2>2. Len(owners') = n + 1
    BY <1>1, <2>1, LenProperties
  <2>3. QED
    BY <1>1, <2>1, <2>2 DEF LevelsAre
<1>12. CASE less
  <2>1. /\ owners' = SubSeq(owners, 1, n - 1) /\ levels' = SubSeq(levels, 1, Len(levels) - 1)
        /\ n > 1 /\ symtab_level' = symtab_level - 1
    BY <1>12 DEF less, Tables!Pop
  <2>2. Len(owners') = n - 1
    BY <1>1, <2>1
  <2>3. QED
    BY <1>1, <2>1, <2>2 DEF LevelsAre
<1>13. QED
  BY <1>9, <1>10, <1>11, <1>12

LEMMA GoodTyped ==
  ASSUME Good(symtab_stack, owners), LevelsAre
  PROVE  Tables!TypeOK
<1> DEFINE t == symtab_stack
           o == owners
<1>1. /\ t \in Seq(Table) /\ Owned(o) /\ Len(t) = Len(o) /\ Len(o) \in Nat
      /\ \A x \in All : GoodFor(t, o, x)
  BY DEF Good, Owned
<1>2. Len(t) = Len(o) /\ o[1] = "shell" /\ \A i \in 2 .. Len(o) : o[i] \in {"function", "eval"}
  BY <1>1 DEF Owned
<1>3. ASSUME NEW i \in DOMAIN t, NEW x \in DOMAIN t[i]
      PROVE  /\ x \in Names \cup {Param} /\ t[i][x].val \in Values \cup {Null}
             /\ i > 1 /\ t[i][x].local => o[i] = "function"
             /\ t[i][x].readonly =>
                   \A k \in i+1..Len(o) : Tables!Copies(i, k, x) => t[k][x].readonly
  <2>1. i \in Nat /\ Has(t, x, i) /\ i \in 1 .. Len(o)
    BY <1>1, <1>3 DEF Has
  <2>2. x \in All /\ t[i][x] \in Entries
    BY <1>1, <2>1, EntryIs
  <2>3. GoodFor(t, o, x)
    BY <1>1, <2>2
  <2>4. ASSUME t[i][x].readonly, NEW k \in i+1..Len(o), Tables!Copies(i, k, x)
        PROVE  t[k][x].readonly
    <3>1. k \in Nat /\ k > i /\ Has(t, x, k)
      BY <1>1, <2>1, <2>4 DEF Tables!Copies, Has
    <3>2. Open(t, x, i, k)
      BY <2>4 DEF Tables!Copies, Open, Has
    <3>3. QED
      BY <2>1, <2>3, <2>4, <3>1, <3>2 DEF GoodFor
  <2>5. i > 1 /\ t[i][x].local => o[i] = "function"
    BY <2>1, <2>3 DEF GoodFor
  <2>6. x \in Names \cup {Param} /\ t[i][x].val \in Values \cup {Null}
    BY <2>2 DEF All, Entries
  <2>7. QED
    BY <2>4, <2>5, <2>6
<1>4. symtab_level \in Int /\ levels \in Seq(Int) /\ Len(levels) = Len(o) /\ levels[1] = 0
  BY DEF LevelsAre
<1>5. QED
  BY <1>2, <1>3, <1>4 DEF Tables!TypeOK

\* The inductive invariant.
GoodTables == part = "symbols" => Good(symtab_stack, owners) /\ LevelsAre

LEMMA TablesStayGood ==
  ASSUME Risky = {}
  PROVE  Spec => []GoodTables
<1>1. Init => GoodTables
  <2>1. ASSUME Init, part = "symbols" PROVE Tables!Init
    BY <2>1 DEF Init
  <2>2. Tables!Init => LevelsAre
    BY DEF Tables!Init, LevelsAre
  <2>3. QED
    BY <2>1, <2>2, ScopesStart DEF GoodTables
<1>2. GoodTables /\ [Next]_vars => GoodTables'
  <2>1. SUFFICES ASSUME GoodTables, [Next]_vars, part' = "symbols"
                 PROVE  Good(symtab_stack', owners') /\ LevelsAre'
    BY DEF GoodTables
  <2>2. part = "symbols" /\ Good(symtab_stack, owners) /\ LevelsAre
    BY <2>1 DEF GoodTables, Next, vars
  <2>3. CASE UNCHANGED vars
    BY <2>2, <2>3 DEF vars, symbols, LevelsAre
  <2>4. CASE Next
    <3>1. Tables!Next
      BY <2>2, <2>4 DEF Next
    <3>2. QED
      BY <2>2, <3>1, StepGood, StepLevels
  <2>5. QED
    BY <2>1, <2>3, <2>4
<1>3. QED
  BY <1>1, <1>2, PTL DEF Spec

\* The tables keep their types: the lowest is the shell's, declared are only
\* variables in the tables of functions (symtab/symtab_hash.c:135, 569).
THEOREM TablesAreTyped ==
  ASSUME Risky = {}
  PROVE  Spec => [](part = "symbols" => Tables!TypeOK)
<1>1. GoodTables => (part = "symbols" => Tables!TypeOK)
  BY GoodTyped DEF GoodTables
<1>2. QED
  BY <1>1, TablesStayGood, PTL

\* Whatever copies of a variable lie in the tables of do_simple_command(), every command
\* changes the variables as dynamic scoping says (symtab/symtab_hash.c:448, 569).
THEOREM VariablesAreScoped ==
  ASSUME Risky = {}
  PROVE  Spec => Scoped
<1>1. Init => (part = "symbols" => Tables!S!Init)
  <2>1. ASSUME Init, part = "symbols" PROVE Tables!Init
    BY <2>1 DEF Init
  <2>2. QED
    BY <2>1, ScopesStart
<1>2. GoodTables => (part = "symbols" => Tables!StepIsScoped)
  BY StepScoped DEF GoodTables
<1>3. Spec => []GoodTables
  BY TablesStayGood
<1>4. QED
  BY <1>1, <1>2, <1>3, PTL DEF Spec, Scoped
=============================================================================
