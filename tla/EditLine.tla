------------------------------ MODULE EditLine ------------------------------
(***************************************************************************)
(* A command line that is edited, as its user sees it: a text, a cursor    *)
(* between its characters, and keys that move the cursor, take text out or *)
(* put text in.  An operator (c, d, y) acts on the text between the cursor *)
(* and the place its motion leads to.  Editor has the code's buffer for it.*)
(***************************************************************************)
EXTENDS Integers, Sequences, SequencesExt, FiniteSets, FiniteSetsExt

CONSTANTS
    EnteredLines   \* the commands entered before

Blank == " "
Punctuation == {"#", "(", ")"}
Braces == {"(", ")"}
Stops == Punctuation \cup {Blank}

Fresh(t, c) ==
    [text |-> t, cur |-> c, mode |-> "input", over |-> FALSE, hi |-> Len(EnteredLines),
     op |-> "", n |-> 0, find |-> <<>>, last |-> <<>>,   \* the command mode's
     saved |-> <<>>, undo |-> <<>>, pattern |-> <<>>]

Size(l) == Len(l.text)
InWord(l, p) == p \in 0..(Size(l) - 1) /\ l.text[p + 1] # Blank
Starts(l) == {p \in 0..Size(l) : InWord(l, p) /\ ~InWord(l, p - 1)}
Lasts(l)  == {p \in 0..Size(l) : InWord(l, p) /\ ~InWord(l, p + 1)}
Places(l, chars) == {p \in 0..(Size(l) - 1) : l.text[p + 1] \in chars}

\* The member of P before or after the cursor that is next to it, or else.
Before(l, P, else) == LET Q == {p \in P : p < l.cur} IN IF Q = {} THEN else ELSE Max(Q)
After(l, P, else)  == LET Q == {p \in P : p > l.cur} IN IF Q = {} THEN else ELSE Min(Q)

Times(l) == IF l.n = 0 THEN 1 ELSE l.n

Part(l, from, to) == SubSeq(l.text, from + 1, to)
Without(l, from, to) ==
    [l EXCEPT !.text = Part(l, 0, from) \o Part(l, to, Size(l)), !.cur = from]
Put(l, s) ==
    [l EXCEPT !.text = Part(l, 0, l.cur) \o s \o Part(l, l.cur, Size(l)), !.cur = @ + Len(s)]
Shown(l, s) == [l EXCEPT !.text = s, !.cur = Len(s)]

Done(l) == [l EXCEPT !.op = "", !.n = 0]
Input(l) == [Done(l) EXCEPT !.mode = "input", !.find = <<>>, !.last = <<>>,
                            !.undo = <<>>, !.pattern = <<>>]
Escape(l) == [l EXCEPT !.mode = "command", !.undo = l.text]
Accepted(l) == [l EXCEPT !.mode = "done"]
-----------------------------------------------------------------------------
\* Keys in the input mode.

Type(l, c) ==
    IF l.over /\ l.cur < Size(l)
    THEN [l EXCEPT !.text[l.cur + 1] = c, !.cur = @ + 1]
    ELSE Put(l, <<c>>)

\* What Ctrl-W stops at: there is a word between it and the cursor.
WordLimits(l) ==
    {p \in Places(l, Stops) : \E q \in (p + 1)..(l.cur - 1) : InWord(l, q)}

Key(l, k) ==
    CASE k = "Backspace" -> IF l.cur = 0 THEN l ELSE Without(l, l.cur - 1, l.cur)
      [] k = "Del"  -> IF l.cur = Size(l) THEN l ELSE Without(l, l.cur, l.cur + 1)
      [] k = "Kill" -> Shown(l, <<>>)
      [] k = "EraseWord" -> Without(l, 1 + Max({-1} \cup WordLimits(l)), l.cur)
      [] k = "Left"  -> [l EXCEPT !.cur = Max({0, @ - 1})]
      [] k = "Right" -> [l EXCEPT !.cur = Min({Size(l), @ + 1})]
      [] k = "Home"  -> [l EXCEPT !.cur = 0]
      [] k = "End"   -> [l EXCEPT !.cur = Size(l)]
      [] k = "CtrlLeft"  -> [l EXCEPT !.cur = Before(l, Starts(l), 0)]
      [] k = "CtrlRight" -> [l EXCEPT !.cur = After(l, {p + 1 : p \in Lasts(l)}, Size(l))]
      [] k = "Ins"   -> [l EXCEPT !.over = ~@]

\* n commands back and forth; behind the last one the line is empty.
Up(l, n) ==
    LET i == Max({0, l.hi - n})
    IN  IF l.hi = 0 THEN l ELSE [Shown(l, EnteredLines[i + 1]) EXCEPT !.hi = i]
Down(l, n) ==
    LET i == Min({Len(EnteredLines), l.hi + n})
    IN  [Shown(l, IF i = Len(EnteredLines) THEN <<>> ELSE EnteredLines[i + 1]) EXCEPT !.hi = i]
\* G: command n, the oldest without a count.
Fetched(l) ==
    LET i == Min({Len(EnteredLines), Times(l)})
    IN  IF EnteredLines = <<>> THEN l ELSE [Shown(l, EnteredLines[i]) EXCEPT !.hi = i - 1]
-----------------------------------------------------------------------------
\* Keys in the command mode.

Opposite == [f |-> "F", F |-> "f", t |-> "T", T |-> "t"]

\* The n-th place of c, or the last one, to the right or to the left; else the cursor's.
Nth(l, k, c, n) ==
    LET right == k \in {"f", "t"}
        P == {p \in Places(l, {c}) : IF right THEN p > l.cur ELSE p < l.cur}
        Nearer(p) == {q \in P : IF right THEN q <= p ELSE q >= p}
        Q == {p \in P : Cardinality(Nearer(p)) = Min({n, Cardinality(P)})}
    IN  IF Q = {} THEN l.cur
        ELSE (CHOOSE p \in Q : TRUE) + (IF k = "t" THEN -1 ELSE IF k = "T" THEN 1 ELSE 0)

\* The brace that goes with the one under the cursor, or the next brace.
Partner(l) ==
    IF l.cur \notin Places(l, Braces) THEN After(l, Places(l, Braces), l.cur)
    ELSE IF l.text[l.cur + 1] = "(" THEN After(l, Places(l, {")"}), l.cur)
    ELSE Before(l, Places(l, {"("}), l.cur)

Target(l, k) ==
    CASE k \in {"0", "^"} -> 0
      [] k = "$" -> Size(l)
      [] k = "[H" -> Min({Size(l)} \cup Starts(l))
      [] k = "h" -> Max({0, l.cur - Times(l)})
      [] k = "l" -> Min({Size(l), l.cur + Times(l)})
      [] k = "b" -> Before(l, Starts(l), 0)
      [] k = "B" -> Before(l, Lasts(l), 0)
      [] k \in {"w", "W"} -> After(l, Starts(l), Size(l))
      [] k = "e" -> After(l, Lasts(l), l.cur)
      [] k = "E" -> After(l, {p + 1 : p \in Lasts(l)}, Size(l))
      [] k = "|" -> Min({Size(l), Times(l) - 1})

Reached(l, t) ==
    LET from == Min({l.cur, t})
        to   == Max({l.cur, t})
    IN  Done(CASE l.op = ""  -> [l EXCEPT !.cur = t]
               [] l.op = "d" -> Without(l, from, to)
               [] l.op = "c" -> Input(Without(l, from, to))
               [] l.op = "y" -> IF from = to THEN l ELSE [l EXCEPT !.saved = Part(l, from, to)])

Find(l, k, c) == [Reached(l, Nth(l, k, c, Times(l))) EXCEPT
                     !.find = IF l.op = "c" THEN <<>> ELSE <<k, c>>]

FindAgain(l, inverse) ==
    IF l.find = <<>> THEN Done(l)
    ELSE LET k == IF inverse THEN Opposite[l.find[1]] ELSE l.find[1]
         IN  Done([l EXCEPT !.cur = Nth(l, k, l.find[2], Times(l))])

Operator(l, k) ==
    IF l.op # k THEN [l EXCEPT !.op = k]
    ELSE CASE k = "d" -> Done(Shown(l, <<>>))
           [] k = "c" -> Input(Shown(l, <<>>))
           [] k = "y" -> Done([l EXCEPT !.saved = IF l.text = <<>> THEN @ ELSE l.text])

Swapped(c) == CASE c = "a" -> "A" [] c = "A" -> "a" [] OTHER -> c

\* The characters from the cursor on, at most as many as the count says.
Ahead(l) == Min({Size(l), l.cur + Times(l)})
Changed(l, s) == [Done(l) EXCEPT !.text = Part(l, 0, l.cur) \o s \o Part(l, l.cur + Len(s), Size(l)),
                                 !.cur = @ + Len(s)]
Repeated(s, n) == FlattenSeq([i \in 1..n |-> s])

Change(l, k, c) ==
    LET m == CASE k = "x" -> Without(l, l.cur, Ahead(l))
               [] k = "X" -> Without(l, Max({0, l.cur - Times(l)}), l.cur)
               [] k = "D" -> Without(l, l.cur, Size(l))
               [] k = "P" -> Put(l, Repeated(l.saved, Times(l)))
               [] k = "p" -> Put([l EXCEPT !.cur = Min({Size(l), @ + 1})], Repeated(l.saved, Times(l)))
               [] k = "r" -> Changed(l, [i \in 1..(Ahead(l) - l.cur) |-> c])
               [] k = "~" -> Changed(l, [i \in 1..(Ahead(l) - l.cur) |-> Swapped(l.text[l.cur + i])])
    IN  [Done(m) EXCEPT !.last = <<k, Times(l)>>]

Undo(l) == Done(Shown(l, l.undo))
YankEnd(l) == Done([l EXCEPT !.saved = IF l.cur = Size(l) THEN @ ELSE Part(l, l.cur, Size(l))])

ToInput(l, k) ==
    Input(CASE k = "i" -> l
            [] k = "I" -> [l EXCEPT !.cur = 0]
            [] k = "a" -> [l EXCEPT !.cur = Min({Size(l), @ + 1})]
            [] k = "A" -> [l EXCEPT !.cur = Size(l)]
            [] k = "C" -> Without(l, l.cur, Size(l))
            [] k = "S" -> Shown(l, <<>>)
            [] k = "s" -> Without(l, l.cur, Ahead(l))
            [] k = "R" -> [l EXCEPT !.over = TRUE])

\* Commands with the pattern s in them, or at their beginning.
Matching(s, hooked) ==
    {i \in DOMAIN EnteredLines :
        \E j \in 1..Len(EnteredLines[i]) :
            /\ SubSeq(EnteredLines[i], j, Min({j + Len(s) - 1, Len(EnteredLines[i])})) = s
            /\ hooked => j = 1}

\* An empty pattern is the last one.
Search(l, s, hooked, back) ==
    LET p == IF s = <<>> THEN l.pattern[1] ELSE s
        M == {i \in Matching(p, hooked) : IF back THEN i - 1 < l.hi ELSE i - 1 > l.hi}
        i == IF back THEN Max(M) ELSE Min(M)
        m == [Done(l) EXCEPT !.pattern = <<p, back>>]
    IN  CASE s = <<>> /\ l.pattern = <<>> -> Done(l)
          [] OTHER -> IF M = {} THEN m ELSE [Shown(m, EnteredLines[i]) EXCEPT !.hi = i - 1]

SearchAgain(l, inverse) ==
    IF l.pattern = <<>> THEN Done(l)
    ELSE LET back == l.pattern[2]
         IN  [Search(l, l.pattern[1], FALSE, back # inverse) EXCEPT !.pattern = l.pattern]

\* The words of the command before the line, which is the n-th or the last one.
WordOf(s, n) ==
    LET l == Fresh(s, 0)
        S == Starts(l)
        Q == {p \in S : Cardinality({q \in S : q <= p}) = (IF n = 0 THEN Cardinality(S) ELSE n)}
    IN  IF Q = {} THEN <<>>
        ELSE LET p == CHOOSE p \in Q : TRUE
             IN  SubSeq(s, p + 1, 1 + Min({q \in Lasts(l) : q >= p}))

LastWord(l) ==
    LET w == WordOf(EnteredLines[l.hi], l.n)
    IN  IF l.hi = 0 THEN Done(l)
        ELSE Input(IF w = <<>> THEN l ELSE Shown(l, l.text \o <<Blank>> \o w))

\* A # before the line or, where there is one, without it.
Comment(l) ==
    IF Size(l) > 0 /\ l.text[1] = "#" THEN Done([Without(l, 0, 1) EXCEPT !.last = <<>>, !.find = <<>>])
    ELSE Accepted(Shown(l, <<"#">> \o l.text))
=============================================================================
