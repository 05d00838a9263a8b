---------------------------- MODULE HistExpand ----------------------------
(***************************************************************************)
(* History expansion (hist_expand.c): hist_expand() reads a line and puts  *)
(* the words of an earlier command, changed by modifiers, in the place of  *)
(* every reference to it.  Lines and commands are sequences of characters, *)
(* the words of a command have one blank between them.                     *)
(***************************************************************************)
EXTENDS Integers, Sequences, SequencesExt, FiniteSets, TLC

CONSTANT
    Eager   \* what lines do that the expansion gets wrong:
            \*   "longRest"  have as much after a reference as it adds or takes away
            \*   "numbered"  select words by number
            \*   "missing"   refer to a command that is not there but by number
            \*   "past"      select words up to one after the last
            \*   "inPlace"   change words selected by a designator
            \*   "shared"    change a command whose text a variable has, too
            \*   "head"      take the head of a path of more than two names
            \*   "tail"      change the first of several words from its end
            \*   "closed"    close s/old/new/, or have a modifier after it
            \*   "nothing"   replace by nothing
            \*   "again"     replace everywhere what the replacement contains
            \*   "repeat"    repeat a modifier
            \*   "quotes"    protect quotes and backslashes, or whole words
            \*   "quick"     replace by ^old^new with older text in the buffer
            \*               or anywhere but at the start of the line
            \*   "inside"    have ' in double quotes before a reference
            \*   "browsed"   look for a text, after the user went up by two lines
            \*               or more in the history

Blank == " "
Words(t) ==
    LET step(ws, c) == IF c = Blank THEN Append(ws, <<>>)
                       ELSE [ws EXCEPT ![Len(ws)] = Append(@, c)]
    IN  FoldLeft(step, <<<<>>>>, t)
Joined(ws) ==
    IF ws = <<>> THEN <<>> ELSE FoldLeft(LAMBDA t, w : t \o <<Blank>> \o w, Head(ws), Tail(ws))

\* The places where t has c, and the text around them.
Places(t, c) == {i \in DOMAIN t : t[i] = c}
FirstOf(S) == CHOOSE i \in S : \A j \in S : i <= j
LastOf(S)  == CHOOSE i \in S : \A j \in S : i >= j
From(t, i) == SubSeq(t, i, Len(t))

Upper == [c \in {"l", "s", "x", "y"} |->
            CASE c = "l" -> "L" [] c = "s" -> "S" [] c = "x" -> "X" [] c = "y" -> "Y"]
Capital(c) == IF c \in DOMAIN Upper THEN Upper[c] ELSE c
Digits == <<"1", "2", "3", "4", "5">>
Number(c) == CHOOSE n \in DOMAIN Digits : Digits[n] = c
IsDigit(c) == c \in Range(Digits)

\* The history, a variable's value, what an older line has left in the buffer
\* after the end of this one, and cmd_history_index: the length of the history,
\* unless the line was typed after going up.
Env(hist, var, old, index) == [hist |-> hist, var |-> var, old |-> old, index |-> index]
-----------------------------------------------------------------------------
(* Lines as they are meant: sequences of text, quoted text and references,  *)
(* each a command, a designator of its words and modifiers.                 *)

Lit(s)            == <<"lit", s>>
Sq(s)             == <<"sq", s>>
Dq(s)             == <<"dq", s>>
Esc(c)            == <<"esc", c>>
Ref(ev, des, mods) == <<"ref", ev, des, mods>>
Quick(x, y, closed) == <<"quick", x, y, closed>>

\* A command is the last, the n-th from the end or from the start, or the last
\* that begins with a text or contains it.
EventText(ev) ==
    CASE ev[1] = "last"   -> <<"!", "!">>
      [] ev[1] = "back"   -> <<"!", "-", Digits[ev[2]]>>
      [] ev[1] = "nth"    -> <<"!", Digits[ev[2]]>>
      [] ev[1] = "starts" -> <<"!">> \o ev[2]
      [] ev[1] = "has"    -> <<"!", "?">> \o ev[2] \o <<"?">>
\* A modifier is a letter, for all words or not, or a replacement.
Mod(letter, all)         == <<letter, all>>
Replace(x, y, all, closed) == <<"s", all, x, y, closed>>
Change(x, y, closed) == x \o <<"/">> \o y \o (IF closed THEN <<"/">> ELSE <<>>)
ModText(m) ==
    <<":">> \o (IF m[2] THEN <<"g">> ELSE <<>>) \o <<m[1]>>
    \o (IF m[1] = "s" THEN <<"/">> \o Change(m[3], m[4], m[5]) ELSE <<>>)

\* A text to look for ends at a colon.
Spelled(ev, des) ==
    IF ev[1] = "starts" /\ des # <<>> /\ des[1] # ":" THEN <<":">> \o des ELSE des

RECURSIVE Text(_)
Text(pieces) ==
    LET text(p) ==
            CASE p[1] = "lit" -> p[2]
              [] p[1] = "sq"  -> <<"'">> \o p[2] \o <<"'">>
              [] p[1] = "dq"  -> <<"\"">> \o Text(p[2]) \o <<"\"">>
              [] p[1] = "esc" -> <<"\\", p[2]>>
              [] p[1] = "ref" ->
                   EventText(p[2]) \o Spelled(p[2], p[3])
                   \o FlattenSeq([i \in DOMAIN p[4] |-> ModText(p[4][i])])
              [] p[1] = "quick" ->
                   <<"^">> \o p[2] \o <<"^">> \o p[3] \o (IF p[4] THEN <<"^">> ELSE <<>>)
    IN  FlattenSeq([i \in DOMAIN pieces |-> text(pieces[i])])

Begins(t, s) == IsPrefix(s, t)
Has(t, s) == \E i \in DOMAIN t : Begins(From(t, i), s)

\* The number of the command that is referred to, 0 if there is none.
Event(ev, hist) ==
    LET n == Len(hist)
        those == {i \in 1..n : IF ev[1] = "starts" THEN Begins(hist[i], ev[2])
                               ELSE Has(hist[i], ev[2])}
    IN  CASE ev[1] = "last" -> n
          [] ev[1] = "back" -> IF ev[2] > n THEN 0 ELSE n + 1 - ev[2]
          [] ev[1] = "nth"  -> IF ev[2] > n THEN 0 ELSE ev[2]
          [] OTHER -> IF those = {} THEN 0 ELSE LastOf(those)

\* The words a designator selects, numbered from 0; none where an argument is
\* asked for of a command without arguments.
NoWord == <<"no such word">>
Designators ==
    {<<>>, <<":", "^">>, <<"$">>, <<"*">>, <<"-", "1">>, <<":", "1">>, <<":", "1", "*">>}
Selected(ws, des) ==
    LET last == Len(ws) - 1
        to(i, j) == SubSeq(ws, i + 1, j + 1)
    IN  CASE des = <<>>                 -> ws
          [] des = <<":", "^">>         -> IF last = 0 THEN <<>> ELSE to(1, 1)
          [] des = <<"$">>              -> IF last = 0 THEN <<>> ELSE to(last, last)
          [] des = <<"*">>              -> to(1, last)
          [] des = <<"-", "1">>         -> IF last < 1 THEN <<NoWord>> ELSE to(0, 1)
          [] des = <<":", "1">>         -> IF last < 1 THEN <<NoWord>> ELSE to(1, 1)
          [] des = <<":", "1", "*">>    -> IF last < 1 THEN <<NoWord>> ELSE to(1, last)

\* What a modifier makes of one word.
Until(w, S) == IF S = {} THEN w ELSE SubSeq(w, 1, LastOf(S) - 1)
After(w, S) == IF S = {} THEN w ELSE From(w, LastOf(S) + 1)
Capitalized(w) ==
    LET small == {i \in DOMAIN w : w[i] \in DOMAIN Upper}
    IN  IF small = {} THEN w ELSE [w EXCEPT ![FirstOf(small)] = Capital(@)]
Modified(letter, w) ==
    CASE letter = "h" -> Until(w, Places(w, "/") \ {1})
      [] letter = "t" -> After(w, Places(w, "/"))
      [] letter = "r" -> Until(w, Places(w, ".") \ {1})
      [] letter = "e" -> After(w, Places(w, "."))
      [] letter = "u" -> Capitalized(w)
Everywhere == {"h", "t", "r", "e", "u"}

\* Exclamation marks and colons that are not quoted get a backslash.
RECURSIVE Guarded(_)
Guarded(t) ==
    LET close == Places(Tail(t), "'")
    IN  IF t = <<>> THEN t
        ELSE IF Head(t) \in {"!", ":"} THEN <<"\\">> \o <<Head(t)>> \o Guarded(Tail(t))
        ELSE IF Head(t) = "\\" THEN SubSeq(t, 1, 2) \o Guarded(From(t, 3))
        ELSE IF Head(t) = "'" /\ close # {}
             THEN SubSeq(t, 1, FirstOf(close) + 1) \o Guarded(From(t, FirstOf(close) + 2))
        ELSE <<Head(t)>> \o Guarded(Tail(t))

\* x is replaced where it is first, or everywhere.
RECURSIVE Substituted(_, _, _, _)
Substituted(t, x, y, all) ==
    LET found == {i \in DOMAIN t : Begins(From(t, i), x)}
        i     == FirstOf(found)
        rest  == From(t, i + Len(x))
    IN  IF found = {} THEN t
        ELSE SubSeq(t, 1, i - 1) \o y \o (IF all THEN Substituted(rest, x, y, all) ELSE rest)

\* What a modifier makes of the words that are selected.
Effect(t, m) ==
    LET ws == Words(t)
    IN  CASE m[1] \in Everywhere ->
               Joined([i \in DOMAIN ws |-> IF i = 1 \/ m[2] THEN Modified(m[1], ws[i]) ELSE ws[i]])
          [] m[1] = "U" -> [i \in DOMAIN t |-> Capital(t[i])]
          [] m[1] = "q" -> Guarded(t)
          [] m[1] = "x" ->
               LET g == Words(Guarded(t))
               IN  Joined([i \in DOMAIN g |-> <<"\"">> \o g[i] \o <<"\"">>])
          [] m[1] = "s" -> Substituted(t, m[3], m[4], m[2])
          [] m[1] = "p" -> t

\* & stands for the modifier before it.
RECURSIVE Effects(_, _, _)
Effects(t, mods, i) ==
    IF i > Len(mods) THEN t
    ELSE Effects(Effect(t, IF mods[i][1] = "&" THEN mods[i - 1] ELSE mods[i]), mods, i + 1)

Line(t)   == [kind |-> "line", line |-> t]
Other(k)  == [kind |-> k, line |-> <<>>]
\* The text of a piece after the expansion: an error if it refers to nothing, if
\* it repeats nothing, or if it is to be printed only.
RECURSIVE Expansion(_, _)
Expansion(pieces, env) ==
    LET ref(ev, des, mods) ==
            LET e  == Event(ev, env.hist)
                ws == Selected(Words(env.hist[e]), des)
            IN  IF e = 0 THEN Other("error")
                ELSE IF ws = <<NoWord>> \/ (mods # <<>> /\ mods[1][1] = "&") THEN Other("error")
                ELSE IF \E i \in DOMAIN mods : mods[i][1] = "p" THEN Other("error")
                ELSE Line(Effects(Joined(ws), mods, 1))
        expansion(p) ==
            CASE p[1] = "ref" -> ref(p[2], p[3], p[4])
              [] p[1] = "quick" -> ref(<<"last">>, <<>>, <<Replace(p[2], p[3], FALSE, TRUE)>>)
              [] p[1] = "dq"  -> LET in == Expansion(p[2], env)
                                 IN  IF in.kind = "error" THEN in
                                     ELSE Line(<<"\"">> \o in.line \o <<"\"">>)
              [] OTHER -> Line(Text(<<p>>))
        all == [i \in DOMAIN pieces |-> expansion(pieces[i])]
    IN  IF \E i \in DOMAIN all : all[i].kind = "error" THEN Other("error")
        ELSE Line(FlattenSeq([i \in DOMAIN all |-> all[i].line]))
-----------------------------------------------------------------------------
(* What hist_expand() does. *)

\* The text in the buffer after n characters from i on: after the end of the
\* line there is a NUL and what an older line has left.
Rest(line, i, n, old) ==
    IF i + n - 1 <= Len(line) THEN From(line, i + n) ELSE From(old, i + n - 1 - Len(line))

\* get_hist_cmd() and get_hist_cmdp(): a number, 0 for NULL.
GetHistCmd(index, hist) ==
    LET n == Len(hist)
    IN  IF index = 0 THEN 0
        ELSE IF index < 0 THEN IF index + n < 0 THEN 0 ELSE index + n + 1
        ELSE IF index > n THEN 0 ELSE index
\* The commands that fit, down from cmd_history_index, which counts from 0.
Fitting(s, anchor, env) ==
    {i \in DOMAIN env.hist : /\ i <= env.index + 1
                             /\ IF anchor THEN Begins(env.hist[i], s) ELSE Has(env.hist[i], s)}
\* A mutation: the search goes from the oldest command on.
GetHistCmdpOldest(s, anchor, env) ==
    LET those == Fitting(s, anchor, env) IN IF those = {} THEN 0 ELSE FirstOf(those)
GetHistCmdp(s, anchor, env) ==
    LET those == Fitting(s, anchor, env) IN IF those = {} THEN 0 ELSE LastOf(those)

\* get_hist_words(): n characters of the designator at the start of t, and the
\* words; no words if there is none.
Got(n, words, error) == [n |-> n, words |-> words, found |-> ~error, error |-> error]
Nothing == [n |-> 0, words |-> <<>>, found |-> FALSE, error |-> FALSE]
GetHistWords(cmd, t) ==
    LET i  == IF t # <<>> /\ t[1] = ":" THEN 1 ELSE 0
        c  == IF Len(t) > i THEN t[i + 1] ELSE ""
        ws == Words(cmd)
        y  == Number(t[i + 2])
        upto(s, k) == SubSeq(s, 1, IF k < Len(s) THEN k ELSE Len(s))
    IN  CASE c = "^" -> Got(i + 1, upto(Tail(ws), 1), FALSE)
          [] c = "$" -> Got(i + 1, IF Len(ws) = 1 THEN <<>> ELSE <<Last(ws)>>, FALSE)
          [] c = "*" -> Got(i + 1, Tail(ws), FALSE)
          \* The place of a word is its end after the last one.
          [] c = "-" /\ Len(t) > i + 1 /\ IsDigit(t[i + 2]) ->
               Got(i + 2, upto(ws, y + 1), y > Len(ws))
          [] c = "-" -> Got(i, <<>>, TRUE)
          [] OTHER   -> Nothing

\* The head of a word is what comes before the first slash, but for a leading one.
HeadOf(w) ==
    LET slashes == Places(w, "/") \ {1}
    IN  IF slashes = {} THEN w ELSE SubSeq(w, 1, FirstOf(slashes) - 1)
\* Heads and capitals begin with the first word, tails and roots with the last.
OnWords(letter, t, global) ==
    LET ws   == Words(t)
        one  == IF letter \in {"h", "u"} THEN 1 ELSE Len(ws)
        f(w) == IF letter = "h" THEN HeadOf(w) ELSE Modified(letter, w)
    IN  Joined([i \in DOMAIN ws |-> IF i = one \/ global THEN f(ws[i]) ELSE ws[i]])

\* Quotes are lost, and so is what a backslash precedes.  A word's quotes are not
\* opened at the start of the text.
RECURSIVE Quoted(_, _)
Quoted(t, all) ==
    LET c == Head(t)
    IN  IF t = <<>> THEN t
        ELSE (CASE c = Blank /\ all -> <<"\"", Blank, "\"">>
                [] c = "'"          -> <<>>
                [] c = "\\"         -> <<c>>
                [] c \in {"!", ":"} -> <<"\\", c>>
                [] OTHER            -> <<c>>)
             \o Quoted(From(t, IF c = "\\" THEN 3 ELSE 2), all)

\* do_hist_modif() in progress: the characters it has taken from the line, what
\* it has made of the text, what the string it was given holds now, whether it
\* still works in that string, and how it ends.
Modifying(cmd) == [n |-> 0, cmd |-> cmd, own |-> cmd, inPlace |-> TRUE, kind |-> "line"]

\* The empty string it replaces by is freed, which it must not be.
Replacing(cmd, x, y, global) ==
    IF global /\ Has(y, x) /\ Has(cmd, x) THEN "hangs" ELSE IF y = <<>> THEN "crash" ELSE "line"

RECURSIVE DoHistModif(_, _, _, _, _)
\* The modifier with its letter at letterAt, after nth others.
DoHistModif(t, r, nth, global, letterAt) ==
    LET c     == IF letterAt <= Len(t) THEN t[letterAt] ELSE ""
        fails(k) == [r EXCEPT !.kind = k]
        start == letterAt + 2
        slash == {i \in Places(t, "/") : i >= start}
        mid   == FirstOf(slash)
        ends  == slash \ {mid}
        end   == IF ends = {} THEN Len(t) + 1 ELSE FirstOf(ends)
        x     == SubSeq(t, start, mid - 1)
        y     == SubSeq(t, mid + 1, end - 1)
        \* On to the modifier after the letter, if there is one.
        next(cmd, copy) ==
            LET n == [r EXCEPT !.n = @ + 2, !.cmd = cmd, !.inPlace = @ /\ ~copy,
                               !.own = IF r.inPlace /\ ~copy THEN cmd ELSE @]
            IN  IF letterAt < Len(t) /\ t[letterAt + 1] = ":"
                THEN DoHistModif(t, n, nth + 1, FALSE, letterAt + 2) ELSE n
    IN  IF c = "g" THEN DoHistModif(t, [r EXCEPT !.n = @ + 1], nth, TRUE, letterAt + 1)
        ELSE IF c \in Everywhere THEN next(OnWords(c, r.cmd, global), FALSE)
        ELSE IF c = "U" THEN next([i \in DOMAIN r.cmd |-> Capital(r.cmd[i])], FALSE)
        ELSE IF c \in {"q", "x"}
             THEN next(Quoted(r.cmd, c = "x") \o (IF c = "x" THEN <<"\"">> ELSE <<>>), TRUE)
        ELSE IF c = "s" /\ start <= Len(t) + 1 /\ t[letterAt + 1] = "/" /\ slash # {}
             THEN [r EXCEPT !.n = @ + (end - start) + 3,
                            !.cmd = Substituted(@, x, y, global),
                            !.kind = Replacing(r.cmd, x, y, global)]
        ELSE IF c = "&" /\ nth > 1 THEN fails("hangs")
        ELSE fails("error")
\* The modifiers at the start of t.
HistModif(cmd, t) ==
    IF t = <<>> \/ t[1] # ":" THEN Modifying(cmd) ELSE DoHistModif(t, Modifying(cmd), 0, FALSE, 2)

\* The event at i in the line: a command, 0 if there is none and "error" if that
\* is one; and the number of its characters.
Found(event, n, error) == [event |-> event, n |-> n, error |-> error]
Ends(line, i, S) ==
    LET k == {j \in i..Len(line) : line[j] \in S} IN IF k = {} THEN Len(line) + 1 ELSE FirstOf(k)
\* The event that a number or the start of a command names.
NamedEvent(line, i, env) ==
    LET c   == line[i + 1]
        end == Ends(line, i + 2, {":", Blank})
        e   == GetHistCmd(Number(c), env.hist)
    IN  IF IsDigit(c) THEN Found(e, 2, e = 0)
        ELSE IF c \in DOMAIN Upper
        THEN Found(GetHistCmdp(SubSeq(line, i + 1, end - 1), TRUE, env), end - i, FALSE)
        ELSE Found(0, 0, FALSE)
EventAt(line, i, env) ==
    LET c      == line[i + 1]
        d      == IF i + 2 <= Len(line) THEN line[i + 2] ELSE ""
        mark   == Ends(line, i + 2, {"?", Blank})
        closed == mark <= Len(line) /\ line[mark] = "?"
        last   == GetHistCmd(-1, env.hist)
    IN  CASE c = "!" -> Found(last, 2, last = 0)
          [] c = "-" -> IF IsDigit(d) THEN Found(GetHistCmd(-Number(d), env.hist), 3, FALSE)
                        ELSE Found(0, 0, TRUE)
          [] c = "?" -> IF d \in {"", "?"} THEN Found(0, 0, TRUE)
                        ELSE Found(GetHistCmdp(SubSeq(line, i + 2, mark - 1), FALSE, env),
                                   mark - i + (IF closed THEN 1 ELSE 0), FALSE)
          [] OTHER   -> NamedEvent(line, i, env)

\* The line being read, from i on, and the variable whose value may lie in the
\* string that is changed.
Reading(line, env) ==
    [line |-> line, i |-> 1, kind |-> "line", expanded |-> FALSE, env |-> env]

\* insert_hist_cmd(): n characters at i make place for s.  The rest is copied
\* forwards, over itself when it is longer than the way it goes; and backwards
\* after a NUL is written where it will end.
Overwrites(s, n, rest) == Len(s) > n /\ Len(rest) >= Len(s) - n
InsertHistCmd(r, s, n) ==
    LET rest == Rest(r.line, r.i, n, r.env.old)
        less == n - Len(s)
        cut  == less > 0 /\ r.i + n - 1 <= Len(r.line) /\ Len(rest) >= less
    IN  IF Overwrites(s, n, rest) THEN [r EXCEPT !.kind = "crash"]
        ELSE [r EXCEPT !.line = SubSeq(@, 1, r.i - 1) \o s
                                \o (IF cut THEN SubSeq(rest, 1, Len(rest) - less) ELSE rest),
                       !.i = @ + Len(s), !.expanded = TRUE]

\* ^old^new^ becomes :s/old/new/ on the last command.
QuickAt(r) ==
    LET carets == {k \in Places(r.line, "^") : k > r.i}
        second == FirstOf(carets)
        end    == IF Cardinality(carets) > 1 THEN FirstOf(carets \ {second}) ELSE Len(r.line)
        modif  == [k \in 1..(end - r.i) |-> IF r.line[r.i + k] = "^" THEN "/" ELSE r.line[r.i + k]]
        last   == GetHistCmd(-1, r.env.hist)
        m      == HistModif(r.env.hist[last], <<":", "s", "/">> \o modif)
    IN  IF last = 0 THEN [r EXCEPT !.kind = "error"]
        ELSE IF m.kind # "line" \/ m.cmd = <<>> THEN [r EXCEPT !.kind = "error"]
        ELSE InsertHistCmd(r, m.cmd, m.n)

\* The n characters of a reference give way to what m makes of sel.  Words that a
\* designator has selected and modifiers have changed where they are are freed
\* before they are inserted.
Referred(r, n, sel, words, m) ==
    LET v == [r EXCEPT !.env.var = IF @ = sel THEN m.own ELSE @]
    IN  IF m.kind # "line" THEN [v EXCEPT !.kind = m.kind]
        ELSE IF words /\ m.inPlace /\ m.own # sel THEN [v EXCEPT !.kind = "garbage"]
        ELSE InsertHistCmd(v, m.cmd, n + m.n)
\* The words w of the command cmd are referred to.
RefTo(r, n, cmd, w) ==
    LET sel == IF w.found THEN Joined(w.words) ELSE cmd
    IN  IF w.error THEN [r EXCEPT !.kind = "error"]
        ELSE Referred(r, n + w.n, sel, w.found, HistModif(sel, From(r.line, r.i + n + w.n)))
RefToEvent(r, e) ==
    IF e.error THEN [r EXCEPT !.kind = "error"]
    ELSE IF e.event = 0 THEN [r EXCEPT !.i = @ + 1]
    ELSE RefTo(r, e.n, r.env.hist[e.event],
               GetHistWords(r.env.hist[e.event], From(r.line, r.i + e.n)))
RefAt(r) == RefToEvent(r, EventAt(r.line, r.i, r.env))

RECURSIVE Scan(_)
Scan(r) ==
    LET c     == r.line[r.i]
        d     == IF r.i < Len(r.line) THEN r.line[r.i + 1] ELSE ""
        close == {k \in Places(r.line, "'") : k > r.i}
        to(k) == Scan([r EXCEPT !.i = k])
    IN  IF r.kind # "line" \/ r.i > Len(r.line) THEN r
        ELSE IF c = "\\" THEN to(r.i + 2)
        ELSE IF c = "'" THEN to(IF close = {} THEN Len(r.line) + 1 ELSE FirstOf(close) + 1)
        ELSE IF c = "^" THEN Scan(QuickAt(r))
        ELSE IF c = "!" /\ d \notin {"", Blank, "=", "(", "\""} THEN Scan(RefAt(r))
        ELSE to(r.i + 1)

\* What the shell has in the command buffer afterwards: the line itself if
\* nothing was expanded.
Left(r) ==
    [kind |-> r.kind, line |-> IF r.kind = "line" THEN r.line ELSE <<>>, var |-> r.env.var]
HistExpand(line, env) == Left(Scan(Reading(line, env)))
-----------------------------------------------------------------------------
\* What users are assumed not to write.
Flat(pieces) ==
    FlattenSeq([i \in DOMAIN pieces |->
        IF pieces[i][1] # "dq" THEN <<pieces[i]>>
        ELSE <<Lit(<<"\"">>)>> \o pieces[i][2] \o <<Lit(<<"\"">>)>>])
InPlace(mods) == \E i \in DOMAIN mods : mods[i][1] \in Everywhere \cup {"U"}
\* The rest of the line after a text is not shorter than the difference that the
\* expansion of the text makes.
LongRest(e, text, rest) ==
    /\ e.kind = "line"
    /\ Len(rest) + 1 >= Len(e.line) - Len(text) /\ Len(rest) + 1 >= Len(text) - Len(e.line)
Careless(pieces, env) ==
    LET flat   == Flat(pieces)
        refs   == {p \in Range(flat) : p[1] = "ref"}
        mods   == UNION {Range(p[4]) : p \in refs}
        event(p) == Event(p[2], env.hist)
        letters == {m[1] : m \in mods}
        long(i) == /\ flat[i][1] \in {"ref", "quick"}
                   /\ LongRest(Expansion(<<flat[i]>>, env), Text(<<flat[i]>>),
                               Text(SubSeq(flat, i + 1, Len(flat))))
    IN  \/ "longRest" \notin Eager /\ \E i \in DOMAIN flat : i < Len(flat) /\ long(i)
        \/ "numbered" \notin Eager /\ \E p \in refs : Has(p[3], <<":", "1">>)
        \/ "missing" \notin Eager
           /\ \E p \in refs : event(p) = 0 /\ p[2][1] \in {"back", "starts", "has"}
        \/ "past" \notin Eager
           /\ \E p \in refs : /\ p[3] = <<"-", "1">> /\ event(p) # 0
                             /\ Len(Words(env.hist[event(p)])) = 1
        \/ "inPlace" \notin Eager /\ \E p \in refs : p[3] # <<>> /\ InPlace(p[4])
        \/ "shared" \notin Eager
           /\ env.var \in Range(env.hist) /\ \E p \in refs : InPlace(p[4])
        \/ "head" \notin Eager /\ "h" \in letters
        \/ "tail" \notin Eager
           /\ \E p \in refs, m \in mods : m \in Range(p[4]) /\ m[1] \in {"t", "r", "e"} /\ ~m[2]
        \/ "closed" \notin Eager
           /\ \E p \in refs, i \in 1..2 :
                 /\ i \in DOMAIN p[4] /\ p[4][i][1] = "s"
                 /\ p[4][i][5] \/ i # Len(p[4]) \/ p # Last(flat)
        \/ "nothing" \notin Eager
           /\ \E m \in mods : m[1] = "s" /\ m[4] = <<>>
        \/ "again" \notin Eager
           /\ \E m \in mods : m[1] = "s" /\ m[2] /\ Has(m[4], m[3])
        \/ "repeat" \notin Eager /\ "&" \in letters
        \/ "quotes" \notin Eager
           /\ \/ "x" \in letters
              \/ "q" \in letters /\ \E t \in Range(env.hist) : Range(t) \cap {"'", "\\"} # {}
        \/ "quick" \notin Eager
           /\ \E p \in Range(pieces) : p[1] = "quick" /\ (Len(pieces) > 1 \/ env.old # <<>>)
        \/ "inside" \notin Eager
           /\ \E p \in Range(pieces) : p[1] = "dq" /\ Lit(<<"'">>) \in Range(p[2])
        \/ "browsed" \notin Eager
           /\ env.index + 1 < Len(env.hist) /\ \E p \in refs : p[2][1] \in {"starts", "has"}

\* The line is the one its references stand for, or is refused, and nothing but
\* the line changes.
AsReferred(pieces, env, result) ==
    /\ [kind |-> result.kind, line |-> result.line] = Expansion(pieces, env)
    /\ result.var = env.var
=============================================================================
