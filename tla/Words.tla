------------------------------- MODULE Words -------------------------------
(***************************************************************************)
(* Word expansion (wordexp.c, strings.c): braces, parameters, field        *)
(* splitting and quote removal, each a pass over the text the pass before  *)
(* has left, in which quotes are told from quoted characters by backslash. *)
(* A text is a sequence of characters and of references to parameters.     *)
(***************************************************************************)
EXTENDS Braces

CONSTANT
    Loose   \* what words do that the expansion gets wrong:
            \*   "apostrophe"  have ' in an expanded value or in double quotes
            \*                 together with an expansion
            \*   "literalIFS"  have a separator outside quotes and expansions
            \*   "vanishing"   have nothing in them but empty expansions
            \*   "noValue"     use ${v:+w} when v is empty
            \*   "clause"      have quotes or \ in the result of ${v:-w} or ${v:+w}
            \*   "arguments"   have "$@" or "$*" with something after it, or with
            \*                 quotes in an argument or without a blank in IFS
            \*   "escapedQuote" have a quote after \ and a brace
            \*   "oneItem"     have braces around one item
            \*   "emptyItem"   have braces around an empty item

\* The references, each a variable, an operator and the text it is applied to.
Clause ==
       "$x" :> <<"x", "", <<>>>>
    @@ "$@" :> <<"@", "", <<>>>>
    @@ "$*" :> <<"*", "", <<>>>>
    @@ "${y-}" :> <<"y", ":-", <<"b", " ", "c">>>>
    @@ "${y-q}" :> <<"y", ":-", <<"\"", "b", " ", "$x", "\"">>>>
    @@ "${y=}" :> <<"y", ":=", <<"b", "$x">>>>
    @@ "${x+}" :> <<"x", ":+", <<"c", "$x">>>>
Params == DOMAIN Clause
Lists  == {"$@", "$*"}

First(s) == IF s = <<>> THEN s ELSE <<s[1]>>

\* The variables, the arguments and IFS.  y is never set but by an expansion.
Env(x, args, ifs) == [x |-> x, y |-> <<>>, args |-> args, ifs |-> ifs]
-----------------------------------------------------------------------------
(* Words as they are meant: sequences of parts, each literal, quoted, a     *)
(* reference or braces around words or a range.                             *)

Lit(c)   == <<"lit", c>>
Esc(c)   == <<"esc", c>>
Sq(s)    == <<"sq", s>>
Dq(s)    == <<"dq", s>>
Par(p)   == <<"par", p>>
Each(ws) == <<"braces", ws>>
FromTo(x, y, z) == <<"range", x, y, z>>

RECURSIVE Text(_)
Text(word) ==
    LET text(part) ==
            CASE part[1] \in {"lit", "par"} -> <<part[2]>>
              [] part[1] = "esc" -> <<"\\", part[2]>>
              [] part[1] = "sq"  -> <<"'">> \o part[2] \o <<"'">>
              [] part[1] = "dq"  -> <<"\"">> \o part[2] \o <<"\"">>
              [] part[1] = "braces" ->
                   <<"{">> \o FoldLeft(LAMBDA t, w : t \o <<",">> \o Text(w),
                                       Text(part[2][1]), Tail(part[2])) \o <<"}">>
              [] part[1] = "range" ->
                   <<"{", part[2], ".", ".", part[3]>>
                   \o (IF part[4] = "" THEN <<>> ELSE <<".", ".", part[4]>>) \o <<"}">>
    IN  FlattenSeq([i \in DOMAIN word |-> text(word[i])])

RECURSIVE Alternatives(_)
\* The words without braces that a word stands for.
Alternatives(word) ==
    LET part == Head(word)
        spelled(l) == [i \in DOMAIN l |-> <<Lit(l[i][1])>>]
        items == CASE part[1] = "braces" /\ Len(part[2]) = 1 ->
                        LET in == Alternatives(part[2][1])
                        IN  [i \in DOMAIN in |-> <<Lit("{")>> \o in[i] \o <<Lit("}")>>]
                   [] part[1] = "braces" ->
                        FlattenSeq([i \in DOMAIN part[2] |-> Alternatives(part[2][i])])
                   [] part[1] = "range" ->
                        spelled(Listed(<<part[2]>>, <<part[3]>>,
                                       IF part[4] = "" THEN Failed ELSE <<part[4]>>))
                   [] OTHER -> <<<<part>>>>
        rest  == Alternatives(Tail(word))
    IN  IF word = <<>> THEN <<<<>>>>
        ELSE FlattenSeq([i \in DOMAIN items |-> [j \in DOMAIN rest |-> items[i] \o rest[j]]])

\* Characters as the expansions leave them: quoted, literal or expanded.  ""
\* marks quotes, and the end of an argument of "$@" or of an unquoted $@ or $*.
Mark(s, kind) == [i \in DOMAIN s |-> <<s[i], kind>>]
Joined(args, sep) == FoldLeft(LAMBDA t, a : t \o sep \o a, Head(args), Tail(args))
Marked(args, kind) ==
    Joined([i \in DOMAIN args |-> Mark(args[i], kind)],
           IF kind = "quoted" THEN <<<<"", "end">>, <<"", kind>>>> ELSE <<<<"", "end">>>>)

RECURSIVE Expanded(_, _, _)
\* The characters a text expands to inside double quotes or outside, and the
\* variables after it.
Expanded(text, quoted, env) ==
    LET kind == IF quoted THEN "quoted" ELSE "expanded"
        c    == Head(text)
        v    == Clause[c][1]
        op   == Clause[c][2]
        w    == Expanded(Clause[c][3], quoted, env)
        plain(s) == [s |-> Mark(s, kind), env |-> env]
        first ==
            IF c \notin Params THEN plain(<<c>>)
            ELSE IF c = "$*" /\ quoted THEN plain(Joined(env.args, First(env.ifs)))
            ELSE IF c \in Lists THEN [s |-> Marked(env.args, kind), env |-> env]
            ELSE IF op = "" \/ (op # ":+" /\ env[v] # <<>>) THEN plain(env[v])
            ELSE IF op = ":+" /\ env[v] = <<>> THEN plain(<<>>)
            ELSE IF op = ":=" THEN [w EXCEPT !.env[v] = [i \in DOMAIN w.s |-> w.s[i][1]]]
            ELSE w
        rest == Expanded(Tail(text), quoted, first.env)
    IN  IF text = <<>> THEN [s |-> <<>>, env |-> env]
        ELSE IF c = "\"" THEN Expanded(Tail(text), quoted, env)
        ELSE [s |-> first.s \o rest.s, env |-> rest.env]

Meaning(r, part) ==
    LET e == Expanded(part[2], TRUE, r.env)
        p == Expanded(<<part[2]>>, FALSE, r.env)
        quotes == <<<<"", "quoted">>>>
    IN  CASE part[1] = "lit" -> [r EXCEPT !.s = Append(@, <<part[2], "literal">>)]
          [] part[1] = "esc" -> [r EXCEPT !.s = Append(@, <<part[2], "quoted">>)]
          [] part[1] = "sq"  -> [r EXCEPT !.s = @ \o quotes \o Mark(part[2], "quoted")]
          [] part[1] = "dq"  -> [s |-> r.s \o quotes \o e.s, env |-> e.env]
          [] part[1] = "par" -> [s |-> r.s \o p.s, env |-> p.env]

\* Only what an expansion made is split.  A field that is open is not empty; a
\* blank that closed one may be followed by another separator.
Split(marks, ifs) ==
    LET step(f, m) ==
            LET close == [done |-> Append(f.done, f.cur), cur |-> <<>>, open |-> FALSE]
            IN  IF m[2] = "end" THEN IF f.open THEN close @@ [blank |-> TRUE] ELSE f
                ELSE IF m[2] # "expanded" \/ m[1] \notin Range(ifs) THEN
                     [f EXCEPT !.cur = IF m[1] = "" THEN @ ELSE Append(@, m[1]),
                               !.open = TRUE, !.blank = FALSE]
                ELSE IF m[1] = " " THEN IF f.open THEN close @@ [blank |-> TRUE] ELSE f
                ELSE IF f.open \/ ~f.blank THEN close @@ [blank |-> FALSE]
                ELSE [f EXCEPT !.blank = FALSE]
        all == FoldLeft(step, [done |-> <<>>, cur |-> <<>>, open |-> FALSE, blank |-> FALSE],
                        marks)
    IN  IF all.open THEN Append(all.done, all.cur) ELSE all.done

\* The fields of a word, and the variables after its expansion.
Fields(word, env) ==
    LET split(done, m) == [fields |-> done \o Split(m.s, m.env.ifs), env |-> m.env]
        step(r, w) == split(r.fields, FoldLeft(Meaning, [s |-> <<>>, env |-> r.env], w))
    IN  FoldLeft(step, [fields |-> <<>>, env |-> env], Alternatives(word))
-----------------------------------------------------------------------------
(* What word_expand() does. *)

\* quote_val(): what an expansion made goes into the text with backslashes.
QuoteValBare(s) == s
QuoteVal(s) == FlattenSeq([i \in DOMAIN s |-> IF s[i] \in {"\\", "\""} THEN <<"\\", s[i]>> ELSE <<s[i]>>])

\* The expansion of one text in progress: i is the character to be read.
Reading(text, env) ==
    [text |-> text, i |-> 1, dq |-> FALSE, expanded |-> FALSE, env |-> env, failed |-> FALSE]

\* What s has at i up to j is replaced.
Replaced(s, i, j, by) == SubSeq(s, 1, i - 1) \o by \o SubSeq(s, j + 1, Len(s))

\* "$@" and "$*" with nothing after them: the arguments go in as they are.
ListAlone(r) ==
    /\ r.i + 2 = Len(r.text)
    /\ r.text[r.i + 1] \in Lists /\ r.text[r.i + 2] = "\""
PosParams(p, quoted, env) ==
    LET sep == IF p = "$@" /\ quoted THEN <<"\"", " ", "\"">>
               ELSE IF quoted /\ env.ifs # <<>> THEN First(env.ifs) ELSE <<" ">>
    IN  Joined(env.args, sep)

\* substitute_word(): the reference that is read is replaced by s.
Substitute(r, s, env) ==
    [r EXCEPT !.text = Replaced(@, r.i, r.i, QuoteVal(s)), !.env = env,
              !.i = @ + Len(QuoteVal(s)), !.expanded = TRUE]

RECURSIVE Scan(_)
\* var_expand(): the value of a variable, or the text the operator is applied to.
VarExpand(r) ==
    LET c   == r.text[r.i]
        v   == Clause[c][1]
        op  == Clause[c][2]
        w   == Scan(Reading(Clause[c][3], r.env))
        set == r.env[v] # <<>>
    IN  IF op = ":+" /\ ~set THEN [r EXCEPT !.failed = TRUE]
        ELSE IF op = "" \/ (op # ":+" /\ set) THEN Substitute(r, r.env[v], r.env)
        ELSE Substitute(r, w.text, IF op = ":=" THEN [w.env EXCEPT ![v] = w.text] ELSE w.env)

Scan(r) ==
    LET c    == r.text[r.i]
        args == PosParams(r.text[r.i + 1], TRUE, r.env)
        on(k) == [r EXCEPT !.i = @ + k]
    IN  IF r.i > Len(r.text) \/ r.failed THEN r
        ELSE IF c = "\"" /\ ListAlone(r) THEN
             [r EXCEPT !.text = Replaced(@, r.i + 1, r.i + 1, args), !.expanded = TRUE]
        ELSE IF c = "\"" THEN Scan([on(1) EXCEPT !.dq = ~@])
        ELSE IF c = "\\" THEN Scan(on(2))
        ELSE IF c = "'" /\ ~r.dq THEN Scan([r EXCEPT !.i = NextPlace(r.text, @ + 1, "'") + 1])
        ELSE IF c = " " /\ ~r.dq THEN Scan([on(1) EXCEPT !.expanded = TRUE])
        ELSE IF c \notin Params THEN Scan(on(1))
        ELSE IF c \in Lists THEN Scan(Substitute(r, PosParams(c, FALSE, r.env), r.env))
        ELSE Scan(VarExpand(r))

Skip(t, i, chars) ==
    LET stop == {k \in i..Len(t) : t[k] \notin chars}
    IN  IF stop = {} THEN Len(t) + 1 ELSE CHOOSE k \in stop : \A l \in stop : k <= l
\* skip_IFS_delim(): blanks, one separator that is not, and blanks.
SkipDelim(t, i, spaces, delims) ==
    LET a == Skip(t, i, spaces)
        b == IF a <= Len(t) /\ t[a] \in delims THEN a + 1 ELSE a
    IN  Skip(t, b, spaces)

RECURSIVE FieldsFrom(_, _, _, _, _, _)
\* The fields of t from the one that begins at j, read from i on.
FieldsFrom(t, j, i, quote, ifs, done) ==
    LET spaces == Range(ifs) \cap {" "}
        delims == Range(ifs) \ {" "}
        c    == IF i > Len(t) THEN "" ELSE t[i]
        on(k, q) == FieldsFrom(t, j, k, q, ifs, done)
        next == SkipDelim(t, i, spaces, delims)
    IN  IF i > Len(t) + 1 THEN done
        ELSE IF c = "\\" THEN on(i + 2, quote)
        ELSE IF c = "'" THEN on(NextPlace(t, i + 1, "'") + 1, quote)
        ELSE IF c = "\"" THEN on(i + 1, ~quote)
        ELSE IF quote \/ c \notin Range(ifs) \cup {""} THEN on(i + 1, quote)
        ELSE FieldsFrom(t, next, IF next # i /\ next <= Len(t) THEN next ELSE next + 1,
                        quote, ifs, Append(done, SubSeq(t, j, i - 1)))
\* field_split(): no field at all when there are no separators or when the
\* text ends in quotes.
FieldSplit(t, ifs) ==
    LET from == Skip(t, 1, Range(ifs) \cap {" "})
    IN  IF ifs = <<>> THEN <<>>
        ELSE FieldsFrom(SubSeq(t, from, Len(t)), 1, 1, FALSE, ifs, <<>>)

RECURSIVE Unquoted(_, _, _)
\* remove_quotes(): one field, from i on, and whether it ends in double quotes.
Unquoted(t, i, dq) ==
    LET c    == t[i]
        cut(k, d, n) == Unquoted(Replaced(t, k, k, <<>>), n, d)
        close == NextPlace(t, i + 1, "'")
    IN  IF i > Len(t) THEN [s |-> t, dq |-> dq]
        ELSE IF c = "\"" THEN cut(i, ~dq, i)
        ELSE IF c = "'" /\ ~dq THEN Unquoted(Replaced(Replaced(t, close, close, <<>>), i, i, <<>>), close - 1, dq)
        ELSE IF c = "\\" /\ (~dq \/ (i < Len(t) /\ t[i + 1] \in {"\\", "\""}))
             THEN cut(i, dq, i + 1)
        ELSE Unquoted(t, i + 1, dq)
RemoveQuotes(fields) ==
    LET step(r, f) == LET u == Unquoted(f, 1, r.dq) IN [done |-> Append(r.done, u.s), dq |-> u.dq]
    IN  FoldLeft(step, [done |-> <<>>, dq |-> FALSE], fields).done

\* The fields of a text whose braces are expanded: none if it fails.
Finished(r) ==
    LET f == IF r.expanded THEN FieldSplit(r.text, r.env.ifs) ELSE <<>>
    IN  [env |-> r.env, fields |-> IF r.failed THEN <<>> ELSE IF f = <<>> THEN <<r.text>> ELSE f]
OneWord(t, env) == Finished(Scan(Reading(t, env)))

WordExpand(word, env) ==
    LET with(r, w) == [fields |-> r.fields \o w.fields, env |-> w.env]
        step(r, t) == with(r, OneWord(t, r.env))
        all == FoldLeft(step, [fields |-> <<>>, env |-> env], BraceExpand(Text(word)))
    IN  [all EXCEPT !.fields = RemoveQuotes(@)]

-----------------------------------------------------------------------------
RECURSIVE PartsOf(_)
\* The parts of a word and of the words in its braces.
PartsOf(word) ==
    Range(word) \cup UNION {UNION {PartsOf(w) : w \in Range(p[2])} :
                              p \in {q \in Range(word) : q[1] = "braces"}}

\* What users are assumed not to write.
Careless(word, env) ==
    LET parts  == PartsOf(word)
        dqs    == {p \in parts : p[1] = "dq"}
        pars   == {p[2] : p \in {q \in parts : q[1] = "par"}}
        used   == pars \cup (Params \cap UNION {Range(p[2]) : p \in dqs})
        values == UNION {Range(s) : s \in {env.x} \cup Range(env.args)}
        items  == UNION {Range(p[2]) : p \in {q \in parts : q[1] = "braces"}}
        alone(p) == Len(p[2]) = 1 /\ p = Last(word) /\ p \notin Range(Front(word)) /\ values \cap {"\"", "\\", "'"} = {}
    IN  \/ "apostrophe" \notin Loose /\ used # {}
           /\ "'" \in values \cup UNION {Range(p[2]) : p \in dqs}
        \/ "literalIFS" \notin Loose /\ used # {}
           /\ \E p \in parts : p[1] = "lit" /\ p[2] \in Range(env.ifs)
        \/ "vanishing" \notin Loose
           /\ \E w \in Range(Alternatives(word)) : Fields(w, env).fields = <<>>
        \/ "noValue" \notin Loose /\ "${x+}" \in used /\ env.x = <<>>
        \/ "clause" \notin Loose
           /\ \/ "${y-q}" \in used
              \/ {"${y=}", "${x+}"} \cap used # {} /\ values \cap {"\"", "\\"} # {}
        \/ "arguments" \notin Loose
           /\ \/ \E p \in dqs : Range(p[2]) \cap Lists # {} /\ ~alone(p)
              \/ used \cap Lists # {} /\ " " \notin Range(env.ifs)
        \/ "escapedQuote" \notin Loose
           /\ {Esc("'"), Esc("\"")} \cap parts # {} /\ "{" \in Range(Text(word))
        \/ "oneItem" \notin Loose /\ \E p \in parts : p[1] = "braces" /\ Len(p[2]) = 1
        \/ "emptyItem" \notin Loose /\ <<>> \in items

\* The word has the fields it is meant to have, and its expansion the effects.
AsMeant(word, env, result) == result = Fields(word, env)
=============================================================================
