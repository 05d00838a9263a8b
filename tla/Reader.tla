------------------------------- MODULE Reader -------------------------------
(***************************************************************************)
(* How the lines of a command are put together (cmdline.c): after each     *)
(* line is_incomplete_cmd() decides whether the text so far is a whole     *)
(* command, which read_cmd() then hands to the parser.  A text is a        *)
(* sequence of words and marks; a line ends in a newline.                  *)
(***************************************************************************)
EXTENDS Integers, Sequences, SequencesExt, FiniteSets, FiniteSetsExt, TLC

CONSTANT Offhand   \* what users do that is_incomplete_cmd() gets wrong, see Careless

P == INSTANCE Parser WITH Cramped <- {}   \* for the commands and their tokens

Newline == "\n"
Separators == {Newline, "&", ";", "|", "&&", "||", "|&", ";;", ";&", ";|"}
Quotes == {"'", "\"", "backquote"}

\* What is known of the lines so far; in_heredoc is the number of the here-document
\* that the next line is of, 0 for none.
Fresh == [incomplete |-> <<>>, open_cb |-> 0, open_rb |-> 0, quotes |-> "",
          in_heredoc |-> 0, marks |-> <<>>, handed |-> <<>>]

\* The first place from i on where s has c, or the place after s.
NextPlace(s, i, c) == Min({k \in i..Len(s) : s[k] = c} \cup {Len(s) + 1})
-----------------------------------------------------------------------------
RECURSIVE ClosingBrace(_, _, _)
RECURSIVE ClosingQuote(_, _)
RECURSIVE BraceFrom(_, _, _, _)
RECURSIVE QuoteFrom(_, _, _)

\* The place of the quote that closes the one at i, 0 where a brace stays open in it;
\* the place after s counts as one.
QuoteFrom(s, i, q) ==
    CASE i > Len(s) \/ s[i] = q -> i
      [] q # "'" /\ s[i] = "\\" -> QuoteFrom(s, i + 2, q)
      [] q = "\"" /\ s[i] = "$" /\ i < Len(s) /\ s[i + 1] \in {"{", "("} ->
             IF ClosingBrace(s, i + 1, TRUE) = 0 THEN 0 ELSE QuoteFrom(s, i + 2, q)
      [] OTHER -> QuoteFrom(s, i + 1, q)
ClosingQuote(s, i) == QuoteFrom(s, i + 1, s[i])

\* The place of the brace that closes the one at i, or 0.
BraceFrom(s, i, close, inDouble) ==
    LET end == ClosingQuote(s, i)
        in  == ClosingBrace(s, i, inDouble)
    IN  CASE i > Len(s) -> 0
          [] s[i] = close -> i
          [] s[i] = "\\" -> BraceFrom(s, i + 2, close, inDouble)
          [] s[i] \in Quotes /\ ~(s[i] = "'" /\ inDouble) ->
                 IF end \in DOMAIN s THEN BraceFrom(s, end + 1, close, inDouble) ELSE 0
          [] s[i] \in {"{", "("} ->
                 IF in = 0 THEN 0 ELSE BraceFrom(s, in + 1, close, inDouble)
          [] OTHER -> BraceFrom(s, i + 1, close, inDouble)
ClosingBrace(s, i, inDouble) ==
    BraceFrom(s, i + 1, IF s[i] = "{" THEN "}" ELSE ")", inDouble)

\* The word of a << that ends before i.
MarkEnd(s, i) == Min({k \in i..Len(s) : s[k] \in {" ", Newline, ";", "&"}})

\* The scan of a line for braces, quotes and here-documents.
RECURSIVE Scan(_, _, _)
Scan(r, s, i) ==
    LET on    == Scan(r, s, i + 1)
        quote == ClosingQuote(s, i)
        word  == i + (IF s[i + 1] = " " THEN 2 ELSE 1)
        end   == MarkEnd(s, word)
        mark  == [r EXCEPT !.marks = Append(@, SubSeq(s, word, end - 1)),
                           !.in_heredoc = IF @ = 0 THEN 1 ELSE @]
        open  == IF s[i] = "{" THEN [r EXCEPT !.open_cb = @ + 1] ELSE [r EXCEPT !.open_rb = @ + 1]
    IN  IF i > Len(s) THEN r
        ELSE CASE s[i] \in {"{", "("} /\ r.quotes # "'" ->
                    IF ClosingBrace(s, i, r.quotes = "\"") = 0 THEN open ELSE on
               [] s[i] = "'" /\ r.quotes = "'" -> Scan([r EXCEPT !.quotes = ""], s, i + 1)
               [] s[i] = "'" /\ r.quotes \in {"", "backquote"} ->
                    IF quote > Len(s) THEN [r EXCEPT !.quotes = "'"] ELSE Scan(r, s, quote + 1)
               [] s[i] = "\\" /\ r.quotes # "'" -> Scan(r, s, i + 2)
               [] s[i] \in {"\"", "backquote"} /\ r.quotes = s[i] -> Scan([r EXCEPT !.quotes = ""], s, i + 1)
               [] s[i] \in {"\"", "backquote"} /\ r.quotes \notin {"'", s[i]} ->
                    IF quote = 0 THEN r ELSE Scan([r EXCEPT !.quotes = s[i]], s, i + 1)
               [] s[i] = "<<" /\ r.quotes = "" -> Scan(mark, s, end)
               [] OTHER -> on
-----------------------------------------------------------------------------
Counted == {"do", "done", "if", "fi", "case", "esac", "for", "while"}
NoKeywords == [op |-> TRUE, n |-> [k \in Counted |-> 0]]

\* The keywords of s from i on that are at the beginning of a command.
RECURSIVE CountFrom(_, _, _)
CountFrom(c, s, i) ==
    LET next == IF i = Len(s) THEN Newline ELSE s[i + 1]
        keyword == c.op /\ s[i] \in Counted /\ next \in Separators \cup {" "}
    IN  CASE i > Len(s) -> c
          [] s[i] = " " -> CountFrom(c, s, i + 1)
          [] s[i] \in Separators -> CountFrom([c EXCEPT !.op = TRUE], s, i + 1)
          [] s[i] \in Quotes -> CountFrom([c EXCEPT !.op = FALSE], s, NextPlace(s, i + 1, s[i]) + 1)
          [] OTHER -> CountFrom([op |-> FALSE, n |-> IF keyword THEN [c.n EXCEPT ![s[i]] = @ + 1] ELSE c.n],
                                s, i + 1)

Unbalanced(r, s) ==
    LET n == CountFrom(CountFrom(NoKeywords, r.incomplete, 1), s, 1).n
    IN  \/ n["for"] + n["while"] > 0 /\ (n["do"] = 0 \/ n["done"] = 0)
        \/ n["do"] # n["done"] \/ n["if"] # n["fi"] \/ n["case"] # n["esac"]

\* An odd number of backslashes before the newline.
Continued(s) ==
    LET n == Len(s) - 1
        before == Max({k \in 1..n : s[k] # "\\"} \cup {0})
    IN  (n - before) % 2 = 1

\* is_incomplete_cmd(): the answer and what is known now.  A line of a here-document;
\* a line whose scan left m.
Answer(r, yes) == [yes |-> yes, r |-> r]
InDocument(r, s) ==
    LET more == r.in_heredoc < Len(r.marks)
    IN  IF s # Append(r.marks[r.in_heredoc], Newline) THEN Answer(r, TRUE)
        ELSE Answer([r EXCEPT !.in_heredoc = IF more THEN @ + 1 ELSE 0], more)
Scanned(r, s, m) ==
    Answer(m, m.quotes # "" \/ m.open_cb # 0 \/ m.open_rb # 0 \/ m.in_heredoc # 0
              \/ Unbalanced(r, s))
\* The first line of a command begins anew.
FirstLine(r) ==
    IF r.incomplete # <<>> THEN r
    ELSE [r EXCEPT !.open_cb = 0, !.open_rb = 0, !.quotes = "", !.marks = <<>>]
IsIncomplete(r, s) ==
    IF r.in_heredoc # 0 THEN InDocument(r, s)
    ELSE IF Continued(s) THEN Answer(FirstLine(r), TRUE)
    ELSE Scanned(r, s, Scan(FirstLine(r), s, 1))

\* A line is entered: it is kept, or glued to those that were and handed over.  The
\* mark of a here-document that is not there is compared too.
Glued(whole, answer) ==
    IF answer.yes THEN [answer.r EXCEPT !.incomplete = whole]
    ELSE [answer.r EXCEPT !.incomplete = <<>>, !.in_heredoc = 0, !.marks = <<>>,
                          !.handed = Append(@, whole)]
EnterLine(r, s) ==
    IF r.in_heredoc > Len(r.marks) THEN [r EXCEPT !.handed = Append(@, <<"crash">>)]
    ELSE Glued(r.incomplete \o s, IsIncomplete(r, s))

\* kill_input(), at a signal: the lines so far and the marks go, in_heredoc stays.
KillInput(r) == [r EXCEPT !.incomplete = <<>>, !.marks = <<>>]

RECURSIVE Split(_)
Split(s) ==
    LET i == NextPlace(s, 1, Newline)
    IN  IF s = <<>> THEN <<>> ELSE <<SubSeq(s, 1, i)>> \o Split(SubSeq(s, i + 1, Len(s)))

\* What is handed over of the lines of a text and what is not, where the lines before
\* it were interrupted.
Outcome(r) ==
    IF r.incomplete = <<>> THEN r.handed ELSE Append(r.handed, <<"incomplete">> \o r.incomplete)
Read(before, s) ==
    Outcome(FoldLeft(EnterLine, KillInput(FoldLeft(EnterLine, Fresh, Split(before))), Split(s)))
-----------------------------------------------------------------------------
(* The lines a list is typed in, where w is written for the word "b" of its *)
(* simple commands: the words and marks apart, a newline at the end of each *)
(* line, and the text of a here-document below the line of its operator.    *)

IsB(t, i) == t[i] = "b" /\ i < Len(t) /\ t[i + 1] = "fi"
Document(w) ==
    LET mark(i) == IF w[i + 1] = "'" THEN w[i + 2] ELSE w[i + 1]
    IN  FlattenSeq([i \in DOMAIN w |->
            IF w[i] = "<<" /\ "(" \notin Range(w) THEN <<"a", Newline, mark(i), Newline>> ELSE <<>>])
Spelled(line, w) ==
    FlattenSeq([i \in DOMAIN line |-> (IF IsB(line, i) THEN w ELSE <<line[i]>>) \o <<" ">>])
    \o <<Newline>>
    \o FlattenSeq([i \in DOMAIN line |-> IF IsB(line, i) THEN Document(w) ELSE <<>>])

\* The commands of the list, one text for each that ends a line, and one more.
Typed(list, lines, tight, w) ==
    LET tokens(i) == P!Script(<<list[i]>>, lines, tight /\ i = Len(list))
        Add(typed, i) ==
            LET t    == Last(typed) \o tokens(i)
                text == IF Last(t) = Newline THEN t ELSE Append(t, Newline)
            IN  IF i < Len(list) /\ Last(t) # Newline THEN Append(Front(typed), t)
                ELSE Front(typed) \o <<text, <<>>>>
        spelled(t) ==
            LET ls == Split(t) IN FlattenSeq([k \in DOMAIN ls |-> Spelled(Front(ls[k]), w)])
        typed == Front(FoldLeft(Add, <<<<>>>>, [i \in DOMAIN list |-> i]))
    IN  [i \in DOMAIN typed |-> spelled(typed[i])] \o <<<<"a", Newline>>>>

\* All lines of the first command but its last one.
Begun(typed) ==
    LET ls == Split(typed[1]) IN FlattenSeq(Front(ls))

HasB(list) == \E c \in P!Within(list) : c[1] = "simple" /\ "b" \in Range(c[2])
Blocks == {"if", "while", "for", "case"}
Begins(list) == list # <<>> /\ Head(list)[1][1] \in Blocks \cup {"!"}
Ends(list) == list # <<>> /\ ~Last(list)[2] /\ P!EndsInKeyword(Last(list)[1])

\* What users are assumed not to type.
Careless(list, lines, tight, w, interrupted) ==
    LET all    == P!Within(list)
        kinds  == {c[1] : c \in all}
        bodies == UNION {P!ListsOf(c) : c \in all}
        newline == Newline \in Range(w)
        braces  == {"{", "("} \cap Range(w) # {}
        escaped(chars) == \E i \in 1..(Len(w) - 1) : w[i] = "\\" /\ w[i + 1] \in chars
        inBody == \E l \in bodies : HasB(l)
        habits ==
            \* a brace or a parenthesis that is closed on another line
            (IF \/ kinds \cap {"{", "("} # {} /\ (lines \/ newline)
                \/ HasB(list) /\ newline /\ braces THEN {"braces"} ELSE {})
            \* a line that ends in an operator or before the body of a function
            \cup (IF lines /\ kinds \cap {"&&", "||", "|", "function"} # {} THEN {"operator"} ELSE {})
            \* a keyword behind another keyword, a brace or a pattern of its line
            \cup (IF \/ ~lines /\ \E l \in bodies : Begins(l)
                     \/ tight /\ \E l \in bodies : Ends(l)
                     \/ \E c \in all : c[1] = "!" /\ c[2][1] \in Blocks
                     \/ ~lines /\ tight /\ \E c \in all : c[1] = "case" /\ Last(c[2])[2] = <<>>
                  THEN {"keyword"} ELSE {})
            \* in a compound command, a newline in quotes or a quote behind a backslash
            \cup (IF inBody /\ ((newline /\ ~escaped({Newline})) \/ escaped(Quotes)) THEN {"quote"} ELSE {})
            \* in double quotes, a command in backquotes or an escaped newline
            \cup (IF HasB(list) /\ "\"" \in Range(w)
                     /\ ("backquote" \in Range(w) \/ escaped({Newline})) THEN {"nested"} ELSE {})
            \* a here-document in a compound command, or with its mark in quotes, or a
            \* << that is none
            \cup (IF HasB(list) /\ "<<" \in Range(w) /\ (inBody \/ braces \/ "'" \in Range(w))
                  THEN {"mark"} ELSE {})
            \* an interrupt in a here-document
            \cup (IF HasB(list) /\ "<<" \in Range(w) /\ interrupted THEN {"interrupt"} ELSE {})
    IN  ~(habits \subseteq Offhand)

\* Every command is handed over when its last line is entered, and in one piece.
HandedWhole(list, lines, tight, w, handed) == handed = Typed(list, lines, tight, w)
=============================================================================
