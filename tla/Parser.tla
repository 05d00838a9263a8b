------------------------------ MODULE Parser ------------------------------
(***************************************************************************)
(* The parser (parser.c, conditionals.c, loops.c): one function for each   *)
(* construct of the grammar, which asks tokenize() for the next token and  *)
(* may look at the current token and the one before it, and the trees it   *)
(* makes as the functions of backend.c read them.                          *)
(***************************************************************************)
EXTENDS Integers, Sequences, SequencesExt, FiniteSets, TLC

CONSTANT
    Cramped   \* what scripts do that the parser gets wrong:
              \*   "lastAnd"   end the list of a compound command in &
              \*   "group"     have braces alone or last in a list
              \*   "fiFi"      put nothing between the fi of an elif and another fi
              \*   "keywords"  have a keyword or an assignment in the list of a for
              \*   "lastFall"  end the last item of a case in ;|
              \*   "both"      pipe both streams of a compound command

\* A list is a sequence of commands, each in the background or not.
Fg(c) == <<c, FALSE>>
Bg(c) == <<c, TRUE>>

Simple(words)  == <<"simple", words>>
Bang(c)        == <<"!", c>>
Join(op, c, d) == <<op, c, d>>
Pipe(cs)       == <<"|", cs>>
Group(l)       == <<"{", l>>
Subshell(l)    == <<"(", l>>
If(l, m, n)    == <<"if", l, m, n>>
While(l, m)    == <<"while", l, m>>
For(words, l)  == <<"for", words, l>>
Case(items)    == <<"case", items>>
Function(c)    == <<"function", c>>

\* The command with both its streams in the pipe, if it is not the last one.
Both(c) == IF c[1] = "simple" THEN Simple(Append(c[2], "2>&1")) ELSE <<"both", c>>
IsBoth(c) == c[1] = "both" \/ (c[1] = "simple" /\ Last(c[2]) = "2>&1")

Keywords == {"if", "then", "elif", "else", "fi", "while", "for", "in", "do", "done",
             "case", "esac", "{", "}", "!", "function"}
Falls == {";;", ";&", ";|"}
Seps  == {"(", ")", "|", "|&", "&", "\n", ";", "&&", "||", "EOF"} \cup Falls
None  == <<>>
-----------------------------------------------------------------------------
(* The tokens of a list, with newlines wherever they may be or in one line, *)
(* and with a ; before a keyword or only where one must be.                 *)

EndsInKeyword(c) == c[1] \in {"{", "(", "if", "while", "for", "case"}
Barred(words) == FoldLeft(LAMBDA t, w : t \o <<"|", w>>, <<Head(words)>>, Tail(words))

RECURSIVE Tokens(_, _, _)
Script(list, lines, tight) ==
    LET end == IF lines THEN "\n" ELSE ";"
        after(i) == IF list[i][2] THEN <<"&">>
                    ELSE IF tight /\ i = Len(list) /\ EndsInKeyword(list[i][1]) THEN <<>>
                    ELSE <<end>>
    IN  FlattenSeq([i \in DOMAIN list |-> Tokens(list[i][1], lines, tight) \o after(i)])

\* A list that is one if is written with elif where the text is tight.
IsElif(list, tight) == tight /\ Len(list) = 1 /\ ~list[1][2] /\ list[1][1][1] = "if"
RECURSIVE Branches(_, _, _, _)
Branches(c, word, lines, tight) ==
    LET nl == IF lines THEN <<"\n">> ELSE <<>>
        of(l) == nl \o Script(l, lines, tight)
    IN  <<word>> \o of(c[2]) \o <<"then">> \o of(c[3])
        \o (IF c[4] = <<>> THEN <<>>
            ELSE IF IsElif(c[4], tight) THEN Branches(c[4][1][1], "elif", lines, tight)
            ELSE <<"else">> \o of(c[4]))

Tokens(c, lines, tight) ==
    LET nl      == IF lines THEN <<"\n">> ELSE <<>>
        end     == IF lines THEN <<"\n">> ELSE <<";">>
        of(l)   == nl \o Script(l, lines, tight)
        text(d) == Tokens(d, lines, tight)
        piped(d) == (IF d[1] = "both" THEN text(d[2]) \o <<"|&">>
                     ELSE IF IsBoth(d) THEN Front(d[2]) \o <<"|&">>
                     ELSE text(d) \o <<"|">>) \o nl
        fall(k) == IF tight /\ k = Len(c[2]) /\ c[2][k][3] = ";;" THEN <<>> ELSE <<c[2][k][3]>> \o nl
        item(k) == <<"(">> \o Barred(c[2][k][1]) \o <<")">> \o of(c[2][k][2]) \o fall(k)
    IN  CASE c[1] = "simple"   -> c[2]
          [] c[1] = "!"        -> <<"!">> \o text(c[2])
          [] c[1] \in {"&&", "||"} -> text(c[2]) \o <<c[1]>> \o nl \o text(c[3])
          [] c[1] = "|"        -> FlattenSeq([k \in DOMAIN Front(c[2]) |-> piped(c[2][k])])
                                  \o text(Last(c[2]))
          [] c[1] = "{"        -> <<"{">> \o of(c[2]) \o <<"}">>
          [] c[1] = "("        -> <<"(">> \o of(c[2]) \o <<")">>
          [] c[1] = "if"       -> Branches(c, "if", lines, tight) \o <<"fi">>
          [] c[1] = "while"    -> <<"while">> \o of(c[2]) \o <<"do">> \o of(c[3]) \o <<"done">>
          [] c[1] = "for"      -> <<"for", "x">> \o nl \o <<"in">> \o c[2] \o end
                                  \o <<"do">> \o of(c[3]) \o <<"done">>
          [] c[1] = "case"     -> <<"case", "x", "in">> \o nl
                                  \o FlattenSeq([k \in DOMAIN c[2] |-> item(k)]) \o <<"esac">>
          [] c[1] = "function" -> <<"f", "(", ")">> \o nl \o text(c[2])
-----------------------------------------------------------------------------
(* What the parser makes of the tokens.  A node has a type, a value and     *)
(* children; cur_tok is t[i].                                               *)

Node(type, val, kids) == <<type, val, kids>>
Start(t) == [t |-> t, i |-> 1, prev |-> "", err |-> FALSE]
Tok(s)  == IF s.i > Len(s.t) THEN "EOF" ELSE s.t[s.i]
Skip(s) == [s EXCEPT !.i = @ + 1, !.prev = Tok(s)]
RECURSIVE SkipNewlines(_)
SkipNewlines(s) == IF Tok(s) = "\n" THEN SkipNewlines(Skip(s)) ELSE s
SkipSeparators(s) == SkipNewlines(IF Tok(s) \in {"&", ";"} THEN Skip(s) ELSE s)

\* What a function returns: a node, or None, and the tokens that are left.
Made(node, s) == [node |-> node, s |-> s]
NoNode(s) == Made(None, s)
\* PARSER_RAISE_ERROR(), after which nothing that was parsed is run.
Raise(s) == NoNode([s EXCEPT !.err = TRUE])
\* The node if the token is there that must come next.
Closed(node, s, word) == IF Tok(s) = word THEN Made(node, Skip(s)) ELSE Raise(s)
Optional(r) == IF r.node = None THEN <<>> ELSE <<r.node>>

RECURSIVE ParseCommand(_)
RECURSIVE PipeRest(_, _)
\* parse_pipeline(): the commands so far, the last one first; r is the next one.
PipeWith(kids, r) ==
    LET op   == Tok(r.s)
        next == SkipNewlines(Skip(r.s))
        io   == IF op = "|&" THEN <<Node("IO", "2>&1", <<>>)>> ELSE <<>>
        node == Node(r.node[1], r.node[2], r.node[3] \o io)
    IN  IF r.node = None THEN Made(IF kids = <<>> THEN None ELSE Node("PIPE", "", kids), r.s)
        ELSE IF op \in {"|", "|&"} THEN
             IF Tok(next) = "EOF" THEN Raise(next) ELSE PipeRest(<<node>> \o kids, next)
        ELSE IF kids = <<>> THEN r
        ELSE Made(Node("PIPE", "", <<r.node>> \o kids), r.s)
PipeRest(kids, s) == PipeWith(kids, ParseCommand(s))
Negated(r, bang) ==
    IF r.node = None \/ ~bang THEN r ELSE Made(Node("BANG", "", <<r.node>>), r.s)
ParsePipeline(s) ==
    Negated(PipeRest(<<>>, IF Tok(s) = "!" THEN Skip(s) ELSE s), Tok(s) = "!")

RECURSIVE AndOrRest(_, _, _)
\* parse_and_or(): the pipelines so far, the operator after the last one and the next.
AndOrWith(kids, op, r) ==
    LET node == IF kids = <<>> THEN r.node
                ELSE Node(IF op = "&&" THEN "AND_IF" ELSE "OR_IF", "", <<r.node>>)
        next == SkipNewlines(Skip(r.s))
    IN  IF r.node = None THEN Made(IF kids = <<>> THEN None ELSE Node("ANDOR", "", kids), r.s)
        ELSE IF Tok(r.s) \in {"&&", "||"} THEN
             IF Tok(next) = "EOF" THEN Raise(next)
             ELSE AndOrRest(Append(kids, node), Tok(r.s), next)
        ELSE IF kids = <<>> THEN r
        ELSE Made(Node("ANDOR", "", Append(kids, node)), r.s)
AndOrRest(kids, op, s) == AndOrWith(kids, op, ParsePipeline(s))
ParseAndOr(s) == AndOrRest(<<>>, "", s)

\* A mutation: the last command of a list makes a term, too.
TermAlways(r, stop) ==
    LET next == SkipNewlines(Skip(r.s))
    IN  IF r.node = None \/ Tok(r.s) \notin {"&", ";", "\n"} THEN r
        ELSE Made(Node("TERM", ";", <<r.node>>), next)
\* parse_term(): no term, and so no &, where the list ends.
Term(r, stop) ==
    LET op   == Tok(r.s)
        next == SkipNewlines(Skip(r.s))
    IN  IF r.node = None \/ op \notin {"&", ";", "\n"} THEN r
        ELSE IF Tok(next) \in stop \cup {"EOF"} THEN Made(r.node, next)
        ELSE Made(Node("TERM", IF op = "&" THEN "&" ELSE ";", <<r.node>>), next)
ParseTerm(s, stop) == Term(ParseAndOr(s), stop)

RECURSIVE CompoundRest(_, _, _)
\* parse_compound_list(): the terms up to a token that ends the list; r is the next one.
CompoundWith(kids, r, stop) ==
    LET all  == Append(kids, r.node)
        next == SkipSeparators(r.s)
    IN  IF r.node = None THEN
             Made(IF r.s.prev \in stop /\ kids # <<>> THEN Node("LIST", "", kids) ELSE None, r.s)
        ELSE IF Tok(next) = "EOF" THEN Made(Node("LIST", "", all), next)
        ELSE CompoundRest(all, next, stop)
CompoundRest(kids, s, stop) ==
    IF Tok(s) \in stop THEN Made(Node("LIST", "", kids), s)
    ELSE CompoundWith(kids, ParseTerm(s, stop), stop)
ParseCompoundList(s, stop) ==
    LET from == SkipNewlines(s)
    IN  IF Tok(from) = "EOF" THEN NoNode(from) ELSE CompoundRest(<<>>, from, stop)

Subshelled(r) == Closed(Node("SUBSHELL", "", Optional(r)), r.s, ")")
ParseSubshell(s) == Subshelled(ParseCompoundList(Skip(s), {")"}))
Done(r) == Closed(r.node, r.s, "done")
ParseDoGroup(s) ==
    IF Tok(s) # "do" THEN Raise(s) ELSE Done(ParseCompoundList(Skip(s), {"done"}))
\* The } may have been taken already, by a function in the list.
Braced(r) ==
    IF Tok(r.s) # "}" /\ r.s.prev # "}" THEN Raise(r.s)
    ELSE Made(r.node, IF Tok(r.s) = "}" THEN Skip(r.s) ELSE r.s)
ParseBraceGroup(s) == Braced(ParseCompoundList(Skip(s), {"}"}))

\* A loop, once its body is parsed.
Loop(type, val, before, body) == Made(Node(type, val, before \o Optional(body)), body.s)
WhileTested(test) ==
    IF test.node = None THEN Raise(test.s)
    ELSE Loop("WHILE", "", <<test.node>>, ParseDoGroup(test.s))
ParseWhileLoop(s) == WhileTested(ParseCompoundList(Skip(s), {"do"}))

RECURSIVE WordList(_)
\* get_wordlist(): the place of the first token that is no word.
WordList(s) ==
    IF Tok(s) \in Seps \cup Keywords \cup {"y=1"} THEN s ELSE WordList(Skip(s))
ParseForLoop(s) ==
    LET name == SkipNewlines(Skip(Skip(s)))
        end  == WordList(Skip(name))
        from == IF Tok(name) # "in" THEN name
                ELSE SkipNewlines(IF Tok(end) = ";" THEN Skip(end) ELSE end)
    IN  Loop("FOR", SubSeq(s.t, name.i + 1, end.i - 1), <<>>, ParseDoGroup(from))

RECURSIVE ParseIfClause(_)
IfEnded(test, then, else) ==
    LET node == Node("IF", "", Optional(test) \o <<then.node>> \o Optional(else))
    IN  IF Tok(else.s) = "fi" THEN Made(node, Skip(else.s))
        ELSE IF else.s.prev = "fi" THEN Made(node, else.s)
        ELSE Raise(else.s)
\* An elif is an if in the place of the else, which takes the fi of both.
ParseElse(s) ==
    CASE Tok(s) = "elif" -> ParseIfClause(s)
      [] Tok(s) = "else" -> ParseCompoundList(Skip(s), {"fi"})
      [] OTHER           -> NoNode(s)
IfThen(test, then) ==
    IF then.node = None \/ then.node[3] = <<>> THEN Raise(then.s)
    ELSE IfEnded(test, then, ParseElse(then.s))
IfTested(test) ==
    IF Tok(test.s) # "then" THEN Raise(test.s)
    ELSE IfThen(test, ParseCompoundList(Skip(test.s), {"elif", "else", "fi"}))
ParseIfClause(s) == IfTested(ParseCompoundList(Skip(s), {"then"}))

RECURSIVE PatternsEnd(_)
PatternsEnd(s) == IF Tok(s) \in {"EOF", ")"} THEN s ELSE PatternsEnd(Skip(s))
RECURSIVE SkipFalls(_)
SkipFalls(s) == IF Tok(s) \in {";;", ";&"} THEN SkipFalls(Skip(s)) ELSE s
RECURSIVE CaseItems(_, _)
\* parse_case_item() for each item: a ;| is left to be a pattern of the next.
CaseItem(items, pats, list) ==
    LET val  == IF Tok(list.s) = ";&" THEN "&" ELSE IF Tok(list.s) = ";|" THEN ";" ELSE ""
        item == Node("CASE_ITEM", <<pats, val>>, Optional(list))
    IN  CaseItems(Append(items, item), SkipNewlines(SkipFalls(list.s)))
CaseList(s) ==
    IF Tok(s) \in Falls \cup {"esac"} THEN NoNode(s)
    ELSE ParseCompoundList(s, Falls \cup {"esac"})
CaseItems(items, s) ==
    LET from == IF Tok(s) = "(" THEN Skip(s) ELSE s
        end  == PatternsEnd(from)
        pats == SelectSeq(SubSeq(s.t, from.i, end.i - 1), LAMBDA w : w # "|")
    IN  IF Tok(s) \in {"EOF", "esac"} THEN Made(Node("CASE", "", items), s)
        ELSE CaseItem(items, pats, CaseList(SkipNewlines(Skip(end))))
CaseEnded(r) == Closed(r.node, r.s, "esac")
ParseCaseClause(s) ==
    LET in == SkipNewlines(Skip(Skip(s)))
    IN  IF Tok(in) # "in" THEN Raise(in) ELSE CaseEnded(CaseItems(<<>>, SkipNewlines(Skip(in))))

ParseCompoundCommand(s) ==
    CASE Tok(s) = "{"     -> ParseBraceGroup(s)
      [] Tok(s) = "("     -> ParseSubshell(s)
      [] Tok(s) = "for"   -> ParseForLoop(s)
      [] Tok(s) = "case"  -> ParseCaseClause(s)
      [] Tok(s) = "if"    -> ParseIfClause(s)
      [] Tok(s) = "while" -> ParseWhileLoop(s)
      [] OTHER            -> NoNode(s)

FunctionWith(name, body) ==
    IF body.node = None THEN Raise(body.s)
    ELSE Made(Node("FUNCTION", name, <<body.node>>), body.s)
ParseFunctionDefinition(s) ==
    LET paren == Skip(s)
    IN  IF Tok(Skip(paren)) # ")" THEN Raise(Skip(paren))
        ELSE FunctionWith(Tok(s), ParseCompoundCommand(SkipNewlines(Skip(Skip(paren)))))

RECURSIVE WordsEnd(_)
WordsEnd(s) == IF Tok(s) \in Seps THEN s ELSE WordsEnd(Skip(s))
\* The line is read up to a separator and has tokens of its own: the token
\* before the separator is then the first word.
ParseSimpleCommand(s) ==
    LET end == WordsEnd(s)
    IN  IF end.i = s.i THEN NoNode(s)
        ELSE Made(Node("COMMAND", SubSeq(s.t, s.i, end.i - 1), <<>>), [end EXCEPT !.prev = Tok(s)])

ParseCommand(s) ==
    LET from == IF Tok(s) = ";" THEN Skip(s) ELSE s
        c    == SkipNewlines(from)
    IN  IF Tok(c) = "EOF" THEN NoNode(c)
        ELSE IF Tok(c) \in {"{", "(", "for", "case", "if", "while"} THEN ParseCompoundCommand(c)
        ELSE IF Tok(Skip(c)) = "(" THEN ParseFunctionDefinition(c)
        ELSE ParseSimpleCommand(c)

RECURSIVE ParseList(_)
ListWith(r, op, rest) ==
    Made(Node("LIST", IF op = "&" THEN "&" ELSE ";", <<r.node>> \o Optional(rest)),
         SkipSeparators(rest.s))
ListFrom(r) ==
    LET op   == Tok(r.s)
        next == Skip(r.s)
    IN  IF r.node = None THEN r
        ELSE IF op \notin {"&", ";"} THEN Made(r.node, SkipSeparators(r.s))
        ELSE IF Tok(next) \in {"\n", "EOF"} THEN ListWith(r, op, NoNode(next))
        ELSE ListWith(r, op, ParseList(next))
ParseList(s) == ListFrom(ParseAndOr(s))
-----------------------------------------------------------------------------
(* The commands that backend.c runs for a node. *)

Crash == <<Fg(<<"crash">>)>>
RECURSIVE CommandOf(_)
RECURSIVE ListOf(_)
\* do_list(): a list that no operator ends, as braces make it, has no value to
\* look for the & in.
ListOf(node) ==
    IF node[1] \notin {"LIST", "TERM"} THEN <<Fg(CommandOf(node))>>
    ELSE IF node[2] = "" THEN Crash
    ELSE <<<<CommandOf(node[3][1]), node[2] = "&">>>>
         \o (IF Len(node[3]) = 1 THEN <<>> ELSE ListOf(node[3][2]))
\* do_compound_list()
CompoundListOf(node) ==
    IF node[1] # "LIST" THEN ListOf(node)
    ELSE FlattenSeq([k \in DOMAIN node[3] |-> ListOf(node[3][k])])

\* The operators among the patterns match no word here.  What |& adds to the children of a
\* compound command is none to the function that runs it.
CommandOf(node) ==
    LET kids == SelectSeq(node[3], LAMBDA k : k[1] # "IO")
        list(k) == IF k > Len(kids) THEN <<>> ELSE CompoundListOf(kids[k])
        item(k) ==
            LET pats == SelectSeq(kids[k][2][1], LAMBDA w : w \notin Seps)
                end  == [x \in {"", "&", ";"} |-> CASE x = "" -> ";;" [] x = "&" -> ";&" [] x = ";" -> ";|"]
            IN  <<pats, IF kids[k][3] = <<>> THEN <<>> ELSE CompoundListOf(kids[k][3][1]), end[kids[k][2][2]]>>
        chain(c, k) == Join(IF k[1] = "AND_IF" THEN "&&" ELSE "||", c, CommandOf(k[3][1]))
    IN  CASE node[1] = "COMMAND"  -> Simple(node[2] \o [k \in DOMAIN node[3] |-> node[3][k][2]])
          [] node[1] = "BANG"     -> Bang(CommandOf(kids[1]))
          [] node[1] = "PIPE"     -> Pipe(Reverse([k \in DOMAIN kids |-> CommandOf(kids[k])]))
          [] node[1] = "ANDOR"    -> FoldLeft(chain, CommandOf(kids[1]), Tail(kids))
          [] node[1] = "LIST"     -> Group(CompoundListOf(Node("LIST", "", kids)))
          [] node[1] = "SUBSHELL" -> Subshell(list(1))
          [] node[1] = "IF"       -> If(list(1), list(2), list(3))
          [] node[1] = "WHILE"    -> While(list(1), list(2))
          [] node[1] = "FOR"      -> For(node[2], list(1))
          [] node[1] = "CASE"     -> Case([k \in DOMAIN kids |-> item(k)])
          [] node[1] = "FUNCTION" -> Function(CommandOf(kids[1]))

Error == <<Fg(<<"error">>)>>
RECURSIVE ParseFrom(_)
\* parse_and_execute(): what is run, with Error where the parser gives up.
Execute(r) ==
    IF r.s.err \/ r.node = None THEN Error ELSE ListOf(r.node) \o ParseFrom(r.s)
ParseFrom(s) ==
    LET from == SkipNewlines(s)
    IN  IF Tok(from) = "EOF" THEN <<>> ELSE Execute(ParseList(from))
Parse(t) == ParseFrom(Start(t))
-----------------------------------------------------------------------------
\* The lists of a compound command, and the commands another is made of.
ListsOf(c) ==
    CASE c[1] \in {"{", "("} -> {c[2]}
      [] c[1] = "while" -> {c[2], c[3]}
      [] c[1] = "if"    -> {c[2], c[3], c[4]}
      [] c[1] = "for"   -> {c[3]}
      [] c[1] = "case"  -> {item[2] : item \in Range(c[2])}
      [] OTHER -> {}
PartsOf(c) ==
    CASE c[1] = "|" -> Range(c[2])
      [] c[1] \in {"!", "function", "both"} -> {c[2]}
      [] c[1] \in {"&&", "||"} -> {c[2], c[3]}
      [] OTHER -> {}
RECURSIVE Within(_)
\* The commands of a list, and those in them.
Within(list) ==
    LET here == {i[1] : i \in Range(list)}
    IN  here \cup UNION {UNION {Within(l) : l \in ListsOf(c)} : c \in here}
             \cup UNION {Within([k \in {1} |-> Fg(d)]) : d \in UNION {PartsOf(c) : c \in here}}

\* What users are assumed not to write.
Careless(list, lines, tight) ==
    LET all   == Within(list)
        lists == UNION {ListsOf(c) : c \in all} \ {<<>>}
        ends(l, kind)  == ~Last(l)[2] /\ Last(l)[1][1] = kind
        endsInElif(l)  == l # <<>> /\ ends(l, "if") /\ IsElif(Last(l)[1][4], TRUE)
    IN  \/ "lastAnd" \notin Cramped /\ \E l \in lists : Last(l)[2]
        \/ "group" \notin Cramped
           /\ \/ \E l \in lists : ends(l, "{")
              \/ lines /\ \E i \in Range(list) : ~i[2] /\ i[1][1] = "{"
              \/ tight /\ ends(list, "{")
        \/ "fiFi" \notin Cramped /\ tight
           /\ \E c \in all : c[1] = "if" /\ (endsInElif(c[3]) \/ endsInElif(c[4]))
        \/ "keywords" \notin Cramped
           /\ \E c \in all : c[1] = "for" /\ Range(c[2]) \cap (Keywords \cup {"y=1"}) # {}
        \/ "lastFall" \notin Cramped
           /\ \E c \in all : c[1] = "case" /\ Last(c[2])[3] = ";|"
        \/ "both" \notin Cramped /\ \E c \in all : c[1] = "both"

\* What is run is what was written.
AsStructured(list, result) == result = list
=============================================================================
