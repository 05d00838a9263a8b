------------------------------ MODULE Aliases ------------------------------
(***************************************************************************)
(* The aliases of a command line (parser.c, alias.c, unalias.c): the table *)
(* that alias and unalias keep, and the substitution in the text of each   *)
(* simple command before it is parsed.  A text is a sequence of            *)
(* characters, of which ";" and "|" stand for all operators between        *)
(* commands and ">" for all redirections.                                  *)
(***************************************************************************)
EXTENDS Integers, Sequences, SequencesExt, FiniteSets, FiniteSetsExt, TLC

CONSTANTS
    MAX_ALIASES,
    Fickle    \* aliases and lines that the substitution gets wrong, see Careless

Letters == {"a", "b", "c", "v", "x"}
NameChars == Letters \cup {"2", "!"}
Operators == {";", "|"}
Keywords == {<<"!">>}
-----------------------------------------------------------------------------
(* The table: in each slot << >> or a name and its value. *)

NoAliases == [i \in 1..MAX_ALIASES |-> <<>>]
AliasListIndex(aliases, name) ==
    Min({i \in DOMAIN aliases : aliases[i] # <<>> /\ aliases[i][1] = name} \cup {MAX_ALIASES + 1})

\* A full table keeps what it has.
SetAlias(aliases, name, val) ==
    LET free  == {i \in DOMAIN aliases : aliases[i] = <<>>}
        index == AliasListIndex(aliases, name)
    IN  IF index <= MAX_ALIASES THEN [aliases EXCEPT ![index] = <<name, val>>]
        ELSE IF free = {} THEN aliases
        ELSE [aliases EXCEPT ![Min(free)] = <<name, val>>]

\* A call of a builtin: <<"alias", name, val>>, <<"unalias", name>> or <<"unalias -a">>.
AliasBuiltin(aliases, call) ==
    IF call[2] \in Keywords THEN aliases ELSE SetAlias(aliases, call[2], call[3])
UnaliasBuiltin(aliases, call) ==
    IF call[1] = "unalias -a" THEN NoAliases
    ELSE [i \in DOMAIN aliases |->
             IF i = AliasListIndex(aliases, call[2]) THEN <<>> ELSE aliases[i]]
Defined(calls) ==
    FoldLeft(LAMBDA t, c : IF c[1] = "alias" THEN AliasBuiltin(t, c) ELSE UnaliasBuiltin(t, c),
             NoAliases, calls)

ValidAliasName(name) == name # <<>> /\ Range(name) \subseteq NameChars
\* Whether get_alias_val() returns another text than the name it was given.
IsAlias(aliases, name) ==
    ValidAliasName(name) /\ AliasListIndex(aliases, name) <= MAX_ALIASES
GetAliasVal(aliases, name) == aliases[AliasListIndex(aliases, name)][2]
-----------------------------------------------------------------------------
(* The substitution. *)

\* The first place from i on that has no blank, and the first that has one.
SkipSpaces(s, i) == Min({k \in i..Len(s) : s[k] # " "} \cup {Len(s) + 1})
NextSpace(s, i)  == Min({k \in i..Len(s) : s[k] = " "} \cup {Len(s) + 1})

\* The place of the quote that closes the one at i, or i.
FindClosingQuote(s, i) ==
    LET quotes == {k \in i + 1..Len(s) : s[k] = "'"} IN IF quotes = {} THEN i ELSE Min(quotes)
RECURSIVE NextCmdWord(_, _)
\* The end of the word at i: quoted blanks do not end it.
NextCmdWord(s, i) ==
    IF i > Len(s) \/ s[i] = " " THEN i
    ELSE NextCmdWord(s, (IF s[i] = "'" THEN FindClosingQuote(s, i) ELSE i) + 1)

\* The characters from start up to, not including, end give way to text.
SubstituteStr(s, text, start, end) ==
    SubSeq(s, 1, start - 1) \o text \o SubSeq(s, end, Len(s))

Endless == [found |-> TRUE, text |-> <<"endless">>]
RECURSIVE Follow(_, _, _, _, _, _)
\* The value of the alias name replaces the word between start and end, which are
\* places in the last value, not in val.  names are the names followed so far: the
\* second time at one of them the loop has no end.
Follow(aliases, word, name, val, place, names) ==
    IF ~IsAlias(aliases, name) THEN [found |-> names # {}, text |-> val]
    ELSE IF name \in names THEN Endless
    ELSE LET p     == GetAliasVal(aliases, name)
             start == SkipSpaces(p, 1)
             end   == NextSpace(p, start)
             first == SubSeq(p, start, end - 1)
             text  == IF names = {} THEN p ELSE SubstituteStr(val, p, place[1], place[2])
         IN  IF first = word THEN [found |-> TRUE, text |-> text]
             ELSE Follow(aliases, word, first, text, <<start, end>>, names \cup {name})
GetAliasRecursive(aliases, word) == Follow(aliases, word, word, <<>>, <<1, 1>>, {})

IsAssignment(word) ==
    /\ "=" \in Range(word) /\ word[1] # "="
    /\ Range(SubSeq(word, 1, Min({k \in DOMAIN word : word[k] = "="}) - 1)) \subseteq Letters

RECURSIVE Substituted(_, _, _, _)
\* The alias replaces the text between start and end; a value that ends in a blank
\* has the word behind it replaced too.
Placed(aliases, cmd, start, end, alias) ==
    IF ~alias.found THEN cmd
    ELSE IF alias = Endless THEN Endless.text
    ELSE LET text == SubstituteStr(cmd, alias.text, start, end)
         IN  IF alias.text # <<>> /\ Last(alias.text) = " "
             THEN Substituted(aliases, text, start + Len(alias.text), FALSE)
             ELSE text
\* The words from i on; skip_next is TRUE behind a redirection operator.
Substituted(aliases, cmd, i, skip_next) ==
    LET start == SkipSpaces(cmd, i)
        end   == NextCmdWord(cmd, start)
        word  == SubSeq(cmd, start, end - 1)
    IN  IF start > Len(cmd) THEN cmd
        ELSE IF skip_next THEN Substituted(aliases, cmd, end, FALSE)
        ELSE IF word[1] = ">" THEN Substituted(aliases, cmd, end, word = <<">">>)
        ELSE IF IsAssignment(word) THEN Substituted(aliases, cmd, end, FALSE)
        ELSE Placed(aliases, cmd, start, end, GetAliasRecursive(aliases, word))
DoAliasSubstitution(aliases, cmd) == Substituted(aliases, cmd, 1, FALSE)
-----------------------------------------------------------------------------
(* The tokens of a text, and the simple commands the parser takes it apart into. *)

RECURSIVE Tokens(_, _)
Tokens(s, i) ==
    IF i > Len(s) THEN <<>>
    ELSE IF s[i] = " " THEN Tokens(s, i + 1)
    ELSE LET ends(k) == k > Len(s) \/ s[k] \in Operators \cup {" ", ">"}
             quoted(k) == \E q \in 1..k - 1 : s[q] = "'" /\ FindClosingQuote(s, q) > k
                              /\ Cardinality({r \in 1..q - 1 : s[r] = "'"}) % 2 = 0
             stop == Min({k \in i + 1..Len(s) + 1 : ends(k) /\ ~quoted(k)})
             end  == IF s[i] \in Operators \cup {">"} THEN i + 1
                     ELSE IF s[i] = "2" /\ stop = i + 1 /\ stop <= Len(s) /\ s[stop] = ">" THEN i + 2
                     ELSE stop
         IN  <<SubSeq(s, i, end - 1)>> \o Tokens(s, end)
Lexed(s) == Tokens(s, 1)

IsOperator(token) == Len(token) = 1 /\ token[1] \in Operators
\* The places of the operators of a line and the place behind it.
Cuts(tokens) == {k \in DOMAIN tokens : IsOperator(tokens[k])} \cup {Len(tokens) + 1}

\* parse_simple_command() makes a list of the commands that ; separates; what follows
\* another operator in the text of an alias is dropped.
ListOf(tokens) ==
    SubSeq(tokens, 1, Min({k \in Cuts(tokens) : k > Len(tokens) \/ tokens[k] # <<";">>}) - 1)
ParseSimpleCommand(aliases, cmd) == ListOf(Lexed(DoAliasSubstitution(aliases, cmd)))

RECURSIVE Parsed(_, _)
\* A line is read command by command, from behind a keyword: read_complete_line().
Bang(words) == IF words # <<>> /\ Head(words) \in Keywords THEN <<Head(words)>> ELSE <<>>
BehindBang(aliases, cmd, bang) ==
    bang \o ParseSimpleCommand(aliases,
                IF bang = <<>> THEN cmd ELSE SubSeq(cmd, SkipSpaces(cmd, 1) + 1, Len(cmd)))
Parsed(aliases, line) ==
    LET end == Min({k \in DOMAIN line : line[k] \in Operators} \cup {Len(line) + 1})
        cmd == SubSeq(line, 1, end - 1)
    IN  BehindBang(aliases, cmd, Bang(Lexed(cmd)))
        \o IF end > Len(line) THEN <<>>
           ELSE <<<<line[end]>>>> \o Parsed(aliases, SubSeq(line, end + 1, Len(line)))

\* What is run when the line is entered after the calls.
Run(calls, line) == Parsed(Defined(calls), line)
-----------------------------------------------------------------------------
(* What the manual says of aliases. *)

\* The aliases the calls leave, where no more than MAX_ALIASES are ever there.
Meant(calls) ==
    FoldLeft(LAMBDA t, c :
        CASE c[1] = "unalias -a" -> <<>>
          [] c[1] = "unalias" -> [n \in DOMAIN t \ {c[2]} |-> t[n]]
          [] c[2] \in Keywords -> t
          [] c[2] \notin DOMAIN t /\ Cardinality(DOMAIN t) = MAX_ALIASES -> t
          [] OTHER -> (c[2] :> c[3]) @@ t,
        <<>>, calls)

\* The place of the command word: a keyword, assignments and redirections come before it.
CommandWord(command) ==
    Min({k \in DOMAIN command :
             /\ command[k] \notin Keywords /\ Last(command[k]) # ">" /\ ~IsAssignment(command[k])
             /\ k > 1 => Last(command[k - 1]) # ">"}
        \cup {Len(command) + 1})

RECURSIVE Expanded(_, _, _)
RECURSIVE Replaced(_, _, _)
\* The words of a command from its command word on, or from the word behind an alias
\* with a blank at its end; the aliases in used are not replaced again.
Replaced(table, words, used) ==
    IF words = <<>> \/ Head(words) \notin DOMAIN table \ used THEN words
    ELSE LET val == table[Head(words)]
         IN  Expanded(table, Lexed(val), used \cup {Head(words)})
             \o IF val # <<>> /\ Last(val) = " " THEN Replaced(table, Tail(words), used)
                ELSE Tail(words)
Expanded(table, line, used) ==
    LET cut     == Min(Cuts(line))
        command == SubSeq(line, 1, cut - 1)
        at      == CommandWord(command)
    IN  SubSeq(command, 1, at - 1) \o Replaced(table, SubSeq(command, at, Len(command)), used)
        \o IF cut > Len(line) THEN <<>>
           ELSE <<line[cut]>> \o Expanded(table, SubSeq(line, cut + 1, Len(line)), used)

FirstWord(val) ==
    LET start == SkipSpaces(val, 1) IN SubSeq(val, start, NextSpace(val, start) - 1)
RECURSIVE Chain(_, _, _)
\* The aliases that are replaced one in the other, from name on.
Chain(table, name, n) ==
    IF name \notin DOMAIN table \/ n = 0 THEN <<>>
    ELSE <<name>> \o Chain(table, FirstWord(table[name]), n - 1)

\* What users are assumed not to define and not to type.
Careless(calls, line) ==
    LET table  == Meant(calls)
        words  == Lexed(line)
        used   == Range(words) \cap DOMAIN table
        chain(n)  == Chain(table, n, Cardinality(DOMAIN table) + 1)
        endless(n) == Len(chain(n)) > Cardinality(DOMAIN table) /\ n \notin Range(Tail(chain(n)))
        vals   == {table[m] : m \in UNION {Range(chain(n)) : n \in used}}
        texts  == vals \cup {line}
        spaced(s) == s # <<>> /\ Last(s) = " "
    IN  \/ "cycle" \notin Fickle /\ \E n \in used : endless(n)
        \/ "blanks" \notin Fickle
           /\ \E n \in used : Len(chain(n)) > 2 /\ \E m \in Range(chain(n)) :
                  table[m] # <<>> /\ table[m][1] = " "
        \/ "inner" \notin Fickle
           /\ \E n \in used : \E m \in Range(Tail(chain(n))) : spaced(table[m])
        \/ "commands" \notin Fickle
           /\ \E v \in vals : \E k \in Cuts(Lexed(v)) : k < Len(Lexed(v))
                  /\ \/ Lexed(v)[k + 1] \in DOMAIN table
                     \/ Lexed(v)[1] \in DOMAIN table /\ Lexed(v)[1] # FirstWord(v)
        \/ "operators" \notin Fickle /\ \E v \in vals : <<"|">> \in Range(Lexed(v))
        \/ "numbered" \notin Fickle /\ <<"2", ">">> \in Range(words)
        \/ "joined" \notin Fickle
           /\ \E s \in texts : \E k \in 2..Len(s) : s[k] = ">" /\ s[k - 1] \notin {" ", "2"}
        \/ "assigned" \notin Fickle
           /\ \E v \in vals : LET at == CommandWord(Lexed(v))
                               IN  at \in 2..Len(Lexed(v)) /\ Lexed(v)[at] \in DOMAIN table
        \/ "behind" \notin Fickle
           /\ \E k \in 2..Len(words) :
                  /\ (Last(words[k]) = ">" \/ IsAssignment(words[k]))
                  /\ words[k - 1] \in DOMAIN table /\ spaced(table[words[k - 1]])
        \/ "unnamed" \notin Fickle /\ \E n \in used : ~ValidAliasName(n)

\* The commands that are run are those of the line with its aliases replaced.
AsAliased(calls, line, result) == result = Expanded(Meant(calls), Lexed(line), {})
=============================================================================
