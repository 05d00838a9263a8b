--------------------------- MODULE MCAlgorithms ---------------------------
\* Algorithms for TLC: the words that are expanded, and the history's commands.
EXTENDS Algorithms

MCWordParts ==
    {W!Lit("a"), W!Lit(":"), W!Esc("'"), W!Esc("{"), W!Sq(<<"{", " ", ",", "}">>), W!Sq(<<>>)}
    \cup {W!Dq(s) : s \in {<<>>, <<"$x">>, <<"$@">>, <<"$*">>, <<"a", "'", "$x">>,
                           <<"$@", "a">>, <<"${y-}">>, <<"{", "$x", ",">>}}
    \cup {W!Par(p) : p \in W!Params}
    \cup {W!Each(<<<<W!Lit("a")>>>>), W!Each(<<<<>>, <<W!Lit("b")>>>>),
          W!Each(<<<<W!Lit("a")>>, <<W!Par("$x")>>>>),
          W!Each(<<<<W!Each(<<<<W!Lit("a")>>, <<W!Dq(<<",">>)>>>>), W!Par("$x")>>,
                   <<W!Sq(<<"}">>)>>, <<W!FromTo("1", "3", "")>>>>)}
    \cup {W!FromTo("a", "c", "2"), W!FromTo("4", "1", "2")}

MCWordEnds ==
    {<<>>} \cup {<<p>> : p \in MCWordParts}
    \cup {<<p, q>> : p \in MCWordParts, q \in {W!Lit("a"), W!Dq(<<"$x">>), W!Sq(<<>>)}}

MCEnvs ==
    {W!Env(x, <<<<"a", " ", "b">>, <<>>, <<"c">>>>, ifs) :
        x \in {<<>>, <<" ", "a", ":">>, <<"a", ":", ":", "b", " ", "c">>, <<"\\", "\"">>},
        ifs \in {<<" ">>, <<":", " ">>, <<>>}}

Ls == <<"l", "s", " ", "x", "/", "y", ".", "s", " ", "l", ".", "x">>
MCCommands ==
    {<<>>, <<<<"x", " ", "/", "s", "/", "l", "/", "y">>, Ls>>, <<Ls, <<"l">>>>,
     <<Ls, <<"s", " ", "x", "!", "y", " ", "'", "x", "'">>>>}
MCHistories ==
    {H!Env(h, v, o, Len(h)) : h \in MCCommands, v \in {<<"k">>, Ls}, o \in {<<>>, <<"k", "k", "k">>}}
    \cup {H!Env(<<Ls, <<"l">>>>, <<"k">>, <<>>, n) : n \in {0, 1}}

OneModifier ==
    {H!Mod(l, g) : l \in H!Everywhere, g \in BOOLEAN}
    \cup {H!Mod(l, FALSE) : l \in {"U", "q", "x", "&", "p"}}
    \cup {H!Replace(<<"x">>, y, g, c) :
             y \in {<<>>, <<"l">>, <<"x", "x">>}, g \in BOOLEAN, c \in BOOLEAN}
MCModifiers ==
    {<<>>, <<H!Mod("h", TRUE), H!Mod("t", TRUE), H!Mod("&", FALSE)>>}
    \cup {<<m>> : m \in OneModifier}
    \cup {<<m, n>> : m \in {H!Mod("t", TRUE), H!Mod("q", FALSE), H!Mod("u", TRUE)},
                     n \in OneModifier}

MCPieces ==
    {H!Lit(<<"l">>), H!Lit(<<" ", "s", " ", "x", "x", "x">>), H!Lit(<<"!", " ">>),
     H!Lit(<<" ", "!">>), H!Esc("!"), H!Sq(<<"!", "!">>)}
    \cup {H!Quick(<<"x">>, <<"l", "s">>, c) : c \in BOOLEAN}
    \cup {H!Dq(<<H!Lit(l), H!Ref(<<"last">>, <<>>, <<>>)>>) : l \in {<<"'">>, <<"l">>}}

\* Quotes, escapes, newlines, braces and here-documents in a word.
MCSpellings ==
    {<<"b">>, <<"a", "\\", "\n", "b">>, <<"\\", "'">>, <<"'", "\"", "{", "'">>,
     <<"$", "{", "a", "}">>, <<"$", "(", "'", ")", "'", ")">>, <<"$", "(", "a", "\n", "b", ")">>,
     <<"<<", "E">>, <<"<<", "E", " ", "<<", "F">>, <<"<<", "'", "E", "'">>,
     <<"$", "(", "(", "1", "<<", "2", ")", ")">>}
    \cup {<<q, "a", "\n", "b", q>> : q \in R!Quotes}
    \cup {<<"\"">> \o w \o <<"\"">> :
             w \in {<<"'">>, <<"backquote", "a", "backquote">>, <<"$", "{", "a", "}">>,
                   <<"$", "(", "a", "\n", "b", ")">>, <<"a", "\\", "\"", "b">>, <<"a", "\\", "\n">>}}

\* Nothing or the definition of n as each of the values.
Alias(n, vals) == {<<>>} \cup {<<<<"alias", <<n>>, v>>>> : v \in vals}
AliasesOfA ==
    {<<>>, <<" ">>, <<"x">>, <<"x", " ">>, <<"b">>, <<" ", "b">>, <<"b", " ">>, <<"b", " ", "c">>,
     <<"a", " ", "x">>, <<"x", ";", " ", "c">>, <<"b", ";", "x">>, <<"b", "|", "x">>,
     <<"v", "=", "x", " ", "b">>, <<">", " ", "x", " ", "b">>, <<"b", ">", "x">>,
     <<"x", " ", "'", " ", ";", "'">>, <<"c", "'", "x", "'">>}
AliasesOfB ==
    {<<"x", " ">>, <<"c">>, <<" ", "c">>, <<"c", " ">>, <<"b", " ", "x">>, <<"a", " ">>, <<"x", " ", "a">>}
AliasesOfC == {<<"x">>, <<"x", " ">>, <<"b">>, <<" ", "a">>}
\* Up to two more calls with a full table.
Full == [n \in 1..3 |-> <<"alias", <<<<"a", "b", "c">>[n]>>, <<"x">>>>]
MoreCalls ==
    {<<"unalias", <<"b">>>>, <<"unalias -a">>}
    \cup {<<"alias", n, <<"c">>>> : n \in {<<"a">>, <<"x">>, <<"l", ".">>, <<"!">>}}
MCAliasCalls ==
    {x \o y \o z : x \in Alias("a", AliasesOfA), y \in Alias("b", AliasesOfB), z \in Alias("c", AliasesOfC)}
    \cup {Full \o <<m>> : m \in MoreCalls} \cup {Full \o <<m, n>> : m \in MoreCalls, n \in MoreCalls}
MCAliasLines ==
    {<<"a">>, <<" ", "a", " ", "b">>, <<"b", " ", "a", " ", "c">>, <<"x", " ", "a">>, <<"!", " ", "a">>,
     <<"v", "=", "'", " ", "a", "'", " ", "a">>, <<"v", "=", "x", " ", "a">>, <<"'", "a", "'", " ", "b">>,
     <<">", "x", " ", "a">>, <<">", " ", "x", " ", "a", " ", "c">>, <<"2", ">", "x", " ", "a">>,
     <<"a", ">", "x">>, <<"a", " ", ">", "x", " ", "b">>, <<"a", " ", "v", "=", "x", " ", "b">>,
     <<"a", ";", "b">>, <<"a", " ", "|", " ", "a">>, <<"l", ".", " ", "a">>}
=============================================================================
