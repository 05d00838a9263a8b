--------------------------- MODULE MCShellState ---------------------------
\* ShellState for TLC: the redirections, the command lines and the lines edited.
EXTENDS ShellState

To(fd, to) == [fd |-> fd, of |-> 0, to |-> to]
Of(fd, of, to) == [fd |-> fd, of |-> of, to |-> to]

MCRedirs == {To(1, "f"), Of(2, 1, "dup"), To(2, "missing"), To(1, "here"), To(1, "wrong"), Of(1, 1, "dup")}

\* Two of the commands begin alike.
MCCommands == {<<"echo ", "a">>, <<"echo ", "b">>, <<"date ", "a">>}

\* One letter is a character here; the line editor looks at nothing else in a word.
MCEntered == <<<<"a", "b", " ", "a">>, <<"b", "a">>>>
MCTyped == {<<>>, <<"b", "a", " ", "a">>, <<" ", "a">>, <<"a", "b", " ">>,
            <<"(", "a", ")">>, <<"#", "a", "b">>}
MCPatterns == {<<"a", "b">>, <<"a">>, <<>>}
=============================================================================
