------------------------------ MODULE Braces ------------------------------
(***************************************************************************)
(* Brace expansion (braceexp.c): brace_expand() puts the words one pair of *)
(* braces makes in the place of the word it was in and reads them again.   *)
(* A text is a sequence of characters.                                     *)
(***************************************************************************)
EXTENDS Integers, Sequences, SequencesExt, FiniteSets, TLC

Letters == <<"a", "b", "c", "d">>
Digits  == <<"0", "1", "2", "3", "4", "5">>
Place(c, s) == CHOOSE i \in DOMAIN s : s[i] = c
Quotes == {"'", "\""}

\* The first place from i on where t has c, or the place after t.
NextPlace(t, i, c) ==
    LET found == {k \in i..Len(t) : t[k] = c}
    IN  IF found = {} THEN Len(t) + 1 ELSE CHOOSE k \in found : \A l \in found : k <= l

RECURSIVE BraceAt(_, _, _)
\* The place of the brace that closes the depth braces open before i, 0 if none.
BraceAt(t, i, depth) ==
    CASE i > Len(t)       -> 0
      [] t[i] = "\\"      -> BraceAt(t, i + 2, depth)
      [] t[i] \in Quotes  -> BraceAt(t, NextPlace(t, i + 1, t[i]) + 1, depth)
      [] t[i] = "{"       -> BraceAt(t, i + 1, depth + 1)
      [] t[i] = "}"       -> IF depth = 1 THEN i ELSE BraceAt(t, i + 1, depth - 1)
      [] OTHER            -> BraceAt(t, i + 1, depth)
ClosingBrace(t, i) == BraceAt(t, i + 1, 1)
-----------------------------------------------------------------------------
RECURSIVE Steps(_, _, _)
\* The numbers from x to y by steps of z.
Steps(x, y, z) ==
    IF x = y THEN <<x>>
    ELSE IF x < y THEN <<x>> \o (IF x + z > y THEN <<>> ELSE Steps(x + z, y, z))
    ELSE <<x>> \o (IF x - z < y THEN <<>> ELSE Steps(x - z, y, z))

IsLetter(s) == Len(s) = 1 /\ s[1] \in Range(Letters)
\* No digit at all is a number too, and is 0.
IsNum(s) == s = <<>> \/ (Len(s) = 1 /\ s[1] \in Range(Digits))
Atol(s)  == IF s = <<>> THEN 0 ELSE Place(s[1], Digits) - 1

Failed == <<"failed">>
\* The words of a range, Failed if it is none.
Listed(x, y, z) ==
    LET step == IF z = Failed \/ Atol(z) = 0 THEN 1 ELSE Atol(z)
        spelled(s, alphabet) == [i \in DOMAIN s |-> <<alphabet[s[i]]>>]
    IN  IF IsLetter(x) /\ IsLetter(y)
        THEN spelled(Steps(Place(x[1], Letters), Place(y[1], Letters), step), Letters)
        ELSE IF IsNum(x) /\ IsNum(y)
        THEN spelled(Steps(Atol(x) + 1, Atol(y) + 1, step), Digits)
        ELSE Failed

RECURSIVE RangeEnd(_, _, _)
\* Where the second number of a range ends that is read from i on.
RangeEnd(t, i, end) ==
    IF i >= end \/ t[i] \in {".", ","} THEN i
    ELSE RangeEnd(t, (IF t[i] = "{" THEN ClosingBrace(t, i) ELSE i) + 1, end)

RECURSIVE BraceItems(_, _, _, _, _)
\* get_brace_list(): the items between p0 and the closing brace at end, read
\* from i on, after those in list.
BraceItems(t, p0, i, end, list) ==
    LET c    == t[i]
        skip(k) == BraceItems(t, p0, k + 1, end, list)
        y    == RangeEnd(t, i + 2, end)
        z    == IF t[y] = "." THEN SubSeq(t, y + 2, end - 1) ELSE Failed
        stop == IF t[y] = "." THEN end ELSE y
        all  == Listed(SubSeq(t, p0, i - 1), SubSeq(t, i + 2, y - 1), z)
        bad  == \/ t[y] = "." /\ t[y + 1] # "."
                \/ all # Failed /\ z # Failed /\ ~IsNum(z)
    IN  IF i > end THEN list
        ELSE IF c \in Quotes THEN skip(NextPlace(t, i + 1, c))
        ELSE IF c = "\\" THEN skip(i + 1)
        ELSE IF c = "{" THEN skip(ClosingBrace(t, i))
        ELSE IF c \in {",", "}"} /\ i # p0 /\ t[i - 1] # "\\"
             THEN BraceItems(t, i + 1, i + 1, end, Append(list, SubSeq(t, p0, i - 1)))
        ELSE IF c = "." /\ t[i + 1] = "."
             THEN IF bad THEN <<>>
                  ELSE BraceItems(t, stop + 1, stop + 1, end,
                                  IF all = Failed THEN list ELSE list \o all)
        ELSE skip(i)

Items(t, i) == BraceItems(t, i + 1, i + 1, ClosingBrace(t, i), <<>>)

RECURSIVE Opening(_, _)
\* The place from i on of the first braces that brace_expand() expands, 0 if
\* none: not those in quotes or after a backslash.
Opening(t, i) ==
    CASE i > Len(t)      -> 0
      [] t[i] \in Quotes -> Opening(t, NextPlace(t, i + 1, t[i]) + 1)
      [] /\ t[i] = "{" /\ ~(i > 1 /\ t[i - 1] = "\\")
         /\ ClosingBrace(t, i) # 0 /\ Items(t, i) # <<>> -> i
      [] OTHER           -> Opening(t, i + 1)

RECURSIVE BraceExpand(_)
\* The braces are replaced by each item in turn, and every text that makes is
\* read again from its start.
WithEach(before, items, after) ==
    FlattenSeq([k \in DOMAIN items |-> BraceExpand(before \o items[k] \o after)])
ExpandedAt(t, i) ==
    IF i = 0 THEN <<t>>
    ELSE WithEach(SubSeq(t, 1, i - 1), Items(t, i), SubSeq(t, ClosingBrace(t, i) + 1, Len(t)))
BraceExpand(t) == ExpandedAt(t, Opening(t, 1))
=============================================================================
