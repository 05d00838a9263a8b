------------------------------- MODULE Editor -------------------------------
(***************************************************************************)
(* The command line editor (cmdline.c, vi_keys.c, vi.c): the buffer with   *)
(* its two indices, the keys of the input mode and the commands of the vi  *)
(* mode, next to the line that EditLine has for the same keys.  The        *)
(* screen is left out: the prompt is not on its first row, and a line is   *)
(* shorter than a row.  cmdbuf is longer than any line of the model.       *)
(***************************************************************************)
EXTENDS Integers, Sequences, SequencesExt, FiniteSets, FiniteSetsExt

CONSTANTS
    EnteredLines, \* cmd_history: the commands entered before
    TypedLines,   \* lines the user has typed when a behaviour begins
    Chars,        \* characters typed, looked for and put in place of others
    Patterns,     \* what the history is searched for
    Clumsy,       \* what users do that goes wrong, see Clumsiness
    MaxLine,      \* bound: characters of a line
    MaxKeys       \* bound: keys of the vi mode

Clumsiness ==
    {"operator",  \* a motion after an operator that had its motion: lc stays
     "count",     \* a count after P, p, r, ~, j, k, which leave theirs
     "ignored",   \* a count for a command that does not take it
     "beyond",    \* h and l with a count or an operator past an end of the line
     "words",     \* w in a word, b at its start, e at its end, B behind it
     "till",      \* T, or t for a character that is not there
     "column",    \* an operator with | or %, or with [H, b for y
     "inside",    \* P and p inside a line, or before anything was yanked
     "replace",   \* R
     "comment",   \* # on a line that begins with a blank or has one character
     "overtype",  \* typing over at the end of a line
     "forgotten", \* ; and , after a change, . after a find
     "empty",     \* / or ? for nothing, which is not, or not always, the last pattern
     "fetch",     \* G; down keys on an empty line; n after ? or a failed search
     "ctrlLeft"}  \* the left key with Ctrl inside a word or blanks in front, and
                  \* Ctrl-W right behind a blank or a mark or on a line that begins with one

VARIABLES
    cmdbuf, cmdbuf_index, cmdbuf_end, insert,
    vi,           \* the mode and the variables of vi_cmode()
    savebuf, cmd_history_index,
    line,         \* the line as EditLine has it
    keys          \* keys of the vi mode so far

L == INSTANCE EditLine

vars == <<cmdbuf, cmdbuf_index, cmdbuf_end, insert, vi, savebuf, cmd_history_index, line, keys>>

NUL == ""
NULL == <<>>   \* a pointer to s is <<s>>
Space(c) == c = " "
Last0 == MaxLine + 1
Cells == 0..Last0

InputMode == [mode |-> "input", lc |-> "", lc2 |-> "", count |-> 0, lcount |-> 0,
              backup |-> NULL, lstring |-> NULL]

\* The state of the editor as one record, which the functions take and return.
Now == [buf |-> cmdbuf, index |-> cmdbuf_index, end |-> cmdbuf_end, insert |-> insert,
        vi |-> vi, savebuf |-> savebuf, hi |-> cmd_history_index]

Crash(e) == [e EXCEPT !.vi.mode = "crashed"]
Crashed(e) == e.vi.mode = "crashed"

\* strcpy() of s to the buffer from cell `at' on.
Copied(buf, at, s) ==
    [i \in Cells |-> IF i < at THEN buf[i] ELSE IF i < at + Len(s) THEN s[i - at + 1]
                     ELSE IF i = at + Len(s) THEN NUL ELSE buf[i]]
StrLen(buf) == Min({i \in Cells : buf[i] = NUL} \cup {Last0 + 1})
Str(buf, from) == [i \in 1..(StrLen(buf) - from) |-> buf[from + i - 1]]
Filled(e, s) == [e EXCEPT !.buf = Copied(@, 0, s), !.end = Len(s), !.index = Len(s)]
-----------------------------------------------------------------------------
\* The functions of vi_keys.c and those of vi.c that change the buffer.

DoInsert(e, c) ==
    IF e.insert
    THEN LET i == e.index + 1
         IN  IF i > e.end
             THEN [e EXCEPT !.buf = [@ EXCEPT ![i - 1] = c, ![i + 1] = NUL],
                            !.index = i, !.end = @ + 1]
             ELSE [e EXCEPT !.buf[i - 1] = c, !.index = i]
    ELSE [e EXCEPT !.buf = Copied(@, e.index, <<c>> \o [i \in 1..(e.end - e.index) |-> e.buf[e.index + i - 1]]),
                   !.index = @ + 1, !.end = @ + 1]

DoKillKey(e) == IF e.end = 0 THEN e ELSE [e EXCEPT !.end = 0, !.index = 0, !.buf[0] = NUL]

\* A mutation: the last two characters stay where they are.
ShiftedShort(e, i, n) ==
    [u \in Cells |-> IF u = e.end - n THEN NUL ELSE IF u \in i..(e.end - n - 2) THEN e.buf[u + n] ELSE e.buf[u]]

\* Cells from the index on take what is n cells behind them.
Shifted(e, i, n) ==
    [u \in Cells |-> IF u = e.end - n THEN NUL ELSE IF u \in i..(e.end - n) THEN e.buf[u + n] ELSE e.buf[u]]

DoDelKey(e, n) ==
    CASE n = 0 \/ e.index >= e.end -> e
      [] n < 0 \/ n > e.end -> Crash(e)
      [] OTHER -> [e EXCEPT !.buf = Shifted(e, e.index, n), !.end = @ - n]

DoBackspace(e, n) ==
    CASE n = 0 \/ e.index = 0 -> e
      [] n < 0 \/ n > e.index \/ e.index > e.end -> Crash(e)
      [] OTHER -> [e EXCEPT !.buf = Shifted(e, e.index - n, n), !.end = @ - n,
                            !.index = Min({@ - n, e.end - n})]

DoUpKey(e, n) ==
    LET i == Max({0, e.hi - n})
    IN  IF e.hi <= 0 THEN e ELSE [Filled(e, EnteredLines[i + 1]) EXCEPT !.hi = i]

DoDownKey(e, n) ==
    LET i == e.hi + n
    IN  CASE e.end = 0 -> e
          [] i >= Len(EnteredLines) ->
                [e EXCEPT !.hi = Len(EnteredLines), !.end = 0, !.index = 0, !.buf[0] = NUL]
          [] OTHER -> [Filled(e, EnteredLines[i + 1]) EXCEPT !.hi = i]

DoRightKey(e, n) ==
    CASE n = 0 \/ e.index >= e.end -> e
      [] n < 0 \/ e.index + n > Last0 -> Crash(e)
      [] OTHER -> [e EXCEPT !.index = @ + n]

\* The index is not signed.
DoLeftKey(e, n) ==
    CASE n = 0 \/ e.index = 0 -> e
      [] n > e.index \/ e.index - n > Last0 -> Crash(e)
      [] OTHER -> [e EXCEPT !.index = @ - n]

DoHomeKey(e) == [e EXCEPT !.index = 0]
DoEndKey(e) == [e EXCEPT !.index = Max({@, e.end})]

Yank(e, start, end) ==
    CASE end < start \/ end > Last0 + 1 -> Crash(e)
      [] end = start -> [e EXCEPT !.savebuf = IF @ = NULL THEN <<<<>>>> ELSE @]
      [] OTHER -> [e EXCEPT !.savebuf = <<[i \in 1..(end - start) |-> e.buf[start + i - 1]]>>]

\* The cursor goes as far to the left as there is text behind it.
InsertHere(e, s) ==
    CASE s = <<>> -> e
      [] OTHER -> LET tail == [i \in 1..(e.end - e.index) |-> e.buf[e.index + i - 1]]
                      m == [e EXCEPT !.buf = Copied(@, e.index, s \o tail),
                                     !.end = @ + Len(s), !.index = @ + Len(s)]
                  IN  DoLeftKey(m, Len(tail))

FindNext(e, c, c2, count) ==
    LET P == {i \in (e.index + 1)..e.end : e.buf[i] = c2}
        m == IF P = {} THEN e ELSE DoRightKey(e, Min(P) - e.index)
    IN  CASE e.index >= e.end -> e
          [] c = "t" -> DoLeftKey(m, IF count = 0 THEN 1 ELSE count)
          [] OTHER -> m

FindPrev(e, c, c2, count) ==
    LET P == {i \in 0..(e.index - 1) : e.buf[i] = c2}
        m == IF P = {} THEN e ELSE DoLeftKey(e, e.index - Max(P))
    IN  CASE e.index = 0 -> e
          [] c = "T" -> DoLeftKey(m, IF count = 0 THEN 1 ELSE count)
          [] OTHER -> m

FindChar(e, c, c2, count) ==
    IF c \in {"t", "f"} THEN FindNext(e, c, c2, count) ELSE FindPrev(e, c, c2, count)

FindBrace(e) ==
    LET P == {i \in (e.index + 1)..e.end : e.buf[i] \in L!Braces}
    IN  IF e.index >= e.end \/ P = {} THEN e ELSE DoRightKey(e, Min(P) - e.index)

\* The index of the entry, from 0, or -1; hooked: it begins with s.
SearchHistory(e, s, hooked, back) ==
    LET First(i) == Min({j \in 1..Len(EnteredLines[i]) :
                            SubSeq(EnteredLines[i], j, Min({j + Len(s) - 1, Len(EnteredLines[i])})) = s}
                        \cup {Len(EnteredLines[i]) + 1})
        Has(i) == First(i) <= (IF hooked THEN 1 ELSE Len(EnteredLines[i]))
        Q == {i \in DOMAIN EnteredLines : Has(i) /\ (IF back THEN i - 1 < e.hi ELSE i - 1 > e.hi)}
    IN  IF Q = {} THEN -1 ELSE (IF back THEN Max(Q) ELSE Min(Q)) - 1
-----------------------------------------------------------------------------
\* The places the motions of vi_cmode() lead to.

\* Past blanks, or past what is not blank, to the right and to the left.
Right(e, i, blanks) == Min({j \in i..e.end : j = e.end \/ Space(e.buf[j]) # blanks})
Left(e, i, blanks)  == Max({j \in 0..i : j = 0 \/ Space(e.buf[j]) # blanks})

WordBack(e) ==
    LET j == Left(e, e.index, FALSE)
    IN  IF Space(e.buf[e.index]) THEN Left(e, e.index, TRUE)
        ELSE IF Space(e.buf[j]) THEN j + 1 ELSE j
BigWordBack(e) ==
    Left(e, IF Space(e.buf[e.index]) THEN e.index ELSE Left(e, e.index, FALSE), TRUE)
WordOn(e) ==
    LET j == Right(e, e.index, FALSE)
    IN  IF Space(e.buf[e.index]) THEN Right(e, e.index, TRUE)
        ELSE IF Space(e.buf[j]) \/ e.buf[j] = NUL THEN j - 1 ELSE j
BigWordOn(e) ==
    Right(e, IF Space(e.buf[e.index]) THEN e.index ELSE Right(e, e.index, FALSE), TRUE)
WordEnd(e, k) ==
    LET j == Right(e, IF Space(e.buf[e.index]) THEN Right(e, e.index, TRUE) ELSE e.index, FALSE)
    IN  IF k = "e" /\ (Space(e.buf[j]) \/ e.buf[j] = NUL) THEN j - 1 ELSE j
-----------------------------------------------------------------------------
\* vi_cmode(): local variables are gone when it returns.
ToInput(e) == IF Crashed(e) THEN e ELSE [e EXCEPT !.vi = InputMode]
Count(e, n) == [e EXCEPT !.vi.count = n]
LastWas(e, k) == [e EXCEPT !.vi.lc = k]
One(n) == IF n = 0 THEN 1 ELSE n

\* What an operator before the motion makes of it: m has moved, cut has deleted too.
Operated(e, m, cut, start, end) ==
    CASE Crashed(m) -> m
      [] e.vi.lc = "c" -> ToInput(cut)
      [] e.vi.lc = "d" -> cut
      [] e.vi.lc = "y" -> [Yank(m, start, end) EXCEPT !.index = e.index]
      [] OTHER -> m

\* Motions to the left delete from where they lead, motions to the right back from there.
MovedLeft(e, m, n, start, end) == Operated(e, m, DoDelKey(m, n), start, end)
MovedRight(e, m, n, start, end) == Operated(e, m, DoBackspace(m, n), start, end)

MoveHome(e) == MovedLeft(e, DoHomeKey(e), e.index, 0, e.index)
MoveEnd(e)  == LET m == DoEndKey(e) IN MovedRight(e, m, m.index - e.index, e.index, m.index)
\* The motions by words keep the old index in lcount.
Lcount(e, n) == [e EXCEPT !.vi.lcount = n]
MoveOn(e, j) ==
    LET m == DoRightKey(Lcount(e, e.index), j - e.index)
    IN  MovedRight(e, m, j - e.index, e.index, m.index)
MoveBack(e, j, start, end) ==
    MovedLeft(e, DoLeftKey(Lcount(e, e.index), e.index - j), e.index - j, start, end)

MoveLeft(e) ==
    LET n == One(e.vi.count)
        m == DoLeftKey(e, n)
    IN  MovedLeft(e, m, n, m.index, m.index + n)
MoveRight(e) ==
    LET n == One(e.vi.count)
        m == DoRightKey(e, n)
    IN  MovedRight(e, m, n, m.index - n, m.index)

\* The index is at the column when what is left to delete is computed.
MoveColumn(e) ==
    LET n == IF e.vi.count - 1 < 0 THEN 0 ELSE Min({e.vi.count - 1, e.end})
    IN  CASE n < e.index -> MovedLeft(e, DoLeftKey(e, e.index - n), 0, n, n + n)
          [] n > e.index -> MovedRight(e, DoRightKey(e, n - e.index), 0, 0, n)
          [] OTHER -> e

MoveNonBlank(e) ==
    LET m == [e EXCEPT !.index = Right(e, 0, TRUE)]
    IN  MovedLeft(e, m, e.index - m.index, m.index, e.index)

Motion(e, k) ==
    LET m == CASE k \in {"0", "^"} -> MoveHome(e)
               [] k = "$" -> MoveEnd(e)
               [] k = "h" -> MoveLeft(e)
               [] k = "l" -> MoveRight(e)
               [] k = "b" -> MoveBack(e, WordBack(e), e.index, WordBack(e))
               [] k = "B" -> MoveBack(e, BigWordBack(e), BigWordBack(e), e.index)
               [] k = "w" -> MoveOn(e, WordOn(e))
               [] k = "W" -> MoveOn(e, BigWordOn(e))
               [] k \in {"e", "E"} -> MoveOn(e, WordEnd(e, k))
               [] k = "|" -> MoveColumn(e)
               [] k = "[H" -> MoveNonBlank(e)
    IN  Count(m, 0)

\* 0 is a digit of a count that has one, whatever operator waits.
DigitKey(e, d) == IF d = 0 /\ e.vi.count = 0 THEN Motion(e, "0") ELSE Count(e, e.vi.count * 10 + d)

FindKey(e, k, c) ==
    LET m == FindChar(e, k, c, e.vi.count)
        f == IF k \in {"t", "f"} THEN MovedRight(e, m, m.index - e.index, e.index, m.index)
             ELSE MovedLeft(e, m, e.index - m.index, m.index, e.index)
    IN  IF f.vi.mode # "command" THEN f
        ELSE [f EXCEPT !.vi.lc = k, !.vi.lc2 = c, !.vi.lcount = e.vi.count, !.vi.count = 0]

\* ; and , go as often as the count says.
FindKeyAgain(e, inverse) ==
    LET k == IF inverse THEN L!Opposite[e.vi.lc] ELSE e.vi.lc
        Again(m, i) == IF Crashed(m) THEN m ELSE FindChar(m, k, e.vi.lc2, e.vi.lcount)
    IN  Count(IF e.vi.lc \notin DOMAIN L!Opposite THEN e
              ELSE FoldLeft(Again, e, [i \in 1..One(e.vi.count) |-> i]), 0)

Balance(e) ==
    Count(CASE e.buf[e.index] = "(" -> FindNext(e, "f", ")", 0)
            [] e.buf[e.index] = ")" -> FindPrev(e, "F", "(", 0)
            [] OTHER -> FindBrace(e), 0)

OperatorKey(e, k) ==
    CASE e.vi.lc # k -> LastWas(e, k)
      [] k = "c" -> ToInput(DoKillKey(e))
      [] k = "d" -> LastWas(DoKillKey(e), "")
      [] k = "y" -> LastWas(Yank(e, 0, e.end), "")

\* while(count--) leaves -1, or what is left when the end of the line is reached.
Overwritten(e, new) ==
    LET n == One(e.vi.count)
        k == IF n < 0 THEN e.end - e.index ELSE Min({n, e.end - e.index})
        m == [e EXCEPT !.buf = [i \in Cells |-> IF i \in e.index..(e.index + k - 1)
                                                THEN new[i] ELSE e.buf[i]],
                       !.index = @ + k, !.vi.lcount = n]
    IN  Count(m, n - k - 1)

Pasted(e, after) ==
    LET n == One(e.vi.count)
        Paste(m, i) == IF Crashed(m) THEN m
                       ELSE InsertHere(IF after THEN DoRightKey(m, 1) ELSE m, m.savebuf[1])
    IN  IF n < 0 \/ e.savebuf = NULL THEN Crash(e)
        ELSE Count([FoldLeft(Paste, e, [i \in 1..n |-> i]) EXCEPT !.vi.lcount = n], -1)

CutOff(e) == [e EXCEPT !.buf[e.index] = NUL, !.end = e.index]

ChangeKey(e, k, c) ==
    LET m == CASE k = "x" -> Count(DoDelKey(e, 1), 0)
               [] k = "X" -> Count(DoBackspace(e, 1), 0)
               [] k = "D" -> Count(CutOff(e), 0)
               [] k = "P" -> Pasted(e, FALSE)
               [] k = "p" -> Pasted(e, TRUE)
               [] k = "r" -> Overwritten(e, [i \in Cells |-> c])
               [] k = "~" -> Overwritten(e, [i \in Cells |-> L!Swapped(e.buf[i])])
    IN  LastWas(m, k)

\* . with lc and lcount; r asks for a character again.
Again(e, c) ==
    LET m == Count(e, e.vi.lcount)
    IN  IF e.vi.lc \in {"x", "X", "D", "P", "p", "r", "~"} THEN ChangeKey(m, e.vi.lc, c) ELSE m

InputKey(e, k) ==
    LET n == Min({One(e.vi.count), e.end - e.index})
    IN  ToInput(CASE k \in {"i", "R"} -> e
                  [] k = "I" -> DoHomeKey(e)
                  [] k = "a" -> DoRightKey(e, 1)
                  [] k = "A" -> DoEndKey(e)
                  [] k = "C" -> CutOff(e)
                  [] k = "S" -> DoKillKey(e)
                  [] k = "s" -> DoDelKey(e, n))

\* j, k, + and - keep the count.
FetchKey(e, k) ==
    LET n == One(e.vi.count)
        g == IF e.vi.count = 0 THEN -1 ELSE e.vi.count - e.hi
    IN  CASE k \in {"j", "+"} -> Count(DoDownKey(e, n), n)
          [] k \in {"k", "-"} -> Count(DoUpKey(e, n), n)
          [] k = "G" -> Count(IF g < 0 THEN DoUpKey(e, -g)
                              ELSE IF g > 0 THEN DoDownKey(e, g) ELSE e, 0)
          [] k = "Up" -> DoUpKey(e, 1)
          [] k = "Down" -> DoDownKey(e, 1)

\* / and ?, and n and N for the last pattern.
Searched(e, s, hooked, back) ==
    LET i == SearchHistory(e, s, hooked, back)
    IN  CASE i = -1 -> Count(e, -1)
          [] back -> Count(DoUpKey(e, e.hi - i), 0)
          [] OTHER -> Count(DoDownKey(e, i - e.hi), 0)
\* Nothing behind ^ is the last pattern, where there is one; without the ^ the newline
\* is the pattern's first character, and more are waited for.
SearchKey(e, s, hooked, back) ==
    LET p == IF s = <<>> THEN e.vi.lstring[1] ELSE s
        m == Searched(e, p, hooked, back)
    IN  CASE s = <<>> /\ ~hooked -> [e EXCEPT !.vi.mode = "pattern", !.vi.count = 1]
          [] s = <<>> /\ hooked /\ e.vi.lstring = NULL -> Crash(e)
          [] OTHER -> IF m.vi.count = -1 THEN m ELSE [m EXCEPT !.vi.lstring = <<p>>]
SearchKeyAgain(e, back) ==
    IF e.vi.lstring = NULL THEN e ELSE Searched(e, e.vi.lstring[1], FALSE, back)

\* The count-th word of s, or the last one.
WordOf(e, s) ==
    LET h == Filled(e, s)
        Behind(i, k) == Right(h, Right(h, i, TRUE), FALSE)
        start == FoldLeft(Behind, 0, [k \in 1..(e.vi.count - 1) |-> k])
        last  == Left(h, h.end - 1, TRUE)
        first == Left(h, last, FALSE)
    IN  IF e.vi.count # 0
        THEN SubSeq(s, Right(h, start, TRUE) + 1, Behind(start, 0))
        ELSE SubSeq(s, IF first = 0 THEN 1 ELSE first + 2, last + 1)

LastWordKey(e) ==
    LET w == WordOf(e, EnteredLines[e.hi])
    IN  IF e.hi <= 0 THEN e
        ELSE ToInput(IF w = <<>> THEN e ELSE InsertHere(DoInsert(DoEndKey(e), " "), w))

\* #: the index is 0 only without blanks in front; all #s at the beginning go.
CommentKey(e) ==
    LET n == Right(e, 0, TRUE)
        marks == Min({i \in Cells : e.buf[i] # "#"})
        at0 == [e EXCEPT !.index = 0]
        m == IF n # 0 \/ e.end < 2
             THEN [e EXCEPT !.index = IF n < e.end THEN n + n ELSE n]
             ELSE DoInsert(at0, "#")
        a == DoInsert([m EXCEPT !.index = Max({@, m.end})], "\n")
    IN  IF e.buf[n] = "#"
        THEN LastWas(Count([(IF n = 0 THEN DoDelKey(at0, marks) ELSE e) EXCEPT !.index = 0], 0), "")
        ELSE [a EXCEPT !.vi = [InputMode EXCEPT !.mode = "done"]]
-----------------------------------------------------------------------------
\* Keys in the input mode: read_cmd().

EraseWord(e) ==
    LET P == {i \in 1..(e.index - 1) : e.buf[i] \in L!Stops}
        z == IF P = {} THEN 0 ELSE Max(P) + 1
    IN  IF e.index = 0 \/ z = e.index THEN e
        ELSE [e EXCEPT !.buf = Copied(@, z, Str(@, e.index)),
                       !.index = z, !.end = @ - (e.index - z)]

CtrlLeft(e) ==
    LET i == IF Space(e.buf[e.index - 1]) THEN e.index - 1 ELSE e.index
        blank == Space(e.buf[i]) \/ e.buf[i] = NUL
        j == IF blank THEN Left(e, Left(e, i, TRUE), FALSE) ELSE Left(e, Left(e, i, FALSE), TRUE)
    IN  IF e.index = 0 THEN e ELSE DoLeftKey(e, e.index - (IF Space(e.buf[j]) THEN j + 1 ELSE j))

CtrlRight(e) ==
    IF e.index >= e.end THEN e
    ELSE DoRightKey(e, Right(e, Right(e, e.index, TRUE), FALSE) - e.index)

EditKey(e, k) ==
    CASE k = "Backspace" -> DoBackspace(e, 1)
      [] k = "Del" -> DoDelKey(e, 1)
      [] k = "Kill" -> DoKillKey(e)
      [] k = "EraseWord" -> EraseWord(e)
      [] k = "Left" -> DoLeftKey(e, 1)
      [] k = "Right" -> DoRightKey(e, 1)
      [] k = "Home" -> DoHomeKey(e)
      [] k = "End" -> DoEndKey(e)
      [] k = "CtrlLeft" -> CtrlLeft(e)
      [] k = "CtrlRight" -> CtrlRight(e)
      [] k = "Ins" -> [e EXCEPT !.insert = ~@]

\* The command line is complete: a newline ends it.
Finished(e) ==
    [e EXCEPT !.buf[e.end] = "\n", !.buf[e.end + 1] = NUL, !.vi = [InputMode EXCEPT !.mode = "done"]]
CommandMode(buf) == [InputMode EXCEPT !.mode = "command", !.backup = <<Str(buf, 0)>>]
EscapeKey(e) == [e EXCEPT !.vi = CommandMode(e.buf)]
Undo(e) == Filled(e, e.vi.backup[1])
YankEndKey(e) == LastWas(Yank(e, e.index, e.end), "Y")
-----------------------------------------------------------------------------
Motions == {"0", "^", "$", "h", "l", "b", "B", "w", "W", "e", "E", "|", "[H"}
Finds == {"f", "F", "t", "T"}
CountKeys == {"0", "h", "l", "|", "P", "p", "r", "~", "s", "j", "k", "G", "_", ";", ","}
           \cup Finds

At(l, p) == IF p \in 0..(L!Size(l) - 1) THEN l.text[p + 1] ELSE NUL

\* The habits that key k, with character c, is an instance of.
HabitsOf(k, c) ==
    LET l == line
        cur == l.cur
        size == L!Size(l)
        again == k = "."
        pasted == IF again THEN l.last[1] ELSE k
        n == IF again THEN l.last[2] ELSE L!Times(l)
        blankFirst == At(l, 0) = " "
        Is(h) ==
          CASE h = "operator" ->
                 vi.lc \in {"c", "d", "y"} /\ l.op = "" /\ k \in Motions \cup Finds \cup {vi.lc}
            [] h = "count" -> vi.count # l.n /\ k \in CountKeys \cup {"digit"}
            [] h = "ignored" ->
                 l.n > 1 /\ k \in {"w", "W", "b", "B", "e", "E", "x", "X"} \cup Finds
            [] h = "beyond" ->
                 \/ k = "h" /\ n > cur /\ (cur > 0 \/ l.op # "")
                 \/ k = "l" /\ n > size - cur /\ (cur < size \/ l.op # "")
            [] h = "words" ->
                 \/ k = "w" /\ At(l, cur) # " " /\ (cur < size \/ l.op # "")
                 \/ k = "b" /\ cur > 0 /\ ~(L!InWord(l, cur - 1) /\ At(l, cur) # " ")
                 \/ k = "e" /\ (cur \in L!Lasts(l) \/ \A p \in L!Lasts(l) : p < cur)
                 \/ k = "B" /\ cur = size /\ L!InWord(l, cur - 1)
            [] h = "till" ->
                 \/ k = "T"
                 \/ k = "t" /\ L!Nth(l, "f", c, 1) = cur
                 \/ k \in {";", ","} /\ vi.lc \in {"t", "T"}
            [] h = "column" ->
                 \/ l.op # "" /\ k \in {"|", "[H", "%"}
                 \/ l.op = "y" /\ k = "b"
            [] h = "inside" ->
                 /\ pasted \in {"P", "p"}
                 /\ \/ savebuf = NULL
                    \/ pasted = "P" /\ cur < size /\ savebuf # <<<<>>>>
                    \/ pasted = "p" /\ cur < size - 1 /\ savebuf # <<<<>>>>
                    \/ pasted = "p" /\ cur < size /\ n > 1
            [] h = "replace" -> k = "R"
            [] h = "comment" -> k = "#" /\ (blankFirst \/ size < 2 \/ insert)
            [] h = "overtype" -> k = "type" /\ insert /\ cur = size
            [] h = "forgotten" ->
                 \/ k \in {";", ","} /\ (l.op # "" \/ (l.find # <<>> /\ vi.lc # l.find[1]))
                 \/ k = "." /\ (vi.lc # l.last[1] \/ vi.lcount # n)
            [] h = "fetch" ->
                 \/ k = "G"
                 \/ k \in {"j", "Down", "?"} /\ size = 0
                 \/ k \in {"n", "N"} /\ l.pattern # <<>>
                    /\ (vi.lstring # <<l.pattern[1]>> \/ ~l.pattern[2] \/ size = 0)
            [] h = "empty" ->
                 k \in {"/", "?"} /\ c # NUL
                    /\ (c = "Enter" \/ l.pattern = <<>> \/ vi.lstring # <<l.pattern[1]>>)
            [] h = "ctrlLeft" ->
                 \/ k = "CtrlLeft" /\ cur > 0 /\ (blankFirst \/ (L!InWord(l, cur - 1) /\ L!InWord(l, cur)))
                 \/ k = "EraseWord" /\ cur > 0 /\ {At(l, 0), At(l, cur - 1)} \cap L!Stops # {}
    IN  {h \in Clumsiness : Is(h)}

\* Key k does e to the buffer and l to the line.
Press(k, c, e, l) ==
    /\ keys < MaxKeys
    /\ HabitsOf(k, c) \subseteq Clumsy
    /\ L!Size(l) <= MaxLine
    /\ cmdbuf' = e.buf /\ cmdbuf_index' = e.index /\ cmdbuf_end' = e.end /\ insert' = e.insert
    /\ vi' = e.vi /\ savebuf' = e.savebuf /\ cmd_history_index' = e.hi
    /\ line' = l
    /\ keys' = keys + 1

\* A line is typed, by a user who may then have pressed Esc.
Init ==
    \E t \in TypedLines, stale \in {NUL, "b"}, escape \in BOOLEAN : \E c \in 0..Len(t) :
        /\ cmdbuf = Copied([i \in Cells |-> stale], 0, t)
        /\ cmdbuf_index = c
        /\ cmdbuf_end = Len(t)
        /\ insert = FALSE
        /\ vi = IF escape THEN CommandMode(cmdbuf) ELSE InputMode
        /\ savebuf = NULL
        /\ cmd_history_index = Len(EnteredLines)
        /\ line = IF escape THEN L!Escape(L!Fresh(t, c)) ELSE L!Fresh(t, c)
        /\ keys = 0

InInput == vi.mode = "input"
InCommand == vi.mode = "command"

Type(c) == InInput /\ Press("type", c, DoInsert(Now, c), L!Type(line, c))
Edit(k) == InInput /\ Press(k, NUL, EditKey(Now, k), L!Key(line, k))
Browse(k) ==
    /\ InInput \/ InCommand
    /\ Press(k, NUL, FetchKey(Now, k), IF k = "Up" THEN L!Done(L!Up(line, 1)) ELSE L!Done(L!Down(line, 1)))
Enter == (InInput \/ InCommand) /\ Press("Enter", NUL, Finished(Now), L!Accepted(line))
Escape == InInput /\ Press("Escape", NUL, EscapeKey(Now), L!Escape(line))

Digit(d) ==
    /\ InCommand /\ (d = 0 => line.n # 0)
    /\ Press("digit", NUL, DigitKey(Now, d), [line EXCEPT !.n = @ * 10 + d])
Move(k) ==
    /\ InCommand /\ (k = "0" => line.n = 0)
    /\ Press(k, NUL, IF k = "0" THEN DigitKey(Now, 0) ELSE Motion(Now, k),
             L!Reached(line, L!Target(line, k)))
Find(k, c) == InCommand /\ Press(k, c, FindKey(Now, k, c), L!Find(line, k, c))
FindAgain(k) ==
    InCommand /\ Press(k, NUL, FindKeyAgain(Now, k = ","), L!FindAgain(line, k = ","))
Brace == InCommand /\ Press("%", NUL, Balance(Now), L!Reached(line, L!Partner(line)))
Operator(k) == InCommand /\ Press(k, NUL, OperatorKey(Now, k), L!Operator(line, k))
Change(k, c) == InCommand /\ Press(k, c, ChangeKey(Now, k, c), L!Change(line, k, c))
Repeat(c) ==
    /\ InCommand /\ line.last # <<>>
    /\ Press(".", c, Again(Now, c), L!Change([line EXCEPT !.n = line.last[2]], line.last[1], c))
UndoAll == InCommand /\ Press("U", NUL, Undo(Now), L!Undo(line))
YankEnd == InCommand /\ Press("Y", NUL, YankEndKey(Now), L!YankEnd(line))
BackToInput(k) == InCommand /\ Press(k, NUL, InputKey(Now, k), L!ToInput(line, k))
Fetch(k) ==
    /\ InCommand
    /\ Press(k, NUL, FetchKey(Now, k),
             L!Done(CASE k = "k" -> L!Up(line, L!Times(line))
                      [] k = "j" -> L!Down(line, L!Times(line))
                      [] k = "G" -> L!Fetched(line)))
\* A pattern of no characters is typed as Enter, or as ^ and Enter.
Search(s, hooked, k) ==
    /\ InCommand
    /\ Press(k, IF s # <<>> THEN NUL ELSE IF hooked THEN "^" ELSE "Enter",
             SearchKey(Now, s, hooked, k = "/"), L!Search(line, s, hooked, k = "/"))
SearchAgain(k) ==
    InCommand /\ Press(k, NUL, SearchKeyAgain(Now, k = "n"), L!SearchAgain(line, k = "N"))
\* The line is being run, or the bound is reached.
Rest == (vi.mode = "done" \/ keys = MaxKeys) /\ UNCHANGED vars

LastWord == InCommand /\ Press("_", NUL, LastWordKey(Now), L!LastWord(line))
Comment == InCommand /\ Press("#", NUL, CommentKey(Now), L!Comment(line))

Next ==
    \/ \E c \in Chars : Type(c) \/ Repeat(c)
    \/ \E k \in {"Backspace", "Del", "Kill", "EraseWord", "Left", "Right", "Home", "End",
               "CtrlLeft", "CtrlRight", "Ins"} : Edit(k)
    \/ \E k \in {"Up", "Down"} : Browse(k)
    \/ Enter \/ Escape
    \/ \E d \in 0..3 : Digit(d)
    \/ \E k \in Motions : Move(k)
    \/ \E k \in Finds, c \in Chars : Find(k, c)
    \/ \E k \in {";", ","} : FindAgain(k)
    \/ Brace
    \/ \E k \in {"c", "d", "y"} : Operator(k)
    \/ \E k \in {"x", "X", "D", "P", "p", "~"} : Change(k, NUL)
    \/ \E c \in Chars : Change("r", c)
    \/ UndoAll \/ YankEnd
    \/ \E k \in {"i", "I", "a", "A", "C", "S", "s", "R"} : BackToInput(k)
    \/ \E k \in {"j", "k", "G"} : Fetch(k)
    \/ \E s \in Patterns, hooked \in BOOLEAN, k \in {"/", "?"} : Search(s, hooked, k)
    \/ \E k \in {"n", "N"} : SearchAgain(k)
    \/ LastWord \/ Comment
    \/ Rest

Spec == Init /\ [][Next]_vars
-----------------------------------------------------------------------------
\* What the shell reads of a line that was handed over.
Handed == LET s == Str(cmdbuf, 0)
          IN  SubSeq(s, 1, Min({i \in DOMAIN s : s[i] = "\n"} \cup {Len(s) + 1}) - 1)

\* The buffer holds the line its keys make, with the cursor where they put it; what
\* was yanked is the text the motion went over; and the shell gets that line.
AsTyped ==
    /\ vi.mode = line.mode
    /\ IF vi.mode = "done" THEN Handed = line.text
       ELSE /\ Str(cmdbuf, 0) = line.text /\ cmdbuf_end = Len(line.text)
            /\ cmdbuf_index = line.cur
            /\ insert = line.over
            /\ (IF savebuf = NULL THEN <<>> ELSE savebuf[1]) = line.saved
            /\ cmd_history_index = line.hi
=============================================================================
