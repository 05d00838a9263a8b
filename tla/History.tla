------------------------------ MODULE History ------------------------------
(***************************************************************************)
(* The command history (builtins/history.c): the list of an interactive    *)
(* shell, the file it is loaded from and flushed to at exit, and the       *)
(* builtins that change either.  The shell knows by two counters which     *)
(* entries are not in the file: hist_file_count entries were loaded, and   *)
(* hist_cmds_this_session were added.  Other shells use the same file.     *)
(***************************************************************************)
EXTENDS Integers, Sequences, SequencesExt

CONSTANTS
    Commands,   \* command lines: <<all but the last character, the last one>>
    HISTSIZE, HISTFILESIZE,
    Hasty,      \* what users do that goes wrong, see Haste
    MaxEntries  \* bound: entries of the list and of the file

Haste ==
    {"similar",      \* a command that differs from another in its last character only
     "erases",       \* an entry that came from the file is removed
     "rereads",      \* history -r with commands that are not yet saved
     "writes",       \* history -w with such commands
     "otherFile",    \* history -a FILE
     "failedWrite",  \* history -a, or the exit, when $HISTFILE is unset or cannot be opened
     "fullFile"}     \* more entries than $HISTSIZE or $HISTFILESIZE

VARIABLES
    cmd_history,            \* entries; own: typed in this session, not in the file
    hist_file_count,
    hist_cmds_this_session,
    file,                   \* $HISTFILE
    histappend              \* the option

vars == <<cmd_history, hist_file_count, hist_cmds_this_session, file, histappend>>

Entry(c, own) == [cmd |-> c, own |-> own]
Lines(h) == [i \in DOMAIN h |-> h[i].cmd]
Loaded(f) == [i \in DOMAIN f |-> Entry(f[i], FALSE)]
Own == {i \in DOMAIN cmd_history : cmd_history[i].own}

\* trunc_history_file() keeps the first entries.
Truncated(f) == IF Len(f) > HISTFILESIZE THEN SubSeq(f, 1, HISTFILESIZE) ELSE f

\* load_history_list()
Session(f) ==
    /\ file' = Truncated(f)
    /\ cmd_history' = Loaded(Truncated(f))
    /\ hist_file_count' = Len(Truncated(f))
    /\ hist_cmds_this_session' = 0

Init ==
    /\ file \in UNION {[1..n -> Commands] : n \in 0..1}
    /\ cmd_history = Loaded(file)
    /\ hist_file_count = Len(file)
    /\ hist_cmds_this_session = 0
    /\ histappend \in BOOLEAN

List == <<cmd_history, hist_file_count, hist_cmds_this_session>>

\* same_history_cmds() does not compare the last characters.
Same(c, d) == c[1] = d[1]

RemovedUncounted(h, i) == [list |-> RemoveAt(h.list, i), session |-> h.session]

\* remove_history_cmd() of entry i, on [list, session].
Removed(h, i) ==
    [list |-> RemoveAt(h.list, i),
     session |-> IF i > hist_file_count THEN h.session - 1 ELSE h.session]

\* Entries equal to c, from the newest to the oldest: after[k] is without those of
\* the newest k.
Erased(h, c) ==
    LET n == Len(h.list)
        after[k \in 0..n] ==
            IF k = 0 THEN h
            ELSE IF Same(h.list[n + 1 - k].cmd, c) THEN Removed(after[k - 1], n + 1 - k)
            ELSE after[k - 1]
    IN  after[n]

Recorded == [list |-> cmd_history, session |-> hist_cmds_this_session]
-----------------------------------------------------------------------------
\* save_to_history(), for a line that $HISTIGNORE does not match.
SaveToHistory(c, HISTCONTROL) ==
    LET h   == IF HISTCONTROL = "erasedups" THEN Erased(Recorded, c) ELSE Recorded
        dup == /\ HISTCONTROL = "ignoredups" /\ cmd_history # <<>>
               /\ Same(Last(cmd_history).cmd, c)
    IN  /\ ~dup
        /\ Len(h.list) < MaxEntries
        /\ \/ "similar" \in Hasty
           \/ \A i \in DOMAIN cmd_history : Same(cmd_history[i].cmd, c) => cmd_history[i].cmd = c
        /\ \/ "erases" \in Hasty
           \/ HISTCONTROL # "erasedups"
           \/ \A i \in DOMAIN cmd_history : Same(cmd_history[i].cmd, c) => i \in Own
        /\ cmd_history' = Append(h.list, Entry(c, TRUE))
        /\ hist_cmds_this_session' = h.session + 1
    /\ UNCHANGED <<hist_file_count, file, histappend>>

\* history -d i-j, which leaves entry j, and history -c.
ClearHistory(i, j) ==
    LET k == Len(cmd_history)
        n == j - i
        all == i = 1 /\ j = k + 1
    IN  /\ 1 <= i /\ i < j /\ j <= k + 1
        /\ "erases" \in Hasty \/ i..(j-1) \subseteq Own
        /\ cmd_history' = SubSeq(cmd_history, 1, i - 1) \o SubSeq(cmd_history, j, k)
        /\ hist_cmds_this_session' =
              IF all THEN 0
              ELSE IF i > hist_file_count THEN hist_cmds_this_session - n
              ELSE IF j > hist_file_count THEN hist_cmds_this_session - (j - 1 - hist_file_count)
              ELSE hist_cmds_this_session
    /\ UNCHANGED <<hist_file_count, file, histappend>>

\* fc removes the entry of the fc command itself.
RemoveNewest ==
    LET h == Removed(Recorded, Len(cmd_history))
    IN  /\ cmd_history # <<>>
        /\ "erases" \in Hasty \/ Last(cmd_history).own
        /\ cmd_history' = h.list /\ hist_cmds_this_session' = h.session
        /\ UNCHANGED <<hist_file_count, file, histappend>>

\* history -r, and -n, which is the same.
ReadHistoryFile ==
    /\ "rereads" \in Hasty \/ Own = {}
    /\ Len(cmd_history) + Len(file) <= MaxEntries
    /\ cmd_history' = cmd_history \o Loaded(file)
    /\ hist_file_count' = Len(cmd_history') /\ hist_cmds_this_session' = 0
    /\ UNCHANGED <<file, histappend>>

Forgotten(h) == [i \in DOMAIN h |-> [h[i] EXCEPT !.own = FALSE]]

Written(from) == Lines(SubSeq(cmd_history, from + 1, Len(cmd_history)))

\* Where commands that are written go: not to $HISTFILE if it is another file that is
\* named, or if it cannot be opened.
Outlets == {"HISTFILE"} \cup (Hasty \cap {"otherFile", "failedWrite"})

\* history -a: the counters change wherever the commands went.
AppendHistory(outlet) ==
    /\ hist_cmds_this_session # 0
    /\ Len(file) + Len(Written(hist_file_count)) <= MaxEntries
    /\ hist_file_count' = Len(cmd_history) /\ hist_cmds_this_session' = 0
    /\ IF outlet = "HISTFILE"
       THEN /\ file' = file \o Written(hist_file_count)
            /\ cmd_history' = Forgotten(cmd_history)
       ELSE UNCHANGED <<file, cmd_history>>
    /\ UNCHANGED histappend

\* history -w: the counters stay. To another file, or in vain, it changes nothing here.
WriteHistory ==
    /\ "writes" \in Hasty \/ Own = {}
    /\ file' = Written(0)
    /\ cmd_history' = Forgotten(cmd_history)
    /\ UNCHANGED <<hist_file_count, hist_cmds_this_session, histappend>>

FlushedAlone ==
    IF hist_cmds_this_session = 0 THEN file
    ELSE Written(IF histappend THEN hist_file_count ELSE 0)

\* flush_history() at exit: the last HISTSIZE entries, or one more.
Flushed ==
    LET start == IF histappend THEN hist_file_count ELSE 0
        from  == IF Len(cmd_history) - 1 - start > HISTSIZE THEN Len(cmd_history) - HISTSIZE ELSE start
    IN  IF hist_cmds_this_session = 0 THEN file
        ELSE IF histappend THEN file \o Written(from) ELSE Written(from)

\* The shell exits and another is started.
Exit(outlet) ==
    /\ outlet # "otherFile"
    /\ \/ "fullFile" \in Hasty
       \/ Len(Flushed) <= HISTFILESIZE /\ Len(cmd_history) <= HISTSIZE
    /\ Len(Flushed) <= MaxEntries
    /\ Session(IF outlet = "HISTFILE" THEN Truncated(Flushed) ELSE file)
    /\ histappend' \in BOOLEAN

\* Another shell with histappend exits.
OtherShell(c) ==
    /\ Len(file) < MaxEntries
    /\ "fullFile" \in Hasty \/ Len(file) < HISTFILESIZE
    /\ file' = Append(file, c)
    /\ UNCHANGED <<cmd_history, hist_file_count, hist_cmds_this_session, histappend>>

Next ==
    \/ \E c \in Commands, control \in {"", "ignoredups", "erasedups"} : SaveToHistory(c, control)
    \/ \E c \in Commands : OtherShell(c)
    \/ \E i, j \in 1..(MaxEntries + 1) : ClearHistory(i, j)
    \/ RemoveNewest \/ ReadHistoryFile \/ WriteHistory
    \/ \E outlet \in Outlets : AppendHistory(outlet) \/ Exit(outlet)

Spec == Init /\ [][Next]_vars
-----------------------------------------------------------------------------
\* The counters tell which entries the file does not have.
UnsavedKnown ==
    /\ \A i \in DOMAIN cmd_history : cmd_history[i].own <=> i > hist_file_count
    /\ hist_cmds_this_session = Len(cmd_history) - hist_file_count

\* The commands of this session that are in the list, in their order.
Typed ==
    LET t[k \in 0..Len(cmd_history)] ==
            IF k = 0 THEN <<>>
            ELSE IF cmd_history[k].own THEN Append(t[k - 1], cmd_history[k].cmd)
            ELSE t[k - 1]
    IN  t[Len(cmd_history)]

StepForgetsNothing ==
    /\ \A outlet \in Outlets :
          Exit(outlet) => /\ Own # {} => IsSuffix(Typed, file')
                          /\ histappend => IsPrefix(file, file')
    /\ \A c \in Commands, control \in {"ignoredups", "erasedups"} :
          SaveToHistory(c, control) =>
              \A i \in DOMAIN cmd_history :
                  Lines(cmd_history)[i] \in ToSet(Lines(cmd_history'))

\* A command that was typed is in the list or was removed, and what the shell
\* leaves in the file ends with the commands of its session.  With histappend, what
\* was in the file stays.
NothingForgotten == [][StepForgetsNothing]_vars
=============================================================================
