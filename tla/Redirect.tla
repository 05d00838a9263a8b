------------------------------ MODULE Redirect ------------------------------
(***************************************************************************)
(* Redirections (backend/redirect.c) of the commands that run in the       *)
(* shell's own process.  A command's list is prepared first and carried    *)
(* out then, descriptor by descriptor; the standard streams it replaces    *)
(* are duplicated to the lowest free descriptors (save_std()) and put back *)
(* when the command is done (restore_stds()).  Commands nest.              *)
(***************************************************************************)
EXTENDS Integers, Sequences, FiniteSets, SequencesExt

CONSTANTS
    Regular,       \* regular files
    Device,        \* any other file: a terminal, a pipe
    Redirs,        \* redirections that commands have, see Redirection
    Reckless,      \* what programs do that goes wrong, see Recklessness
    MaxDescriptor, \* the highest descriptor there may be
    MaxFrames,     \* bound: nested commands
    MaxExecs       \* bound: exec commands

Recklessness ==
    {"function",    \* a redirection on a function call
     "descriptor",  \* one of a descriptor above 2
     "failing",     \* a list for a compound command, or for exec, that fails half-way
     "invalid",     \* a list that goes on after an invalid descriptor
     "here",        \* a here-document for an external command, or not by itself
     "move",        \* >&n-
     "closedSource",\* >&n where n is closed
     "itself",      \* >&n of n, which takes the place of what was asked for n before
     "nestedEval",  \* eval in an eval
     "intoFile"}    \* a redirection while a standard stream is a regular file

Std == {1, 2}       \* the standard streams; 0 is like them
Descriptors == 1..MaxDescriptor

\* What a redirection does: it opens a file, closes its descriptor (>&-), makes
\* it a duplicate of another (>&n, >&n-) or a here-document, has an invalid number
\* ("wrong") or a file that cannot be opened ("missing").
Kinds == {"closed", "dup", "move", "here", "wrong", "missing"}
Redirection ==
    {r \in [fd : Descriptors, of : Descriptors \cup {0}, to : Kinds \cup Regular \cup {Device}] :
        r.of = 0 <=> r.to \notin {"dup", "move"}}

\* There are descriptors for what nested commands keep open.
Bounds ==
    /\ Redirs \subseteq Redirection /\ Reckless \subseteq Recklessness
    /\ Device \notin Regular /\ ({Device} \cup Regular) \cap (Kinds \cup {"none"}) = {}
    /\ MaxFrames \in Nat
    /\ MaxDescriptor \in Nat /\ MaxDescriptor >= 2 * MaxFrames + 10

VARIABLES
    fds,        \* the shell's descriptors: the open file of each, or "none"
    frames,     \* the commands with redirections that are being executed
    backup_fd,  \* duplicates of the standard streams for the EXIT trap, 0 if none
    execs,      \* how many exec commands were executed
    content,    \* what regular files hold
    written     \* what they should hold: output, if a command wrote to them after
                \* they were last opened

vars == <<fds, frames, backup_fd, execs, content, written>>

None == [s \in Std |-> 0]

\* parse_and_execute() duplicates the streams before the first command.
Init ==
    /\ fds = [d \in Descriptors |-> IF d \in Std \cup {3, 4} THEN Device ELSE "none"]
    /\ backup_fd = [s \in Std |-> s + 2]
    /\ frames = <<>> /\ execs = 0
    /\ content = [f \in Regular |-> "empty"] /\ written = content

Free(t) == {d \in Descriptors : t[d] = "none"}
Lowest(S) == CHOOSE d \in S : \A e \in S : d <= e

\* save_std(): 0 where no descriptor is left.
Saved(t, s) ==
    LET d == IF Free(t) = {} THEN 0 ELSE Lowest(Free(t))
    IN  [fds |-> IF d = 0 THEN t ELSE [t EXCEPT ![d] = t[s]], at |-> d]

SaveOutputOnly(st, j, do_savestd) ==
    IF ~do_savestd \/ j # 1 THEN st
    ELSE LET s == Saved(st.fds, j)
         IN  [st EXCEPT !.fds = s.fds, !.saved[j] = s.at]
SaveIfStd(st, j, do_savestd) ==
    IF ~do_savestd \/ j \notin Std THEN st
    ELSE LET s == Saved(st.fds, j)
         IN  [st EXCEPT !.fds = s.fds, !.saved[j] = s.at]

BackToKept(t, saved, s) == IF saved[s] = 0 THEN t ELSE [t EXCEPT ![s] = t[saved[s]]]

\* restore_stds(): dup2() and close(), in the order of the streams.
BackTo(t, saved, s) ==
    IF saved[s] = 0 THEN t ELSE [t EXCEPT ![s] = t[saved[s]], ![saved[s]] = "none"]
Restored(t, saved) == BackTo(BackTo(t, saved, 1), saved, 2)

EmptiedFirst(t, saved, c) == IF saved = None THEN c ELSE [f \in Regular |-> "empty"]

\* freopen(NULL, "w", stdout) opens the file anew, which empties it.
Emptied(t, saved, c) ==
    [f \in Regular |-> IF \E s \in Std : saved[s] # 0 /\ t[s] = f THEN "empty" ELSE c[f]]

\* redirect_prep_node() of each redirection.  A later one takes the slot of an
\* earlier one for the same descriptor; a here-document becomes an open file.
PrepNode(p, r) ==
    IF r.to = "wrong" THEN [p EXCEPT !.total = -1]
    ELSE LET here == r.to = "here"
             d    == IF Free(p.fds) = {} THEN 0 ELSE Lowest(Free(p.fds))
             r2   == IF here THEN [r EXCEPT !.to = "move", !.of = d] ELSE r
             same == {i \in DOMAIN p.slots : p.slots[i].fd = r.fd}
         IN  IF here /\ d = 0 THEN [p EXCEPT !.total = -1]
             ELSE [fds   |-> IF here THEN [p.fds EXCEPT ![d] = "here"] ELSE p.fds,
                   slots |-> IF same = {} THEN Append(p.slots, r2)
                             ELSE [i \in DOMAIN p.slots |-> IF i \in same THEN r2 ELSE p.slots[i]],
                   total |-> p.total + 1]

Prepared(t, list) ==
    LET p[i \in 0..Len(list)] == IF i = 0 THEN [fds |-> t, slots |-> <<>>, total |-> 0]
                                 ELSE PrepNode(p[i - 1], list[i])
    IN  p[Len(list)]

OpensIfThere(st, r, do_savestd) ==
    IF r.to = "missing" \/ Free(st.fds) = {} THEN st
    ELSE [SaveIfStd(st, r.fd, do_savestd) EXCEPT !.fds[r.fd] = r.to]

Opens(st, r, do_savestd) ==
    IF r.to = "missing" \/ Free(st.fds) = {} THEN [st EXCEPT !.ok = FALSE]
    ELSE LET d    == Lowest(Free(st.fds))
             open == [st EXCEPT !.fds[d] = r.to, !.emptied = @ \cup ({r.to} \cap Regular)]
             save == SaveIfStd(open, r.fd, do_savestd)
         IN  IF d = r.fd THEN save
             ELSE [save EXCEPT !.fds = [@ EXCEPT ![r.fd] = r.to, ![d] = "none"]]

\* dup2() of a closed descriptor fails, which nobody notices.
Duplicates(st, r, do_savestd) ==
    LET save == SaveIfStd(st, r.fd, do_savestd)
        dup  == IF save.fds[r.of] = "none" THEN save
                ELSE [save EXCEPT !.fds[r.fd] = save.fds[r.of]]
    IN  IF r.to = "move" THEN [dup EXCEPT !.fds[r.of] = "none"] ELSE dup

\* >&- of a standard stream opens /dev/null in its place.
Closes(st, r, do_savestd) ==
    LET save == SaveIfStd(st, r.fd, do_savestd)
    IN  [save EXCEPT !.fds[r.fd] = IF r.fd \in Std THEN Device ELSE "none"]

\* redirect_do() stops at the first failure.
DoOne(st, r, do_savestd) ==
    IF ~st.ok THEN st
    ELSE IF r.to \in {"dup", "move"} THEN Duplicates(st, r, do_savestd)
    ELSE IF r.to = "closed" THEN Closes(st, r, do_savestd)
    ELSE Opens(st, r, do_savestd)

Done(t, slots, do_savestd) ==
    LET st[i \in 0..Len(slots)] == IF i = 0 THEN [fds |-> t, saved |-> None, ok |-> TRUE, emptied |-> {}]
                                   ELSE DoOne(st[i - 1], slots[i], do_savestd)
    IN  st[Len(slots)]

\* The list of a simple command; total 0 after a failure means no list at all.
SimpleList(list, do_savestd) ==
    LET p == Prepared(fds, list)
    IN  IF p.total = -1 THEN [fds |-> p.fds, saved |-> None, ok |-> FALSE, emptied |-> {}]
        ELSE Done(p.fds, IF p.total = 0 THEN <<>> ELSE p.slots, do_savestd)

\* redirect_prep_and_do(), for compound commands, ends at the first invalid one.
CompoundList(list) ==
    LET wrong == {i \in DOMAIN list : list[i].to = "wrong"}
        p     == Prepared(fds, IF wrong = {} THEN list ELSE SubSeq(list, 1, Lowest(wrong) - 1))
    IN  IF wrong # {} \/ p.total = -1
        THEN [fds |-> p.fds, saved |-> None, ok |-> FALSE, emptied |-> {}]
        ELSE Done(p.fds, p.slots, TRUE)
-----------------------------------------------------------------------------
Lists == UNION {[1..n -> Redirs] : n \in 0..2}

Has(list, kinds) == \E i \in DOMAIN list : list[i].to \in kinds

\* The lists of programs that are not reckless.
Careful(list, kind) ==
    /\ "function" \in Reckless \/ kind # "function" \/ list = <<>>
    /\ "descriptor" \in Reckless \/ \A i \in DOMAIN list : list[i].fd \in Std
    /\ "invalid" \in Reckless \/ Len(list) < 2
          \/ ~(Has(list, {"wrong"}) /\ list[1].to \in {"wrong", "here"})
    /\ "here" \in Reckless \/ ~Has(list, {"here"}) \/ (kind # "external" /\ Len(list) = 1)
    /\ "move" \in Reckless \/ ~Has(list, {"move"})
    /\ "closedSource" \in Reckless \/ \A i \in DOMAIN list : list[i].of \in Std \cup {0}
    /\ "itself" \in Reckless \/ \A i \in DOMAIN list : list[i].of # list[i].fd
    /\ "intoFile" \in Reckless \/ kind = "exec" \/ list = <<>> \/ \A s \in Std : fds[s] \notin Regular

Opened(st, c) == [f \in Regular |-> IF f \in st.emptied THEN "empty" ELSE c[f]]

\* A builtin writes to its standard output and is done.
Builtin(list) ==
    LET st  == SimpleList(list, TRUE)
        out == st.fds[1]
        Put(c) == [f \in Regular |-> IF st.ok /\ f = out THEN "output" ELSE Opened(st, c)[f]]
    IN  /\ Careful(list, "builtin")
        /\ fds' = Restored(st.fds, st.saved)
        /\ content' = Emptied(fds', st.saved, Put(content))
        /\ written' = Put(written)
        /\ UNCHANGED <<frames, backup_fd, execs>>

\* Only the child of an external command carries its list out, but the shell
\* itself prepares it.
External(list) ==
    /\ Careful(list, "external")
    /\ fds' = Prepared(fds, list).fds
    /\ LET st == SimpleList(list, FALSE)
       IN  content' = Opened(st, content) /\ written' = Opened(st, written)
    /\ UNCHANGED <<frames, backup_fd, execs>>

\* exec without a command: the redirections stay.
Exec(list) ==
    LET st == SimpleList(list, FALSE)
    IN  /\ Careful(list, "exec")
        /\ "failing" \in Reckless \/ st.ok
        /\ execs < MaxExecs /\ execs' = execs + 1
        /\ fds' = st.fds
        /\ content' = Opened(st, content) /\ written' = Opened(st, written)
        /\ UNCHANGED <<frames, backup_fd>>

Entered(kind, st, backup) ==
    /\ Len(frames) < MaxFrames
    /\ frames' = Append(frames, [kind |-> kind, saved |-> st.saved])
    /\ backup_fd' = backup /\ UNCHANGED execs
    /\ content' = Opened(st, content) /\ written' = Opened(st, written)

\* A compound command, whose list is not undone when it fails half-way.
Compound(list) ==
    LET st == CompoundList(list)
    IN  /\ Careful(list, "compound")
        /\ "failing" \in Reckless \/ st.ok
        /\ fds' = st.fds
        /\ IF st.ok THEN Entered("compound", st, backup_fd)
           ELSE /\ content' = Opened(st, content) /\ written' = Opened(st, written)
                /\ UNCHANGED <<frames, backup_fd, execs>>

\* A function call is no builtin: its streams are not saved.
Function(list) ==
    LET st == SimpleList(list, FALSE)
    IN  /\ Careful(list, "function")
        /\ st.ok
        /\ fds' = st.fds
        /\ Entered("function", st, backup_fd)

\* eval runs a program of its own, which saves the streams in backup_fd again.
Eval(list) ==
    LET st == SimpleList(list, TRUE)
        s1 == Saved(st.fds, 1)
        s2 == Saved(s1.fds, 2)
    IN  /\ Careful(list, "eval")
        /\ "nestedEval" \in Reckless \/ \A i \in DOMAIN frames : frames[i].kind # "eval"
        /\ st.ok
        /\ fds' = s2.fds
        /\ Entered("eval", st, [s \in Std |-> IF s = 1 THEN s1.at ELSE s2.at])

\* The innermost command ends; eval discards the streams in backup_fd first.
Return ==
    LET top == frames[Len(frames)]
        t   == IF top.kind # "eval" THEN fds
               ELSE [d \in Descriptors |-> IF d \in {backup_fd[s] : s \in Std} THEN "none" ELSE fds[d]]
    IN  /\ frames # <<>>
        /\ frames' = SubSeq(frames, 1, Len(frames) - 1)
        /\ fds' = Restored(t, top.saved)
        /\ backup_fd' = IF top.kind = "eval" THEN None ELSE backup_fd
        /\ content' = Emptied(fds', top.saved, content)
        /\ UNCHANGED <<execs, written>>

Next ==
    \/ \E list \in Lists : \/ Builtin(list) \/ External(list) \/ Exec(list)
                          \/ Compound(list) \/ Function(list) \/ Eval(list)
    \/ Return

Spec == Init /\ [][Next]_vars
-----------------------------------------------------------------------------
TypeOK ==
    /\ fds \in [Descriptors -> {"none", "here", Device} \cup Regular]
    /\ \A s \in Std : backup_fd[s] # 0 => fds[backup_fd[s]] # "none"
    /\ \A i \in DOMAIN frames : \A s \in Std :
          frames[i].saved[s] # 0 => fds[frames[i].saved[s]] # "none"

\* The descriptors as they will be when only n of the commands are left.
After(n) ==
    LET t[k \in 0..(Len(frames) - n)] == IF k = 0 THEN fds
                                         ELSE Restored(t[k - 1], frames[Len(frames) + 1 - k].saved)
    IN  t[Len(frames) - n]

Returns == IF Len(frames') < Len(frames) THEN Len(frames') ELSE Len(frames)

StepReturnsStreams ==
    \A n \in 0..Returns : \A s \in Std :
        \/ After(n)'[s] = After(n)[s]
        \/ execs' > execs /\ \A i \in (n+1)..Len(frames) : frames[i].saved[s] = 0

\* Whatever a command does with its streams, the commands around it have theirs
\* when it is done; only exec changes them for good, and not those that a command
\* around it has redirected.
StreamsReturn == [][StepReturnsStreams]_vars

\* The streams a list asks for: each redirection in its turn.
Asked(t, r) ==
    CASE r.to = "dup"    -> [t EXCEPT ![r.fd] = t[r.of]]
      [] r.to = "move"   -> [t EXCEPT ![r.fd] = t[r.of], ![r.of] = "none"]
      [] r.to = "closed" -> [t EXCEPT ![r.fd] = Device]
      [] OTHER           -> [t EXCEPT ![r.fd] = r.to]
Meant(list) ==
    LET t[i \in 0..Len(list)] == IF i = 0 THEN fds ELSE Asked(t[i - 1], list[i]) IN t[Len(list)]

\* A builtin is executed with the streams its redirections ask for, or not at all.
AllOrNothing ==
    \A list \in Lists :
        LET st == SimpleList(list, TRUE)
        IN  Careful(list, "builtin") /\ st.ok => \A s \in Std : st.fds[s] = Meant(list)[s]

\* Descriptors that nothing will close.  An eval forgets the duplicates its
\* caller had for the EXIT trap; nothing else gets lost.
Lost == {d \in Descriptors \ Std : fds[d] # "none"}
            \ ({backup_fd[s] : s \in Std} \cup {frames[i].saved[s] : i \in DOMAIN frames, s \in Std})

FewLost == Cardinality(Lost) <= Cardinality(Std)

\* What a command has written to a file is there until the file is opened again.
OutputKept == \A f \in Regular : written[f] = "output" => content[f] = "output"
=============================================================================
