---------------------------- MODULE ShellState ----------------------------
(***************************************************************************)
(* The parts of the shell's state that share no variable: the tables of    *)
(* symbols, the streams, the traps, the history, the directory stack, the  *)
(* line being edited and the table of jobs.  A behaviour is one of one     *)
(* part, `part'; the variables of the others stay None.                    *)
(***************************************************************************)
EXTENDS Integers, Sequences, FiniteSets, TLC

CONSTANTS
    Names, Values, Args, Null, Param, Risky, MaxTables, MaxLowered,
    Regular, Device, Redirs, Reckless, MaxDescriptor, MaxFrames, MaxExecs,
    Signals, Touchy, MaxActive,
    Commands, HISTSIZE, HISTFILESIZE, Hasty, MaxEntries,
    Dirs, Rash, MaxNodes,
    EnteredLines, TypedLines, Chars, Patterns, Clumsy, MaxLine, MaxKeys,
    MaxPids, JobSize, MAX_JOBS, Lapses

VARIABLES
    part,
    symtab_stack, owners, symtab_level, levels, beat,
    fds, frames, backup_fd, execs, content, written,
    trap_table, executing_trap, pending_traps, waiting, active, arrived, owed,
    cmd_history, hist_file_count, hist_cmds_this_session, file, histappend,
    list, cwd,
    cmdbuf, cmdbuf_index, cmdbuf_end, insert, vi, savebuf, cmd_history_index, line, keys,
    slots, total_jobs, new, deadlist, at, job, job2, chunk, entry, proc, jobs

symbols   == <<symtab_stack, owners, symtab_level, levels, beat>>
streams   == <<fds, frames, backup_fd, execs, content, written>>
traps     == <<trap_table, executing_trap, pending_traps, waiting, active, arrived, owed>>
history   == <<cmd_history, hist_file_count, hist_cmds_this_session, file, histappend>>
directory == <<list, cwd>>
editing   == <<cmdbuf, cmdbuf_index, cmdbuf_end, insert, vi, savebuf, cmd_history_index, line, keys>>
racing    == <<slots, total_jobs, new, deadlist, at, job, job2, chunk, entry, proc, jobs>>
vars == <<part, symbols, streams, traps, history, directory, editing, racing>>

Tables      == INSTANCE SymtabStack
Streams     == INSTANCE Redirect
TrapTable   == INSTANCE Traps
CmdHistory  == INSTANCE History
Directories == INSTANCE DirStack
CommandLine == INSTANCE Editor
JobsTable   == INSTANCE TableRaces

ASSUME ShellStateAssumption ==
    /\ Risky \subseteq Tables!Risks
    /\ Null \notin Values /\ Args \subseteq Values /\ Param \notin Names
    /\ Streams!Bounds
    /\ Signals \subseteq 1 .. 31 /\ Touchy \subseteq TrapTable!Touchiness
    /\ Hasty \subseteq CmdHistory!Haste
    /\ HISTSIZE \in Nat \ {0} /\ HISTFILESIZE \in Nat \ {0} /\ MaxEntries \in Nat
    /\ Rash \subseteq Directories!Rashness
    /\ Clumsy \subseteq CommandLine!Clumsiness
    /\ Lapses \subseteq JobsTable!LapseNames
    /\ MaxPids \in Nat /\ JobSize \in Nat /\ MAX_JOBS \in Nat

None == "none"

\* The variables of a part in a behaviour of another one.
NoSymbols ==
    /\ symtab_stack = None /\ owners = None /\ beat = None
    /\ symtab_level = None /\ levels = None
NoStreams ==
    /\ fds = None /\ frames = None /\ backup_fd = None
    /\ execs = None /\ content = None /\ written = None
NoTraps ==
    /\ trap_table = None /\ executing_trap = None /\ pending_traps = None
    /\ waiting = None /\ active = None /\ arrived = None
    /\ owed = None
NoHistory ==
    /\ cmd_history = None /\ hist_file_count = None /\ hist_cmds_this_session = None
    /\ file = None /\ histappend = None
NoDirectory ==
    /\ list = None /\ cwd = None
NoLine ==
    /\ cmdbuf = None /\ cmdbuf_index = None /\ cmdbuf_end = None /\ insert = None
    /\ vi = None /\ savebuf = None /\ cmd_history_index = None
    /\ line = None /\ keys = None
NoTable ==
    /\ slots = None /\ total_jobs = None /\ new = None /\ deadlist = None
    /\ at = None /\ job = None /\ job2 = None /\ chunk = None /\ entry = None
    /\ proc = None /\ jobs = None

Init ==
    \/ /\ part = "symbols" /\ Tables!Init
       /\ NoStreams /\ NoTraps /\ NoHistory /\ NoDirectory /\ NoLine /\ NoTable
    \/ /\ part = "streams" /\ Streams!Init
       /\ NoSymbols /\ NoTraps /\ NoHistory /\ NoDirectory /\ NoLine /\ NoTable
    \/ /\ part = "traps" /\ TrapTable!Init
       /\ NoSymbols /\ NoStreams /\ NoHistory /\ NoDirectory /\ NoLine /\ NoTable
    \/ /\ part = "history" /\ CmdHistory!Init
       /\ NoSymbols /\ NoStreams /\ NoTraps /\ NoDirectory /\ NoLine /\ NoTable
    \/ /\ part = "directory" /\ Directories!Init
       /\ NoSymbols /\ NoStreams /\ NoTraps /\ NoHistory /\ NoLine /\ NoTable
    \/ /\ part = "line" /\ CommandLine!Init
       /\ NoSymbols /\ NoStreams /\ NoTraps /\ NoHistory /\ NoDirectory /\ NoTable
    \/ /\ part = "table" /\ JobsTable!Init
       /\ NoSymbols /\ NoStreams /\ NoTraps /\ NoHistory /\ NoDirectory /\ NoLine

Next ==
    /\ UNCHANGED part
    /\ \/ /\ part = "symbols" /\ Tables!Next
          /\ UNCHANGED <<streams, traps, history, directory, editing, racing>>
       \/ /\ part = "streams" /\ Streams!Next
          /\ UNCHANGED <<symbols, traps, history, directory, editing, racing>>
       \/ /\ part = "traps" /\ TrapTable!Next
          /\ UNCHANGED <<symbols, streams, history, directory, editing, racing>>
       \/ /\ part = "history" /\ CmdHistory!Next
          /\ UNCHANGED <<symbols, streams, traps, directory, editing, racing>>
       \/ /\ part = "directory" /\ Directories!Next
          /\ UNCHANGED <<symbols, streams, traps, history, editing, racing>>
       \/ /\ part = "line" /\ CommandLine!Next
          /\ UNCHANGED <<symbols, streams, traps, history, directory, racing>>
       \/ /\ part = "table" /\ JobsTable!Next
          /\ UNCHANGED <<symbols, streams, traps, history, directory, editing>>

Spec == Init /\ [][Next]_vars
-----------------------------------------------------------------------------
\* The type invariants of the parts.
TypeOK ==
    /\ part = "symbols" => Tables!TypeOK
    /\ part = "streams" => Streams!TypeOK
    /\ part = "traps" => TrapTable!TypeOK
    /\ part = "directory" => Directories!TypeOK

\* Whatever copies of a variable lie in the tables of do_simple_command(), every
\* command changes the variables as dynamic scoping says.
Scoped ==
    /\ part = "symbols" => Tables!S!Init
    /\ [][part = "symbols" => Tables!StepIsScoped]_vars

\* Whatever a command does with its streams, the commands around it have theirs
\* when it is done: redirect_do() and restore_stds() undo each other.
StreamsReturn == [][part = "streams" => Streams!StepReturnsStreams]_vars

\* No descriptor that the shell opens stays open without anybody knowing it.
FewLost == part = "streams" => Streams!FewLost

\* What a command has written to a file is there until the file is opened again.
OutputKept == part = "streams" => Streams!OutputKept

\* A builtin is executed with the streams its redirections ask for, or not at all.
AllOrNothing == part = "streams" => Streams!AllOrNothing

\* The action of a trap is not executed again while it is being executed.
NeverRecursive == part = "traps" => TrapTable!NeverRecursive

\* Back in its program the shell has executed the traps of all signals that were
\* delivered, and at its end the EXIT trap.
NothingOwed == part = "traps" => TrapTable!NothingOwed

\* A bit of pending_traps stands for a signal whose trap has not ended.
RightTrap == part = "traps" => TrapTable!RightTrap

\* The history's counters tell which entries the file does not have.
UnsavedKnown == part = "history" => CmdHistory!UnsavedKnown

\* The commands of a session reach the file at its end, and none is forgotten
\* because of another.
NothingForgotten == [][part = "history" => CmdHistory!StepForgetsNothing]_vars

\* The directory stack is one list of stack_count entries, the current directory
\* at its top, and pushd, popd and dirs do to it what their manual page says.
AsManual == part = "directory" => Directories!OneList /\ Directories!AsManual

\* Wherever SIGCHLD came while the table of jobs was changed, afterwards it has each
\* job once, in order, with the right processes marked (jobs.c:1495, 1606).
TableKept == part = "table" => JobsTable!TableKept

\* The command line editor's buffer holds what the keys say, its index is where they
\* put the cursor, and that text is what the shell is handed.
AsTyped == part = "line" => CommandLine!AsTyped
=============================================================================
