# A verification project for Layla Shell (lsh)

lsh is a POSIX-like interactive shell in C.  Its code is in `src/src`.  This
directory holds TLA+ models of its core: what signals may interleave with, what
commands nested in commands do to the shell's globals, the tables and lists
that outlive commands, and the passes that turn typed text into something to
run.  TLC checks the models on small instances; TLAPS proves some of the
results for every instance.

    tlc -workers 2 -config ForegroundWait.cfg MCForegroundWait
    tlc -workers 2 -config ShellState.cfg MCShellState
    tlapm TableRaces_proofs.tla

## 1. The system

| Part | State | Operations | Talks to | Modules |
|---|---|---|---|---|
| Foreground wait (`backend/backend.c`, `jobs.c`, `sig.c`) | `deadlist[]`, `listindex`, `signal_received`, `waiting_pid` | `wait_on_child`, `rip_dead`, `notice_termination`, `SIGCHLD_handler`, `check_on_children` | kernel (`waitpid`, `sigsuspend`), jobs table | ForegroundWait, CommandRun |
| Jobs table (`jobs.c`) | `jobs_table[]`, `cur_job`, `prev_job`, `total_jobs` | `add_job`, `remove_job`, `remove_dead_jobs`, `set_cur_job`, `reset_cur_job`, `set_pid_exit_status`, `set_job_exit_status` | handler, builtins | Jobs, TableRaces |
| Job builtins (`builtins/`) | a slot pointer across a wait | `wait`, `fg`, `bg`, `jobs`, `kill`, `disown`, `notify`, `exit`; `hup`, `stop`, `suspend`, `coproc` | jobs table, kernel | Jobs |
| Traps (`builtins/trap.c`) | `trap_table[]`, `executing_trap`, `pending_traps` | `trap`, `trap_handler`, `do_pending_traps` | signals, `eval`, waits | Traps |
| Loops and control flow (`backend/loops.c`, `main.c`, `return.c`, `eval.c`) | `cur_loop_level`, `req_break`, `req_continue`, `return_set` | the loops, `break`, `continue`, `return`, `parse_and_execute` | everything that evaluates text | Evaluator, Unwinding |
| Variables (`symtab/`) | the stack of symbol tables | push, pop, add, lookup, merge, unset | functions, subshells, builtins | SymtabStack, Scoping |
| Redirection (`backend/redirect.c`, `heredoc.c`) | file descriptors, `backup_fd` | `redirect_do`, `save_std`, `restore_stds` | builtins, `exec`, `eval` | Redirect |
| Command history (`builtins/history.c`, `hist_expand.c`) | `cmd_history[]`, two counters, the file | `save_to_history`, `history`, `hist_expand` | the line editor, `fc`, other shells | History, HistExpand |
| Directory stack (`builtins/dirstack.c`) | a doubly linked list, `stack_count` | `pushd`, `popd`, `dirs`, `cd` | variables, saved list | DirStack |
| Line editor (`cmdline.c`, `vi.c`, `vi_keys.c`) | `cmdbuf`, two indices, `savebuf`, the last commands | one function per key; `is_incomplete_cmd` | history, scanner | Editor, EditLine, Reader |
| Scanner and parser | a source cursor, the current and the previous token | `tokenize`, `parse_*` | aliases, backend | Parser, Aliases |
| Expansion, conditions, arithmetic | positional parameters, two operand stacks | `word_expand`, `brace_expand`, `arithm_expand`, `test_builtin` | variables, every command | Words, Braces, Arith, TestExpr |
| Patterns, completion, prompt, screen, start-up, options, other builtins | option bits, limits, terminal modes | one system call or table lookup each | | none (section 6) |

What is hard here.  There is one process with one thread, but
`SIGCHLD_handler()` and the trap handler run between any two instructions of
the main program wherever their signal is not blocked, and it is blocked in few
places.  Removing a job moves the later ones down under pointers that waits
hold.  Commands nest without limit, through functions, `eval`, traps and
compound commands, while much of their state is one global each: the loop
counters, `return_set`, `backup_fd`, `executing_trap`; whoever nests must put
back what it finds, on every way out.  Lists at their limits, links in two
directions and counters beside a list must agree over long sequences of
commands.  And the text of a command goes through a series of passes, each of
which has to know again what the pass before knew about quotes, words and ends.
`PROJECT.json` lists each hazard with its line and the properties that would
notice it going wrong.

What makes each part correct:

* **Foreground wait**: a wait that ends answers with the right status, ends
  only when the whole job is gone, and does end.
* **Jobs table**: used slots are a prefix with increasing numbers; a process is
  in one job; a process is marked only when it is gone; a job is forgotten only
  when it has ended; the current job exists; `wait` answers for what it was
  asked and returns.
* **Traps**: each signal runs its own trap once; a trap does not run inside
  itself; a trap put off during a wait runs after it.
* **Loops**: `break n` leaves n loops and affects none that starts later.
* **Variables**: what a function declares local is gone when it returns and
  what it hid is back; every other assignment reaches the caller.
* **Redirection**: after a command, descriptors 0 to 2 are what they were, also
  when a redirection failed half way; nothing that was written is lost.
* **History, directory stack, editor**: the list, its file and its counters
  agree; the builtins do to a sequence what the manual says; the buffer holds
  the line that its keys make.
* **Passes over text**: what is run is what was written.

## 2. The models

### ForegroundWait (with CommandRun, MCForegroundWait and ForegroundWait_proofs)

The handler, the main program's wait and the prompt share `deadlist[]` and
`listindex` without a lock.  The model advances the main program one access to
shared memory at a time.

| TLA+ | Code |
|---|---|
| `dead`, `listindex` | `deadlist[]`, `listindex` (jobs.c:66-82) |
| `layout` | what the linker puts behind `deadlist[]`: in the project's own build it is `listindex`, so that `deadlist[DEADLIST_MAX].pid = 0` clears it |
| `reg` | the register between load and store of `listindex--` |
| `Rip*` | `rip_dead()`: search, copy down field by field, clear the last entry, decrement |
| `CheckInterrupt`, `Suspend`, `Collect`, `Return` | the loop of `wait_on_child()` |
| `Note*` | its own call of `notice_termination()`, under job control, with SIGCHLD enabled |
| `HandlerEnter`, `HandlerReap`, `HandlerExit` | `SIGCHLD_handler()` |
| `CheckOnChildren`, `Drain`, `ReadCommand`, `EndUnit` | the prompt, and the end of a unit in `parse_and_execute()` |
| `Exit`, `Stop`, `Cont`, `Interrupt` | children, kernel and user |

The handler runs on the main program's stack, so once entered it finishes
before the main program moves.  It only appends to the list and overwrites
statuses, so a loop of the main program that only reads is one step.
Each entry is two words, and the two stores that copy one, clear one or, in the
wait's own `notice_termination()`, note one (jobs.c:1171) are two steps.

`CommandRun` is what the user is promised: no list, no handler, no polling; a
job is a sequence of processes, the shell waits for all of them, and the answer
is the status of the job's first entry.  `ForegroundWait` implements it under
the refinement mapping `Fate`, `Phase`: the wait's answer must be the status
the process *ended* with, at a moment when the processes *have* ended.

### Jobs (with MCJobs, Jobs_proofs)

The table, `cur_job`, `prev_job` and `total_jobs` are one record `tab`; the
functions of `jobs.c` are operators from a record to a record, named after
them (`Add`, `RemoveJob`, `RemoveDead`, `SetCurJob`, `ResetCurJob`,
`SetPidStatus`, `SetJobStatus`, `OutputStatus`, `Notice`), and handler and
builtins compose them.  Builtins that wait keep `slot`, a pointer into the
table, over `waitpid()` as the code does, and the handler runs between any two
of their steps.

| TLA+ | Code |
|---|---|
| `tab.slots[k]` | `jobs_table[k-1]`: number, pids, `proc_count`, `child_exitbits` (as the set of pids marked), pgid, status, flags |
| `Launch`, `AddJob` | `do_and_or()` for a background list: fork, then `add_job()`; SIGCHLD may come in between |
| `StartForeground`, `StartWait`, `FgCollect` | `do_pipeline()` and `wait_on_child()`, reduced to what they do to the table |
| `HandlerEnter`, `HandlerReap`, `HandlerExit` | `SIGCHLD_handler()`, which ends with the choice of the current job |
| `HandlerPause`, `HandlerResume` | another SIGCHLD within that choice: the search for a job unblocks the signal |
| `CheckEntry`, `CheckReset`, `Drain` | the two loops of `check_on_children()` |
| `Bg`, `Fg`, `Kill`, `Notify`, `Disown`, `DisownAll`, `List`, `Hup` | the builtins, and `kill_all_jobs()` at exit |
| `WaitForJob`, `NextProcess`, `WaitCollect`, `WaitRip`, `WaitNoChild`, `WaitOn`, `WaitInterrupted` | `wait_for_job()`, `wait_for_pid()` |
| `BgLoop`, `BgClear` | `wait_for_bg()` |
| `AnyLoop`, `AnyCollect`, `AnyDone`, `AnyNoChild` | `wait_for_any()` |

Abstractions: statuses are five values (`zero`, `exit1`, `killed`, `stop`,
`cont`; exit status 0 is kept apart because `RUNNING()` takes it for
"running"); the shell is interactive and survives the signals it passes on;
pipefail is off; tcsh's listing from the handler, the CHLD trap, `jobs -r/-s`
and `wait -f` are left out; the dead list is unbounded and atomic, its races
being ForegroundWait's subject; one main-program step of the table is atomic
against the handler, its finer grain being TableRaces' subject.

`last_job_with_status()` unblocks SIGCHLD also when the handler itself calls it
(jobs.c:320).  Where the constant `Reentrant` is TRUE another handler may run
there: `HandlerPause` stops the first where it has found a job and not yet
stored its number in `cur_job` or `prev_job`, `held` keeps what it has in hand,
`nested` says that the second one runs, and `HandlerResume` stores the number
read before, or what is in the slot by now.  The second handler is not
interrupted in turn (a bound).  `CurrentExists` needs `Reentrant` to be FALSE:
with notify, the second handler may remove the job that the first is
about to make current, and TLC shows the number of a job that is gone.

### TableRaces (a part of ShellState, with TableRaces_proofs)

`add_job()` and `check_on_children()` change the table with SIGCHLD enabled.
Here a job is copied in three chunks (number and count, pids, the rest), then
numbered, then counted, and a removal moves one job per step; the handler marks
processes and removes jobs between any two steps.

| TLA+ | Code |
|---|---|
| `Launch`, `AddFind`, `AddCopy`, `AddNumber` | `do_and_or()` and `do_pipeline()` up to `add_job()`, and `add_job()` |
| `Notify`, `Disown` | the builtins |
| `Check`, `CheckEntry`, `CheckRunning`, `CheckReset` | the loops of `check_on_children()` |
| `Remove`, `ShiftSkip`, `ShiftCopy`, `ShiftClear`, `ShiftEnd` | `remove_job()` and its loop with `memcpy()` |
| `SIGCHLD_handler` | the same, with `set_pid_exit_status()` and, for a job with the notify flag, `remove_job()` |
| `jobs` (history variable) | which jobs there should be |

`TableKept`: wherever SIGCHLD came, when the change is over the jobs are a
numbered prefix of the table, each once, and each knows which of its processes
have ended.

### Evaluator (with Unwinding, MCEvaluator, Evaluator_proofs)

The stack of active `do_*()` functions.  A program is chosen command by command
as it is executed, so every program within the bounds is run.

| TLA+ | Code |
|---|---|
| `stack`, `pc`, `result` | the C stack, the place in the function at its top, the 0 or 1 the last one returned |
| `Simple`, `Jump`, `ReturnCommand`, `Enter` | a list or compound command that calls `do_simple_command()` or `do_compound_command()` |
| `Run`, `CannotRun`, `OutsideLoop`, `Break`, `Continue`, `Return`, `Interrupt` | a simple command, `break_builtin()`, `continue_builtin()`, `return_builtin()`, SIGINT |
| `NextCommand`, `ListEnds`, `LeaveGroup`, `FallThrough`, `LeaveCase`, `LeaveFunction`, `If` | `do_list()`, `do_and_or()`, `do_compound_list()`, `do_case_clause()`, `do_function_body()`, `do_if_clause()` |
| `LoopTest`, `BodyStops`, `BreakLoop`, `ContinueEach`, `ContinueOuter`, `NextRound` | `do_for_loop()`, `do_for_loop2()`, `do_while_loop()`, `do_until_loop()`, `do_select_loop()` |
| `NextLine`, `LeaveUnit`, `NewUnit` | `parse_and_execute()`, which `eval` and `.` call too, and which resets the counters |

`Unwinding` is what the manual promises, without a counter or a flag: each of
these commands cuts the stack at once.  `Unwinds` says that Evaluator implements
it; `LevelCounts` and `NothingRunsPending` say of the counters what the
functions rely on.

### ShellState (with MCShellState, Traps_proofs, Redirect_proofs, Scoping_proofs, ShellState_proofs): parts that share no variable

One specification for seven state machines: a behaviour is one of one part, and
the variables of the other parts stay fixed.  Each part is a module of its own
and an INSTANCE here.

| Part | Model and code | Property |
|---|---|---|
| SymtabStack, Scoping | `symtab_stack` is the stack of tables that `do_simple_command()`, function calls and `eval` push; `Push`, `PopMerge`, `Found` are `symtab_stack_push()`, `merge_global()`, `get_symtab_entry()`; one action per kind of command (assignment, prefix assignment, external, `local`, `declare -g`, `readonly`, `unset`, call, return, `eval`); `symtab_level` and the tables' `levels`, by which `local` and `declare` tell the shell from a function | `Scoped`: a refinement of dynamic scoping as the manual has it (Scoping), in which each call has one scope and there are no copies |
| Redirect | `fds` with files and positions, `frames` of active commands with what `save_std()` kept, `backup_fd`; lists of redirections are prepared (`PrepNode`) and done one by one (`DoOne`), and may fail half-way | `StreamsReturn`, `AllOrNothing`, `FewLost`, `OutputKept` |
| Traps | `trap_table`, `executing_trap`, `pending_traps` with the bits the shifts really set, the stack `active` of running actions, each with its signal mask; `Kill` and `Deliver` at any moment, waits, ERR, DEBUG, CHLD, EXIT and SIGHUP | `NeverRecursive`, `NothingOwed`, `RightTrap` |
| History | the list at `$HISTSIZE`, the file at `$HISTFILESIZE`, `hist_file_count`, `hist_cmds_this_session`, a second shell that writes the file; typing, `history -c -d -r -a -w`, `fc`'s removal, exit and start; what is written may reach `$HISTFILE`, another file or none | `UnsavedKnown`, `NothingForgotten` |
| DirStack | a heap of nodes with `next` and `prev`; one action per builtin and option | `AsManual`: list, count and current directory are those of the sequence the manual describes, whose commands are stated on sequences |
| Editor, EditLine | `cmdbuf` with its two indices and everything `vi_cmode()` keeps between keys, against EditLine: a text, a cursor, and what each key does to them | `AsTyped` |
| TableRaces | see above | `TableKept` |

### Algorithms (with MCAlgorithms): results that depend on their input alone

A behaviour chooses an input and computes the result the code computes; the
property compares it with a definition of what the input means that is written
without the code's mechanism.  Inputs are built from structure (an expression,
a script, a word) and printed as text, so that the meaning is known before the
code reads the text.

| Module | The code, as it works | The meaning it is compared with | Property |
|---|---|---|---|
| Arith | `arithm_expand()`: operator and operand stacks, variables as pointers | the value of the expression tree, evaluated from the left, with its side effects | `AsWritten` |
| TestExpr | `test_builtin()`: the same technique for `test`, `[`, `[[` | the truth of the condition tree | `AsDocumented` |
| Words, Braces | `word_expand()`: braces, parameters, field splitting and quote removal as passes over text | the fields of the word's parts, each of which knows whether it is quoted | `AsMeant` |
| Parser | `parse_*()`: one function per construct with the current token, the previous token and `unget`; `do_*()` of the trees | the script the tokens were printed from | `AsStructured` |
| Reader | `is_incomplete_cmd()` line by line: counts of keywords, braces and quotes, here-documents, `kill_input()` on SIGINT | the script is handed over with its last line, in one piece | `AsStructured` (with Parser) |
| HistExpand | `hist_expand()`: a buffer changed in place, events, searched from where the up and down keys are, word designators, modifiers, `^old^new` | the line with its references replaced | `AsReferred` |
| Aliases | the alias table, `do_alias_substitution()` and `parse_simple_command()` on text | the line with the first words of its commands replaced until none is an alias that was not used | `AsReferred` (with HistExpand) |

Words, Parser, Reader, HistExpand, Aliases and Editor were compared with a
build of the shell on samples of their inputs, for the cases in which they
agree with the meaning and for those in which they do not.

### Habits

The code of most parts falls short of its promise in some cases.  A property
that is violated at the first step says nothing about the rest, so each such
case has a name in a constant of its module:

`Programs` (Evaluator), `Risky` (SymtabStack), `Reckless` (Redirect), `Touchy`
(Traps), `Hasty` (History), `Rash` (DirStack), `Clumsy` (Editor), `Lapses`
(TableRaces), `Sloppy` (Arith), `Terse` (TestExpr), `Loose` (Words), `Cramped`
(Parser), `Offhand` (Reader), `Eager` (HistExpand), `Fickle` (Aliases).

A name describes something users, programs or the scheduler do.  The constant
is the set of habits they have; it is empty in the passing runs, which thus say
that *nothing else* breaks the property, and each name alone, put into the
constant, makes TLC find a violation.  Like `Quiet`, a habit is not a guard of
the code: the actions have the code's guards, and the habits limit who calls
them and when.  The names with their meaning are in each module's header.  Some
of what they stand for, all confirmed with the built shell:

* The shell defines `ll` as `ls -la` and `ls` as `ls --color=auto`: typing `ll`
  follows `ls` to itself for ever (`cycle`).
* SIGINT while a here-document is typed leaves `in_heredoc` set, and the next
  line is compared with a null pointer (`interrupt`).
* `&` after the last command of a compound list is lost: the command runs in
  the foreground (`lastAnd`).
* An `eval` inside an `eval` with redirections closes the first one's saved
  streams (`nestedEval`); restoring a stream that is a regular file truncates
  the file (`intoFile`).
* `$((x + (x = 5)))` reads x after the assignment (`lateRead`).
* `local` lowers the level of the tables for good: a later function's `local` is
  refused as if it were the shell's (`lowLevel`).  A command whose words cannot
  be expanded leaves its table behind, and what the function around it declared
  stays visible after it (`failedExpansion`).
* `break` in the first round of a `while` loop (`earlyExit`), which is a run of
  its own below.

Others follow from the code: `;&` and `;;&` go on with the next item of a `case`
whatever its list asked for (`fallThrough`); `history -a` books all commands as
saved when it wrote to another file or to none (`otherFile`, `failedWrite`);
`!text` looks at no command newer than the one the up key stopped at
(`browsed`); an empty pattern of the editor's `/` begins with the newline, and
after `^` it is the last pattern that was found, a null pointer if none was
(`empty`).

## 3. What is checked

| Run | Instance | Result |
|---|---|---|
| `fw_code` | 3 children, list of 2, pipelines of 2, both layouts, with and without -m, SIGINT possible; SIGCHLD anywhere | `TypeOK`, `RightStatus`, `JobFinished` and `ImplementsCommandRun` hold |
| `fw_quiet` | 2 children, one of which may be stopped; no SIGCHLD between the accesses of one list update, nor between a failed look at the list and the sleep | `NeverStranded`, `SleepsOnlyWithoutAnswer`, `RightEntries`, `WaitEnds` hold |
| `fw_lost_wakeup` | SIGCHLD only in the window before `sigsuspend()` | `WaitEnds` is **violated** |
| `fw_full_list` | list of 2, 3 children; no SIGCHLD in those windows | `WaitEnds` is **violated** |
| `jobs_control` | -m, with and without -b; 2 children, one stoppable; 2 slots; bg, fg, notify, kill, the prompt; 2 builtins; SIGCHLD does not interrupt its handler | `TypeOK`, `MarkedAreGone`, `LeavesWhenDone`, `CurrentExists` hold |
| `jobs_wait` | no -m; 3 children for 2 slots; every wait, jobs, disown, exit; 2 builtins; SIGCHLD may interrupt its handler | `Packed`, `OneJobEach`, `AccountedWithoutControl`, `WaitPidRight`, `LeavesWhenDone` hold |
| `jobs_wait_answer` | two background jobs and `wait %n` | `WaitJobRight` is **violated** |
| `jobs_wait_ends` | one background job, a prompt and `wait` | `WaitBgReturns` is **violated** |
| `evaluator` | any program of `for`, `while`, `if`, lists, `case`, functions, `eval` and scripts, stack of 7, break and continue up to 2, SIGINT anywhere | `TypeOK`, `LevelCounts`, `NothingRunsPending` and `Unwinds` hold |
| `evaluator_early_exit` | the loops other than `for`, with `break` allowed in the first round | `Unwinds` is **violated** |
| `shell_state` | the seven parts of ShellState | its 14 properties hold |
| `algorithms` | the seven parts of Algorithms | `AsWritten`, `AsDocumented`, `AsMeant`, `AsStructured`, `AsReferred` hold |

Why the bounds are enough.  The dead list fills with DEADLIST_MAX + 1 statuses
and shifts with two, so three children and a list of two reach every branch of
`rip_dead()` and `notice_termination()`, full and overfull lists included; a
pipeline of two has a leader and a follower in both orders.  In the table, two
slots give every removal (first of two, last, only one), the third child a full
table.  Two builtins let one act on what another left behind.  A child whose
stop was reported is not stopped again (`StopOnce`).

For `evaluator`, a stack of 7 has two loops with a list, a function or an
`eval` between them and a command in the inner one: every flag is set in one
frame, passed by a second and spent in a third.  For `shell_state`: three tables
in the symbol table stack beyond the shell's own give a call in a call with a
command in it, so that a name may have a copy at the top, one below and one that
counts, and `symtab_level` may fall two behind the stack, which makes a
function's table look like the shell's at either depth; two nested commands with up to two redirections each let one fail after
the other is done, within what another has replaced; traps and waits three deep let a
signal interrupt the trap that interrupted a wait; the history
has one entry more than `HISTSIZE` to drop one; four directories have two inner
nodes, which is where links go wrong; the editor gets every three keys (a
count or an operator, its motion, and one more that sees what they left) at
every cursor position of six lines with words, blanks, brackets and marks;
four processes in pipelines of up to two for three slots leave a job behind and
one before every one removed.  For `algorithms`, three operators or levels of
commands have every pair of neighbours on the stack with a third below; the
stacks overflow at 8 in some inputs; words of up to three parts have each part
before and after each other; alias tables of three with chains and cycles of up
to three.
Each part of ShellState and Algorithms alone has more than a thousand states.

CHECK_DEADLOCK is off in `Algorithms.cfg`, where a behaviour ends with its
result, and where the shell may exit or sleep (said in each cfg).  In
`Evaluator.cfg` and `ShellState.cfg` it is on.

`Quiet` (ForegroundWait) is not a guard of the code.  It names the program
points at which *this instance* lets no SIGCHLD be delivered; it is empty in
`fw_code`, and the theorems hold for any value.  In `fw_quiet` it isolates what
liveness depends on: outside these windows, with a list that does not fill,
every wait ends.

The five violations are findings, with the documentation they contradict, in
`PROJECT.json`:

1. **Lost wakeup.** `wait_on_child()` looks at the list, then calls
   `sigsuspend()` with SIGCHLD never blocked.  A child that ends in between is
   listed and nobody looks.
2. **Full list.** Background statuses pile up on the list when -m is off.  A
   foreground status that finds it full is dropped; and `rip_dead()` of a full
   list writes behind it.
3. **`wait %n` answers for another job.** `wait_for_pid()` removes the finished
   job and `wait_for_job()` then reads `job->status` from the slot.
4. **`wait` does not return.** A status collected by `check_on_children()`
   itself is not booked; `wait_for_bg()` asks again for ever.
5. **`break` in the first round.** `do_while_loop()`, `do_until_loop()`,
   `do_select_loop()` and `do_for_loop2()` return 0, which their callers take
   for a command that could not be executed, so that everything after the loop
   on its line is skipped.

Some properties hold only with a side condition, which they state.
`AccountedWithoutControl` and `WaitPidRight` exclude job control (where finding
4 loses statuses) and stopped children: a stale "stopped" entry of the dead
list read by a later `wait pid` un-marks a process that has ended.

### Fairness

`ForegroundWait` and `Jobs` assume that the processor goes on with whatever the
main program has begun and with a handler that was entered (weak fairness of
`WaitOnChild`/`Proceed` and `Handler`: one thread, no lock to wait for, and a
pending unblocked signal is delivered); and that each child ends some day
(strong fairness of `Exit(p)`, because a child may be stopped again and again;
a stopped one is continued, weak fairness of `Cont(p)`).  The user is not
assumed to do anything.  The last assumption is about programs that end; a wait
for one that does not should not end either.

Evaluator, ShellState and Algorithms have safety properties and refinements
only, and state no fairness: a user need not type, a program need not end.

## 4. What is proved

Each theorem is about the specification that the runs check, for every value of
its constants that satisfies the module's named assumptions and the hypotheses
below.  A hypothesis about `Reentrant`, `Quiet`, `Programs`, `Risky`, `Touchy`, `Hasty`, `Reckless` or `Lapses`
excludes something that really goes wrong in the code (section 2, Habits; the findings);
the theorem says that nothing else does.  TLC checked each inductive invariant
before it was proved.

| Theorem | Property | Hypotheses |
|---|---|---|
| `ForegroundWait_proofs!TypeCorrect` | `TypeOK` | none |
| `AnswerIsRight`, `WholeJobIsGone`, `Implements` | `RightStatus`, `JobFinished`, `ImplementsCommandRun` | `Stoppable = {}` |
| `NoAnswerSleptOver` | `SleepsOnlyWithoutAnswer` | no SIGCHLD between the failed search and `sigsuspend()` |
| `EntriesAreRight` | `RightEntries` | no SIGCHLD between the two stores that copy, clear or note an entry |
| `NoneStranded` | `NeverStranded` | a slot for every child, nothing written behind the list, no SIGCHLD within an update |
| `Jobs_proofs!TypesHold` | `TypeOK` | none |
| `StaysPacked`, `NoneInTwoJobs`, `OnlyGoneAreMarked` | `Packed`, `OneJobEach`, `MarkedAreGone` | none |
| `ForgottenWhenDone` | `LeavesWhenDone` | none |
| `CurrentAreThere` | `CurrentExists` | `~Reentrant`: no SIGCHLD while its handler chooses the current job |
| `NothingLost`, `AnswersRight` | `AccountedWithoutControl`, `WaitPidRight` | none (both properties exclude -m and stopped children themselves) |
| `TableRaces_proofs!TableIsKept` | `TableKept` | `Lapses = {}`: no process ends before its job is in the table, SIGCHLD not within the copy of a job, no removal by notify while the table changes |
| `Traps_proofs!OneTrapEach` | `NeverRecursive` | no trap starts over one that no mask protects (`nested`) |
| `BitsAreRight` | `RightTrap` | no CHLD trap during a wait (`chld`) |
| `NoneForgotten` | `NothingOwed` | `Touchy = {}` |
| `TrapTypes` | `Traps!TypeOK` | neither `chld` nor `hangup` |
| `ShellState_proofs!SessionIsCounted` | `UnsavedKnown` | `Patient`: no entry of the file is removed, no `history -r` or `-w` with unsaved entries, and what `history -a` and the exit write reaches `$HISTFILE`; commands may be alike and the file full |
| `SessionIsKept` | `NothingForgotten` | `Hasty = {}` |
| `Redirect_proofs!StreamsComeBack` | `StreamsReturn` | `Reckless = {}` |
| `BuiltinsGetTheirStreams` | `AllOrNothing` | `Reckless = {}` |
| `OnlyBackupsLost`, `OutputStays` | `FewLost`, `OutputKept` | `Reckless = {}` |
| `Scoping_proofs!VariablesAreScoped` | `Scoped` | `Risky = {}` |
| `TablesAreTyped` | `SymtabStack!TypeOK` | `Risky = {}` |
| `Evaluator_proofs!Levels` | `LevelCounts` | no unit inside a loop (`evalInLoop`) |
| `Types` | `TypeOK` | nor `overshoot` |
| `NothingPending` | `NothingRunsPending` | no habit but `returnInEval` |
| `JumpsUnwind` | `Unwinds` | no habit: `Programs = {}`, as in the run |

`ShellState_proofs` carries the results about Traps and TableRaces over to
ShellState, in which they are parts: a step of the shell is a step of the part
or leaves its variables alone.  The proof about the history is there as well.
`$HISTSIZE` and `$HISTFILESIZE` are assumed to be positive, which for the code
means that there is a limit.

### The dead list (ForegroundWait_proofs)

* `TypeOK` alone is not inductive, because `listindex` leaves the array by one
  entry at some program points and must not at others: `TypeInv` adds `Indices`
  (where each index is at each point) and `Attached` (a wait has a process and
  its job is not empty).
* `AnswerInv`: the list can lose entries and tear them, so the invariant does
  not claim that entries are right.  It says that only processes that are gone
  are listed, ripped or marked; that until the first `rip_dead()` of a wait
  succeeds, nothing but the handler has written the entry it looks for; and that
  the status found there goes to `res` and stays.  The premise `Stoppable = {}`
  is needed: with stopped children, a torn entry can hand a wait the status 0
  (TLC, 4 children, list of 3).
* `Implements`: `SourceInv` ties signals that end a wait to a child that was
  killed; `FateValue` and `FateStable` compute the refinement mapping at each
  state of a child, and every action is shown to be a step of `CommandRun` or a
  stutter.
* `SleepInv`: from a failed search on, the child is not on the list.
* `EntryInv`: an entry is right except the one that is being copied or cleared,
  whose two halves are followed through the stores.  Quiet during the copy alone
  is not enough: TLC refuted `{"copyStatus"}`, because a handler that finds the
  cleared pid at the end of the list and appends behind it sees half an entry.
  Under job control the wait itself notes what it collects, with SIGCHLD enabled
  (jobs.c:1171), and these two stores must be quiet as well.
* `HeldInv`: a process that is gone and waited for is on the list or in the
  hands of the main program.  That the handler finds room is the pigeonhole
  principle: the list has no two entries for one child, hence a free slot.

### The jobs table (Jobs_proofs)

The functions of `jobs.c` are operators from one table to the next, so the proof
is about them first.  `Sound(t, G)` says of a table `t` that its used slots are a
prefix with increasing numbers, that no two slots share a process, that a free
slot counts none, and that only processes in `G` are marked; `Becomes(t, u, G)`
that the table `u` is sound again, has got no new process, and has forgotten no
job but those with all processes in `G`.  `Becomes` is transitive, and there is
a lemma for each function (`remove_job()`, `remove_dead_jobs()`,
`do_output_status()`, `set_cur_job()`, `reset_cur_job()`, ...), with `G` the
processes that the kernel has given up.  An action composes them, and the
lemmas on the actions add up to `StepGood`.

All but `CurrentAreThere` hold whether or not SIGCHLD interrupts its handler:
`HandInv` says that the slot such a handler has in hand is one of the table and
its number one that a job may have, and what it stores does not touch the slots.

`JobsInv` is `Sound` of the table with what the steps need: that the dead list
says "ended" only of a process that is gone (`DeadList`), that the job under
construction shares no process with the table (`NewOne`), that no job has a
process that was not forked (`Born`; the next fork could return it), and the
links between the places of the main program and its pointers (`Locals`).  That
a table with `n` used slots keeps its numbers in order through `remove_dead_jobs()`
or `disown -a`, whose loops run as often as the table is long, is an
induction on the rounds: the loops are functions on `0 .. MaxJobs`, and the
lemma `StaysIn` carries a predicate along such a function.

`AddJob` needs `Room` and no more: that the number it picks is new is the
lemma `NumberIs`, that the slot it picks is the one behind the last job `RoomIs`.

### Waiting without job control (Jobs_proofs)

`WaitInv`, on top of `JobsInv`, is a statement about the books.  `AllBooked(t, S)`
says that each process of a job in the table `t` is in `S` or marked as exited,
and that a job is a single background process; the invariant is
`AllBooked(tab, Safe)`, where `Safe` is the set of processes that live or are on
the dead list.  A step may take processes out of `Safe` (a builtin that collects
one itself, `rip_dead()`), and must have marked them; it may empty the dead list
(`wait` without operands), and must have marked all (`Cleared`).  `Starting` says
the same of the job that was forked and is not in the table yet, whose process
may end before `add_job()`: the handler finds no job then, and the entry of
the dead list is all there is.  `Told` says that the dead list repeats what
`waitpid()` said.

That the answer of `wait pid` is right rests on `Aimed`: for as long as
`wait_for_pid()` waits, the slot it points to holds the process, or the process is
in no job.  Under job control this is false (finding 3 is its failure for
`wait %n`).  Without it nothing removes a job while the main program waits: the
handler removes only jobs under job control, and with -b only complete ones,
before it marks the process it has got.  This is the lemma `NoticeBears`.

The functions are dealt with as above: `Bears(j, h)` says that `j` is
what has become of the job `h`, with at least its marks and no new flag of job
control, `Comes(t, u)` that each job of `u` bears on one of `t`, and each function of
`jobs.c` has a lemma.  The invariant says nothing about a shell with -m or one
whose child was stopped (`Simple`): the books are wrong there.

### The jobs table under the handler (TableRaces_proofs)

`TableInv` has one conjunct for each place of the main program: which processes
exist and in which state (`Born`), that no process is in two jobs (`Apart`),
which slot of the table holds a copy or a hole (`Shape`), what `add_job()` has
copied so far (`Adding`), which slots a removal has shifted (`Moving`), where a
search has got to (`Finding`), and that a mark in the table is what the kernel
reported (`Recorded`).  `Gap` and `Good` name the slot that `remove_job()` is
about to fill or to clear; the handler is allowed to write it and both must
survive that.

### Traps (Traps_proofs)

The invariants are about the stack of running actions, as deep as it may get:
`Stack` (which frames may lie on which), `Single` (no two frames are the action
of one condition), `BitsOwed` (a bit of `pending_traps` belongs to a signal
whose action is owed or running) and `OwedIsDue` (what is owed has its bit, and
a `do_pending_traps()` below that will still come to it).  The proof of `Single`
changed the model: it could not exclude that `do_pending_traps()`, which asks no
signal mask, starts an action that already runs masked below it, and TLC found
such a behaviour at a depth of 5, which the run with its depth of 3 does not
reach.  The habit `nested` now covers this case too.

### The history (ShellState_proofs)

`HistoryInv` is `UnsavedKnown` with the types of the list and the file.  Both
ways to remove entries are one operator there, `Cut`, and `CutCounted` says that
entries of the session can be cut out if they are counted.  The loop of
`erasedups` is an induction over its rounds (`ErasedIs`): from the newest entry
to the oldest, so that the entries still to be examined have not moved.  The
theorem needs five of the seven habits in `Haste` to be absent: commands taken
for duplicates (`similar`) and a full file (`fullFile`) lose commands, but never
the count.

`SessionIsKept` is the action property: at exit the file ends with the commands
of the session, in their order, and with `histappend` still begins with what it
held; and no entry disappears when a command is added, other than those it
equals.  The commands of the session are a selection from the list, a function
over its prefixes, so the proof is about what a selection does where a list is
cut (`PrefixIs`, `SuffixIs`, `OthersStay`); `ExitKeeps` and `SaveKeeps` are the
two halves.

### The streams (Redirect_proofs)

The first half is about one command.  `ListDone` says what a list of at most two
redirections comes to when it has been prepared and carried out: each descriptor
is what it was or what the last redirection for it asks, with the saved streams
in descriptors that were free (`Kept`).  It follows from one lemma for each kind
of redirection (opening, duplicating, closing), each in two versions, for a
stream that is saved and for one that is not.

The second half is about the commands around it, as deep as they may nest.
`Nested` says that each saved stream is in a slot that is open and not a file
(`SlotsHeld`), that no two commands share a slot (`SlotsApart`), that the
duplicates in `backup_fd` are apart from them (`BackupsHeld`), that there is at
most one `eval` and without it `backup_fd` is the shell's first one (`OneEval`),
and that nothing else is open (`AllKnown`).  From `AllKnown` follows that four
descriptors are free (`RoomLeft`): each frame holds at most two, so
`MaxDescriptor` ≥ 2 `MaxFrames` + 10 is enough, which is the module's
assumption; the code's `save_std()` does without the copy when there is none.
`StreamsReturn` compares what the streams will be when all commands have
returned.  That is a recursion over the stack, whose agreement for two stacks
and two tables is an induction over the frames (`Agree`, `Stays`).

The proof of `AllOrNothing` changed the model: it could not exclude a
redirection of a descriptor to itself, which takes the place of what the list
asked before: in `>f >&1` the second takes the first one's place in the list, and
f is not even opened (backend/redirect.c:216).  The habit `itself` now covers
this case, and one of the lists the run chooses from has it.

### The variables (Scoping_proofs)

`Scoped` says that each command is a step of Scoping under the mapping
`Scopes`: scope 1 is the shell's, scope k + 1 that of the k-th function on the
stack, and the value of a variable in a scope is that of the topmost copy that
no declaration hides.  The proof treats one variable at a time.

* `CopiesFrom(t, x, i)` are the copies of what table `i` declares, `Now` the
  value the topmost of them gives (`NowIs`).  What an operation does to a
  variable is said per table (`SameIn`, `SetIn`), and `SameNow`, `SetNow` and
  `DeclaredNow` say what it means for the values.
* `IsHome(t, o, x, h)` says that table `h` is the one that declares `x` for the
  commands now executed: there is one (`HomeExists`), it is the shell's or a
  function's (`HomeIsFunction`), and its scope is Scoping's `Home(x)` (`HomeIs`).
  The scopes are numbered by counting the functions on the stack (`Functions`,
  `RanksGrow`).
* Each function of the code has a lemma: `PushIs`, `PopIs`, `PopMergeIs`
  (`merge_global()`: an entry goes one table down unless it is local),
  `DoSetIs`, `PrefixSets` (a copy into the command's own table).  A command
  puts them together, and `AssignmentStep`, `LocalStep`, `UnsetStep`,
  `CallWithStep`, `ReturnStep` and the others have one action of Scoping each.

The inductive invariant `Good` is small: the lowest table is the shell's, each
other one has a function or an eval that is in progress, so that none is left
behind; local entries are in tables of functions only, and what lies above a readonly entry as
a copy of it is readonly too.  The last part was missing from `TypeOK`, and the
step of an assignment cannot be proved without it: `do_set()` asks the entry
it finds whether it is readonly, and finds a copy.  It is now a part of
`TypeOK`, which the run checks.  That a variable has no entry without being one
of `Names` or `Param`, and that arguments are values, are assumptions of
ShellState (`ShellStateAssumption`).

### Loops (Evaluator_proofs)

`LevelInv` gives the stack its shape (`StackOf`: a unit that is never left at
the bottom, simple commands only on top, no unit inside a loop) and makes
`cur_loop_level` the number of loops on it.  That number is a cardinality of a
set of stack positions, so the proof needs lemmas on what pushing and popping
does to it.  `PendInv` says what the frames look like while `req_break`,
`req_continue` or `return_set` is set or SIGINT has come: at most one of the two
counters is, and it asks for loops that there are; none of the frames that will
be left is in its test, and none of the loops in its first round; in an
`eval` or a script SIGINT asks for no loop.

`JumpsUnwind` is the simulation of Unwinding.  Evaluator's stack is mapped to
what will be left of it when everything under way has taken its course
(`Settled`), so that the moment a flag is set is the step in which Unwinding cuts
its stack, and all the returns that follow are steps that do not show.  The
proof computes this cut without the recursion of the returns:

* `Nearest` and `NthLoop` name the frame at which return, a failure, `break n` or
  `continue n` stops; it exists and is the only one (`NearestIs`, `NthIs`).
* `ReturnBelow`, `FailureBelow`, `BreakBelow` and `InterruptBelow` say what a cut
  becomes when the top frame is left: the same cut of the rest (`n - 1` for
  `break n` if the frame is a loop), unless the cut stops at this frame.
  These are the facts that make a `do_*()` function's return a step that does not
  show.
* `SettledIs` reduces `Settled` to an operator on values (`Course`) in which the
  loop level does not occur: by `PendInv` there is a loop whenever one is asked
  for.
* `HabitInv` adds what the programs' lack of habits means on the stack: the
  number of a frame that is not `break` or `continue` is 0, no loop that SIGINT
  leaves is in its first round, and `return` does not leave an `eval`.

There is one lemma for each group of actions (`PromisedPushes`,
`PromisedCommand`, `PromisedNext`, `PromisedCompound`, `PromisedIf`,
`PromisedLoop`, `PromisedUnit`).

The proof changed the model.  The step from `return` in a script to the end of
the script could not be proved: `parse_and_execute()` clears the signal when the
unit ends (main.c:679), so `return` from a script that SIGINT has interrupted ends
the interruption as well, which Unwinding did not allow.  The run had
not met the case, since its programs used `eval` and no scripts; now they use
both, and Unwinding's `Return` may end the interruption of a script.

### Only model-checked

* Liveness (`WaitEnds`, `WaitBgReturns`), which with ENABLED is out of the
  prover's reach.
* The modules under Algorithms declare RECURSIVE operators (the functions of a
  recursive-descent parser, the passes over text): the prover does without its
  SMT solver there, and what they compute is an induction over data.  (Loops
  that are functions on `0 .. n` are within reach: `Induction` and `Iterates` of
  Jobs_proofs, `ErasedIs` of ShellState_proofs show how.)
* The properties `AsManual` and `AsTyped`, and the types of ShellState's directory
  stack (those of the other parts are proved, under their parts' hypotheses).

## 5. Plan

The models are in place.  What remains is to prove more about them, in this
order:

1. `AsManual` of the directory stack, over its linked list.

Models that would still add something: TableRaces with a handler that is itself
interrupted, and CommandRun with stopped children.

## 6. What is not modelled, and why

* `pattern.c`: matching is the C library's `regexec()` and `fnmatch()`; what is
  left is the translation of characters.
* Command and process substitution: the process side is a pipeline
  (ForegroundWait), the text side a word part (Words); file name expansion,
  tildes and substrings are one call each.
* Tab completion, the prompt, the screen, terminal modes: output whose meaning
  is its look.
* Hash buckets of the symbol tables: a table is a function from names.
* `select` beyond its control flow, `time`, `coproc` and the precommands
  (`noglob` among them, which continues a loop without advancing): the hazard
  is one line each and a model would only restate it.
* Start-up files, options, limits and the remaining builtins: sequential, one
  step around a system call.
* `strbuf.c`, `dstring.c`, `alphalist.c`, messages: library code.

`PROJECT.json` has the list by component, with what each model leaves out.
