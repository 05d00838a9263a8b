-------------------------- MODULE ForegroundWait --------------------------
(***************************************************************************)
(* How the shell waits for a foreground command.                           *)
(*                                                                         *)
(* Three parties share the "dead list" of jobs.c: the SIGCHLD handler,     *)
(* which collects wait statuses from the kernel and appends them;          *)
(* wait_on_child(), which polls the list with rip_dead() and sleeps in     *)
(* sigsuspend(); and check_on_children(), which empties it at the prompt.  *)
(* The handler runs on the main program's own stack: once entered, the     *)
(* main program does not move until it returns, but it may be entered      *)
(* between any two memory accesses of the main program.  The main program  *)
(* therefore advances one access to shared memory at a time ("pc" names    *)
(* the next one); a loop that only reads is one step, because the handler  *)
(* never removes or reorders entries.                                      *)
(***************************************************************************)
EXTENDS Integers, Sequences, FiniteSets

CONSTANTS
    Pids,        \* the children the shell may fork
    NoPid,       \* the pid field of an unused slot (0 in the code)
    DeadMax,     \* DEADLIST_MAX
    Layouts,     \* what the linker may put right after deadlist[]
    Fates,       \* how a child may end
    Stoppable,   \* the children that may be stopped and continued
    PipeMax,     \* bound on the processes of one foreground pipeline
    Monitors,    \* whether the -m option is on (a subset of BOOLEAN)
    Interrupts,  \* the shell catches SIGINT (it is interactive)
    Quiet        \* pcs at which no SIGCHLD happens to be delivered

Signalled == {"int", "fatal"}
Exited    == {"exit0", "exit1"}
Ended     == Exited \cup Signalled
Status    == Ended \cup {"stop", "cont"}

ASSUME PidsAssumption    == NoPid \notin Pids
ASSUME DeadMaxAssumption == DeadMax \in Nat \ {0}
ASSUME LayoutsAssumption == Layouts \subseteq {"apart", "adjacent"}
ASSUME FatesAssumption   == Fates \subseteq Ended
ASSUME FlagsAssumption   == Monitors \subseteq BOOLEAN /\ Interrupts \in BOOLEAN

VARIABLES
    proc,        \* the kernel's view of each child
    report,      \* the state change waitpid() has not handed out yet
    delivered,   \* history: the statuses waitpid() has handed out
    sigPending,  \* SIGCHLD is pending for the shell
    handling,    \* SIGCHLD_handler() is running
    dead,        \* deadlist[]
    listindex,   \* listindex
    layout,      \* what follows deadlist[] in this build
    monitor,     \* option_set('m')
    sigrecv,     \* signal_received
    pc,          \* the main program's next access
    job,         \* pids of the foreground job, last command of the pipe first
    exits,       \* job->child_exitbits, as the set of pids marked
    pid,         \* wait_on_child()'s argument, then the process it moved on to
    i,           \* rip_dead()'s (notice_termination()'s) index
    reg,         \* listindex, while listindex-- or listindex++ is under way
    status,      \* the status ripped
    res          \* wait_on_child()'s result

setup  == <<layout, monitor>>
kernel == <<proc, report, delivered, sigPending>>
list   == <<dead, listindex>>
wait   == <<job, exits, pid, i, reg, status, res>>
vars   == <<kernel, list, wait, setup, handling, sigrecv, pc>>

Waiting == {"rip", "copyPid", "copyStatus", "clearPid", "clearStatus",
            "load", "store", "sigint", "suspend", "asleep", "collect",
            "note", "noteUpdate", "noteWrite", "noteStatus", "noteLoad", "noteStore"}
Stopped == {"killed", "crashed"}
PC      == Waiting \cup Stopped \cup {"prompt", "drain", "ready", "forking", "return"}

NoSlot == [pid |-> NoPid, status |-> "exit0"]     \* a zeroed entry

Init ==
    /\ proc       = [p \in Pids |-> "unborn"]
    /\ report     = [p \in Pids |-> "none"]
    /\ delivered  = [p \in Pids |-> {}]
    /\ sigPending = FALSE
    /\ handling   = FALSE
    /\ dead       = [k \in 0 .. DeadMax - 1 |-> NoSlot]
    /\ listindex  = 0
    /\ layout     \in Layouts
    /\ monitor    \in Monitors
    /\ sigrecv    = "none"
    /\ pc         = "prompt"
    /\ job        = <<>>
    /\ exits      = {}
    /\ pid        = NoPid
    /\ i          = 0
    /\ reg        = 0
    /\ status     = "exit0"
    /\ res        = "exit0"

----------------------------------------------------------------------------
(* The dead list.  C lets an index run past the end: deadlist[DeadMax] is  *)
(* read as a zeroed entry, and writing its pid field overwrites listindex  *)
(* in a build that places listindex right behind the array.                *)

Live       == 0 .. listindex - 1
Slot(k)    == IF k < DeadMax THEN dead[k] ELSE NoSlot
Holds(k, p) == Slot(k).pid = p
Listed(p)  == \E k \in Live : Holds(k, p)
First(k, p) == k \in Live /\ Holds(k, p) /\ \A l \in 0 .. k - 1 : ~Holds(l, p)

PutPid(k, p) ==
    IF k < DeadMax
    THEN dead' = [dead EXCEPT ![k].pid = p] /\ UNCHANGED listindex
    ELSE /\ listindex' = IF layout = "adjacent" /\ k = DeadMax THEN 0 ELSE listindex
         /\ UNCHANGED dead

KeepStatus(k, s) == dead' = dead                  \* mutant: the pid alone moves
PutStatus(k, s) ==
    dead' = IF k < DeadMax THEN [dead EXCEPT ![k].status = s] ELSE dead

RoomShort == listindex \in 0 .. DeadMax - 2        \* mutant: off by one
Room      == listindex \in 0 .. DeadMax - 1

\* notice_termination()'s dead-list part, run to completion by the handler.
Notice(p, s) ==
    \/ /\ \E k \in 0 .. DeadMax - 1 :
             First(k, p) /\ dead' = [dead EXCEPT ![k].status = s]
       /\ UNCHANGED listindex
    \/ /\ ~Listed(p) /\ Room
       /\ dead' = [dead EXCEPT ![listindex] = [pid |-> p, status |-> s]]
       /\ listindex' = listindex + 1
    \/ /\ ~Listed(p) /\ ~Room
       /\ UNCHANGED list

----------------------------------------------------------------------------
(* The children and the kernel.  A newer state change replaces one that    *)
(* was not collected yet, and SIGCHLD does not queue.                      *)

Change(p, state, s) ==
    /\ proc'       = [proc EXCEPT ![p] = state]
    /\ report'     = [report EXCEPT ![p] = s]
    /\ sigPending' = TRUE
    /\ UNCHANGED <<delivered, list, wait, setup, handling, sigrecv, pc>>

Exit(p) ==
    \E f \in Fates :
        /\ proc[p] = "running" \/ (proc[p] = "stopped" /\ f \in Signalled)
        /\ Change(p, "zombie", f)

Stop(p) == p \in Stoppable /\ proc[p] = "running" /\ Change(p, "stopped", "stop")
Cont(p) == proc[p] = "stopped" /\ Change(p, "running", "cont")

\* waitpid() hands out p's latest state change.
Collected(p) ==
    /\ report[p] # "none"
    /\ delivered' = [delivered EXCEPT ![p] = @ \cup {report[p]}]
    /\ report'    = [report EXCEPT ![p] = "none"]
    /\ proc'      = [proc EXCEPT ![p] = IF @ = "zombie" THEN "gone" ELSE @]
    /\ UNCHANGED sigPending

----------------------------------------------------------------------------
(* Signal handlers.                                                        *)

\* SIGCHLD is delivered; it stays blocked until the handler returns.
HandlerEnter ==
    /\ sigPending /\ ~handling /\ pc \notin Quiet \cup Stopped
    /\ handling'   = TRUE
    /\ sigPending' = FALSE
    /\ UNCHANGED <<proc, report, delivered, list, wait, setup, sigrecv, pc>>

\* One round of the handler's waitpid(-1) loop.
HandlerReap(p) ==
    /\ handling
    /\ Collected(p)
    /\ Notice(p, report[p])
    /\ UNCHANGED <<wait, setup, handling, sigrecv, pc>>

NotWoken == pc                    \* mutant: the interrupted system call restarts
Woken    == IF pc = "asleep" THEN "rip" ELSE pc

\* waitpid() has nothing more; the handler records the signal and returns,
\* which also ends a sigsuspend().
HandlerExit ==
    /\ handling
    /\ \A p \in Pids : report[p] = "none"
    /\ handling' = FALSE
    /\ sigrecv'  = "CHLD"
    /\ pc'       = Woken
    /\ UNCHANGED <<kernel, list, wait, setup>>

\* SIGINT_handler() (its effect on running loops is not part of this module).
Interrupt ==
    /\ Interrupts
    /\ pc \notin Stopped
    /\ sigrecv' = "INT"
    /\ pc'      = IF handling THEN pc ELSE Woken
    /\ UNCHANGED <<kernel, list, wait, setup, handling>>

----------------------------------------------------------------------------
(* The prompt: check_on_children(), then reading the next command.         *)

CheckOnChildren ==
    /\ pc = "prompt" /\ ~handling
    /\ listindex' = IF monitor THEN 0 ELSE listindex
    /\ pc'        = IF monitor THEN "drain" ELSE "ready"
    /\ sigrecv'   = IF monitor THEN sigrecv ELSE "none"
    /\ UNCHANGED <<kernel, dead, wait, setup, handling>>

\* check_on_children()'s own waitpid(-1) loop: nothing is added to the list.
Drain(p) ==
    /\ pc = "drain" /\ ~handling
    /\ Collected(p)
    /\ UNCHANGED <<list, wait, setup, handling, sigrecv, pc>>

ReadCommand ==
    /\ pc = "drain" /\ ~handling
    /\ \A p \in Pids : report[p] = "none"
    /\ pc'      = "ready"
    /\ sigrecv' = "none"
    /\ UNCHANGED <<kernel, list, wait, setup, handling>>

\* The end of a parse_and_execute() unit.
EndUnit ==
    /\ pc = "ready" /\ ~handling
    /\ pc'      = "prompt"
    /\ sigrecv' = "none"
    /\ UNCHANGED <<kernel, list, wait, setup, handling>>

----------------------------------------------------------------------------
(* Starting commands.                                                      *)

Forked(p) ==
    /\ proc[p] = "unborn"
    /\ proc' = [proc EXCEPT ![p] = "running"]
    /\ UNCHANGED <<report, delivered, sigPending>>

\* do_and_or() with fg = 0.
StartBackground(p) ==
    /\ pc = "ready" /\ ~handling
    /\ Forked(p)
    /\ UNCHANGED <<list, wait, setup, handling, sigrecv, pc>>

\* do_simple_command() or do_pipeline() forks the next process of the job.
StartForeground(p) ==
    /\ pc \in {"ready", "forking"} /\ ~handling
    /\ pc = "forking" => Len(job) < PipeMax
    /\ Forked(p)
    /\ job'   = IF pc = "ready" THEN <<p>> ELSE Append(job, p)
    /\ exits' = {}
    /\ pc'    = "forking"
    /\ UNCHANGED <<list, pid, i, reg, status, res, setup, handling, sigrecv>>

\* wait_on_child(pid, node, job) is entered with the first process forked.
StartWait ==
    /\ pc = "forking" /\ ~handling
    /\ pid' = job[1]
    /\ res' = "exit0"
    /\ pc'  = "rip"
    /\ UNCHANGED <<kernel, list, job, exits, i, reg, status, setup, handling, sigrecv>>

----------------------------------------------------------------------------
(* rip_dead(pid).                                                          *)

StatusAfterShift(k) == Slot(k + 1).status     \* mutant: read it after shifting
StatusAt(k)         == dead[k].status

\* mutant: the index is stepped back although nothing was found
RipSearchAlways ==
    /\ pc = "rip" /\ ~handling
    /\ \/ \E k \in 0 .. DeadMax - 1 :
             First(k, pid) /\ i' = k /\ status' = StatusAt(k) /\ pc' = "copyPid"
       \/ ~Listed(pid) /\ pc' = "load" /\ UNCHANGED <<i, status>>
    /\ UNCHANGED <<kernel, list, job, exits, pid, reg, res, setup, handling, sigrecv>>

RipSearch ==
    /\ pc = "rip" /\ ~handling
    /\ \/ \E k \in 0 .. DeadMax - 1 :
             First(k, pid) /\ i' = k /\ status' = StatusAt(k) /\ pc' = "copyPid"
       \/ ~Listed(pid) /\ pc' = "sigint" /\ UNCHANGED <<i, status>>
    /\ UNCHANGED <<kernel, list, job, exits, pid, reg, res, setup, handling, sigrecv>>

RipCopyPid ==
    /\ pc = "copyPid" /\ ~handling
    /\ IF i < listindex
       THEN PutPid(i, Slot(i + 1).pid) /\ pc' = "copyStatus"
       ELSE UNCHANGED list /\ pc' = "clearPid"
    /\ UNCHANGED <<kernel, wait, setup, handling, sigrecv>>

RipCopyStatus ==
    /\ pc = "copyStatus" /\ ~handling
    /\ PutStatus(i, Slot(i + 1).status)
    /\ i'  = i + 1
    /\ pc' = "copyPid"
    /\ UNCHANGED <<kernel, listindex, job, exits, pid, reg, status, res,
                   setup, handling, sigrecv>>

RipClearPid ==
    /\ pc = "clearPid" /\ ~handling
    /\ PutPid(i, NoPid)
    /\ pc' = "clearStatus"
    /\ UNCHANGED <<kernel, wait, setup, handling, sigrecv>>

RipClearStatus ==
    /\ pc = "clearStatus" /\ ~handling
    /\ PutStatus(i, "exit0")
    /\ pc' = "load"
    /\ UNCHANGED <<kernel, listindex, wait, setup, handling, sigrecv>>

\* listindex-- is a load, a subtraction and a store.
RipLoad ==
    /\ pc = "load" /\ ~handling
    /\ reg' = listindex
    /\ pc'  = "store"
    /\ UNCHANGED <<kernel, list, job, exits, pid, i, status, res, setup, handling, sigrecv>>

RipStore ==
    /\ pc = "store" /\ ~handling
    /\ listindex' = reg - 1
    /\ pc'        = "collect"
    /\ UNCHANGED <<kernel, dead, wait, setup, handling, sigrecv>>

RipDead == \/ RipSearch \/ RipCopyPid \/ RipCopyStatus \/ RipClearPid
           \/ RipClearStatus \/ RipLoad \/ RipStore

----------------------------------------------------------------------------
(* wait_on_child(): what follows a failed and a successful rip_dead().     *)

CheckInterrupt ==
    /\ pc = "sigint" /\ ~handling
    /\ IF sigrecv = "INT"
       THEN res' = "interrupted" /\ pc' = "return"
       ELSE pc' = "suspend" /\ UNCHANGED res
    /\ UNCHANGED <<kernel, list, job, exits, pid, i, reg, status, setup, handling, sigrecv>>

Suspend ==
    /\ pc = "suspend" /\ ~handling
    /\ pc' = "asleep"
    /\ UNCHANGED <<kernel, list, wait, setup, handling, sigrecv>>

Members(s) == {s[n] : n \in DOMAIN s}

\* set_pid_exit_status(): a process that ended is marked, any other unmarked.
Marked == IF status \in Ended THEN exits \cup {pid} ELSE exits \ {pid}

LeaderDone(marks) == job[1] \in marks           \* mutant: the others are forgotten
JobDone(marks)    == Members(job) \subseteq marks

ResultOfAny == status                          \* mutant: whichever was ripped last
Result      == IF pid = job[1] THEN status ELSE res

LeaderAgain(p, marks) == p = job[1]            \* mutant: start over with the first
\* The first process of the job that has not been marked.
FirstUnmarked(p, marks) ==
    \E n \in DOMAIN job :
        p = job[n] /\ p \notin marks /\ \A m \in 1 .. n - 1 : job[m] \in marks

\* Job control passes the signal of a stopped or killed process on to the
\* shell's own group, and the shell may die of it; otherwise the wait goes on
\* until every process of the job has ended.
Collect ==
    /\ pc = "collect" /\ ~handling
    /\ exits' = Marked
    /\ res'   = Result
    /\ \/ /\ monitor /\ status \in Signalled \cup {"stop"}
          /\ sigrecv' = IF status = "int" /\ Interrupts THEN "INT" ELSE sigrecv
          /\ \/ pc' = "note" /\ (status = "int" => Interrupts)
             \/ pc' = "killed" /\ (status = "fatal" \/ (status = "int" /\ ~Interrupts))
          /\ UNCHANGED pid
       \/ /\ ~(monitor /\ status \in Signalled \cup {"stop"})
          /\ \/ JobDone(Marked) /\ pc' = "return" /\ UNCHANGED pid
             \/ /\ ~JobDone(Marked) /\ pc' = "rip"
                /\ \E p \in Pids : FirstUnmarked(p, Marked) /\ pid' = p
          /\ UNCHANGED sigrecv
    /\ UNCHANGED <<kernel, list, job, i, reg, status, setup, handling>>

\* wait_on_child() calls notice_termination() itself, with SIGCHLD enabled.
NoteSearch ==
    /\ pc = "note" /\ ~handling
    /\ \/ \E k \in 0 .. DeadMax - 1 : First(k, pid) /\ i' = k /\ pc' = "noteUpdate"
       \/ /\ ~Listed(pid)
          /\ i'  = i
          /\ pc' = IF Room THEN "noteWrite" ELSE "return"
    /\ UNCHANGED <<kernel, list, job, exits, pid, reg, status, res, setup, handling, sigrecv>>

NoteUpdate ==
    /\ pc = "noteUpdate" /\ ~handling
    /\ PutStatus(i, status)
    /\ pc' = "return"
    /\ UNCHANGED <<kernel, listindex, wait, setup, handling, sigrecv>>

\* A new entry is written field by field, each at the listindex of its moment.
\* If the handler took the last slot meanwhile, the pid lands behind the array;
\* in a listindex, it makes the next access to the list go astray.
NoteWrite ==
    /\ pc = "noteWrite" /\ ~handling
    /\ dead' = IF listindex < DeadMax THEN [dead EXCEPT ![listindex].pid = pid] ELSE dead
    /\ pc'   = IF listindex < DeadMax \/ layout = "apart" THEN "noteStatus" ELSE "crashed"
    /\ UNCHANGED <<kernel, listindex, wait, setup, handling, sigrecv>>

NoteStatus ==
    /\ pc = "noteStatus" /\ ~handling
    /\ PutStatus(listindex, status)
    /\ pc' = "noteLoad"
    /\ UNCHANGED <<kernel, listindex, wait, setup, handling, sigrecv>>

NoteLoad ==
    /\ pc = "noteLoad" /\ ~handling
    /\ reg' = listindex
    /\ pc'  = "noteStore"
    /\ UNCHANGED <<kernel, list, job, exits, pid, i, status, res, setup, handling, sigrecv>>

NoteStore ==
    /\ pc = "noteStore" /\ ~handling
    /\ listindex' = reg + 1
    /\ pc'        = "return"
    /\ UNCHANGED <<kernel, dead, wait, setup, handling, sigrecv>>

NoteTermination == \/ NoteSearch \/ NoteUpdate \/ NoteWrite \/ NoteStatus
                   \/ NoteLoad \/ NoteStore

\* wait_on_child() returns and the next command of the unit can start.
Return ==
    /\ pc = "return" /\ ~handling
    /\ pc' = "ready"
    /\ UNCHANGED <<kernel, list, wait, setup, handling, sigrecv>>

----------------------------------------------------------------------------
WaitOnChild == RipDead \/ CheckInterrupt \/ Suspend \/ Collect \/ NoteTermination \/ Return
Handler     == HandlerEnter \/ (\E p \in Pids : HandlerReap(p)) \/ HandlerExit
Prompt      == CheckOnChildren \/ (\E p \in Pids : Drain(p)) \/ ReadCommand \/ EndUnit
Start       == (\E p \in Pids : StartBackground(p) \/ StartForeground(p)) \/ StartWait
Child(p)    == Exit(p) \/ Stop(p) \/ Cont(p)

Next == \/ \E p \in Pids : Child(p)
        \/ Handler \/ Interrupt
        \/ Prompt \/ Start \/ WaitOnChild

(* The processor keeps running the main program and a handler that was     *)
(* entered, a pending signal is delivered, and every child ends some day   *)
(* (a stopped one is continued first).                                     *)
Fairness ==
    /\ WF_vars(WaitOnChild)
    /\ WF_vars(Handler)
    /\ \A p \in Pids : SF_vars(Exit(p)) /\ WF_vars(Cont(p))

Spec == Init /\ [][Next]_vars /\ Fairness
----------------------------------------------------------------------------
(* Properties.                                                             *)

\* Every variable keeps its type; listindex and rip_dead()'s index may leave
\* the array by one entry at most.
TypeOK ==
    /\ proc \in [Pids -> {"unborn", "running", "stopped", "zombie", "gone"}]
    /\ report \in [Pids -> Status \cup {"none"}]
    /\ delivered \in [Pids -> SUBSET Status]
    /\ sigPending \in BOOLEAN /\ handling \in BOOLEAN
    /\ dead \in [0 .. DeadMax - 1 -> [pid : Pids \cup {NoPid}, status : Status]]
    /\ listindex \in -1 .. DeadMax + 1
    /\ layout \in Layouts /\ monitor \in Monitors
    /\ sigrecv \in {"none", "INT", "CHLD"}
    /\ pc \in PC
    /\ job \in Seq(Pids) /\ exits \subseteq Pids
    /\ pid \in Pids \cup {NoPid}
    /\ i \in 0 .. DeadMax + 1 /\ reg \in -1 .. DeadMax + 1
    /\ status \in Status
    /\ res \in Status \cup {"interrupted"}

\* wait_on_child() answers with a status the kernel reported for the process
\* it was asked to wait for, whatever the handler did to the list meanwhile
\* (backend.c:184-191); "interrupted" stands for its 128.
RightStatus ==
    pc = "return" /\ res # "interrupted" => res \in delivered[job[1]]

\* Without job control a wait that was not interrupted is over only when the
\* kernel has given up every process of the job (backend.c:213-239).
JobFinished ==
    pc = "return" /\ res # "interrupted" /\ ~monitor =>
        \A p \in Members(job) : proc[p] = "gone"

\* While the shell waits for a process that is already gone, that process is
\* on the dead list: nobody else will wake the shell for it.
NeverStranded ==
    pc \in {"rip", "sigint", "suspend", "asleep"} /\ ~handling /\ proc[pid] = "gone" =>
        Listed(pid)

\* The shell does not sleep while rip_dead() would find what it waits for.
SleepsOnlyWithoutAnswer == pc = "asleep" /\ ~handling => ~Listed(pid)

\* Outside an update, each listed status is one the kernel reported.
RightEntries ==
    pc \notin {"copyPid", "copyStatus", "clearPid", "clearStatus", "load", "store"} =>
        \A k \in Live : Slot(k).pid # NoPid => Slot(k).status \in delivered[Slot(k).pid]

\* Every wait ends (or takes the shell with it): backend.c:130, "Wait on
\* the child process with the given pid until it changes status".
WaitEnds == pc = "rip" ~> pc \notin Waiting

----------------------------------------------------------------------------
(* What the program promises, without lists and handlers.                  *)

FateOf(state, reported, handed) ==
    CASE state = "unborn" -> "unborn"
      [] state = "zombie" -> reported
      [] state = "gone"   -> CHOOSE s \in handed : s \in Ended
      [] OTHER            -> "running"

Fate == [p \in Pids |-> FateOf(proc[p], report[p], delivered[p])]

Phase == CASE pc = "forking"                 -> "starting"
           [] pc \in Waiting                 -> "waiting"
           [] pc = "return"                  -> "answered"
           [] pc \in Stopped                 -> "lost"
           [] OTHER                          -> "idle"

Promise == INSTANCE CommandRun WITH
    jobControl <- monitor,
    fate       <- Fate,
    phase      <- Phase,
    answer     <- IF pc = "return" THEN res ELSE "none"

\* wait_on_child() with its dead list implements CommandRun.
ImplementsCommandRun == Promise!Spec
=============================================================================
