------------------------------- MODULE Jobs -------------------------------
(***************************************************************************)
(* The jobs table (jobs.c) and the builtins that work on it: wait, fg, bg, *)
(* jobs, disown, notify, kill and the HUP that exit sends.                 *)
(*                                                                         *)
(* The table is an array whose used slots form a prefix: removing a job    *)
(* moves the later ones down.  Builtins hold a pointer to a slot, not a    *)
(* job number, across waitpid(); SIGCHLD_handler() changes the table       *)
(* between any two steps of the main program.  The table and the current   *)
(* and previous job are one record, and the functions of jobs.c are        *)
(* operators from one such record to the next, so that a handler is the    *)
(* composition of the calls it makes.                                      *)
(*                                                                         *)
(* What one step of the main program does to the table is atomic.  The     *)
(* code blocks SIGCHLD for jobs, kill, disown and the removals of wait,    *)
(* but not for add_job() and check_on_children(): what the handler meets   *)
(* inside these two is the subject of TableRaces.  last_job_with_status()  *)
(* unblocks SIGCHLD, in the handler too, which is then interrupted by      *)
(* itself while it chooses the current job: Reentrant says whether this    *)
(* happens.  The races on the dead list are the subject of ForegroundWait; *)
(* here it is unbounded and atomic.                                        *)
(***************************************************************************)
EXTENDS Integers, Sequences, FiniteSets, SequencesExt

CONSTANTS
    Pids,        \* the children the shell may fork
    NoPid,       \* "no process group of its own"
    MaxJobs,     \* MAX_JOBS
    PipeMax,     \* bound on the processes of a foreground pipeline
    Fates,       \* how a child may end
    Stoppable,   \* the children that may be stopped and continued
    Monitors,    \* whether the -m option is on (a subset of BOOLEAN)
    Commands,    \* the builtins that are run
    MaxCommands, \* bound on the builtins run (the prompt's check counts as one)
    AtOnce,      \* whether the -b option is on (a subset of BOOLEAN)
    Reentrant    \* whether SIGCHLD interrupts its own handler

Ended   == {"zero", "exit1", "killed"}      \* "zero" is also a new job's status
Status  == Ended \cup {"stop", "cont"}
Running(s) == s \in {"zero", "cont"}        \* RUNNING(): exit status 0 counts
Stopped(s) == s = "stop"

ASSUME PidsAssumption    == NoPid \notin Pids /\ IsFiniteSet(Pids)
ASSUME MaxJobsAssumption == MaxJobs \in Nat \ {0}
ASSUME FatesAssumption   == Fates \subseteq Ended

VARIABLES
    proc,        \* the kernel's view of each child
    report,      \* the state change waitpid() has not handed out yet
    delivered,   \* history: the statuses waitpid() has handed out
    sigPending,  \* SIGCHLD is pending for the shell
    handling,    \* SIGCHLD_handler() is running
    lastStopped, \* its last_stopped, a slot (0: NULL)
    held,        \* what it is about to store when it is interrupted
    nested,      \* the handler that interrupted it is running
    dead,        \* the dead list
    tab,         \* jobs_table, cur_job, prev_job, total_jobs
    monitor,     \* option_set('m')
    atOnce,      \* option_set('b')
    commands,    \* how many builtins were run, for the bound
    pc,          \* what the main program does next
    mode,        \* on whose behalf it waits
    newjob,      \* the job under construction
    slot,        \* the slot a builtin points to (0: NULL)
    i,           \* its loop index
    pid,         \* the process waited for
    asked,       \* history: the process whose status wait was asked for
    eintr,       \* a handler ran since waitpid() began
    answer       \* what wait reported

kernel  == <<proc, report, delivered, sigPending>>
handler == <<handling, lastStopped, held, nested>>
options == <<monitor, atOnce>>
locals  == <<mode, newjob, slot, i, pid, asked, eintr, answer>>
vars    == <<kernel, handler, dead, tab, options, commands, pc, locals>>

NoJob == [num |-> 0, procs |-> <<>>, count |-> 0, exits |-> {},
          pgid |-> NoPid, status |-> "zero", flags |-> {}]

Slots == 1 .. MaxJobs

\* A number read from a job for cur_job or prev_job, and the job's slot.
Nothing == [what |-> "none", num |-> 0, slot |-> 0]

Init ==
    /\ proc        = [p \in Pids |-> "unborn"]
    /\ report      = [p \in Pids |-> "none"]
    /\ delivered   = [p \in Pids |-> {}]
    /\ sigPending  = FALSE
    /\ handling    = FALSE
    /\ lastStopped = 0
    /\ held        = Nothing
    /\ nested      = FALSE
    /\ dead        = <<>>
    /\ tab         = [slots |-> [k \in Slots |-> NoJob], cur |-> 0, prev |-> 0, total |-> 0]
    /\ monitor     \in Monitors
    /\ atOnce      \in AtOnce
    /\ commands    = 0
    /\ pc          = "idle"
    /\ mode        = "none"
    /\ newjob      = NoJob
    /\ slot        = 0
    /\ i           = 1
    /\ pid         = NoPid
    /\ asked       = NoPid
    /\ eintr       = FALSE
    /\ answer      = "none"

----------------------------------------------------------------------------
(* One job.                                                                *)

Marked(j)   == {n \in 1 .. j.count : j.procs[n] \in j.exits}
Complete(j) == Cardinality(Marked(j)) = j.count       \* child_exits = proc_count
Flagged(j, f) == f \in j.flags
Flag(j, f)    == [j EXCEPT !.flags = @ \cup {f}]
Unflag(j, fs) == [j EXCEPT !.flags = @ \ fs]

IsIn(j, p) == \E n \in 1 .. j.count : j.procs[n] = p

\* mutant: a stopped process is marked too
MarkAny(j, p, s) ==
    IF j.procs = <<>> THEN j
    ELSE Unflag([j EXCEPT !.exits = IF IsIn(j, p) THEN @ \cup {p} ELSE @], {"notified"})

\* set_pid_exit_status(); a freed slot has no pids[] and is left alone.
SetPidStatus(j, p, s) ==
    IF j.procs = <<>> THEN j
    ELSE Unflag([j EXCEPT !.exits = IF ~IsIn(j, p) THEN @
                                    ELSE IF s \in Ended THEN @ \cup {p} ELSE @ \ {p}],
                {"notified"})

\* set_job_exit_status(), with the pipefail option off.
LeadsForeground(j, p) == Flagged(j, "fg") /\ j.pgid = p     \* mutant
Leads(j, p) == (Flagged(j, "fg") /\ j.pgid = p) \/ (j.procs # <<>> /\ j.procs[1] = p)
SetJobStatus(j, p, s) == IF Leads(j, p) THEN [j EXCEPT !.status = s] ELSE j

\* pids[0] is read although pids is NULL.
ReadsNull(j, p) == j.procs = <<>> /\ ~(Flagged(j, "fg") /\ j.pgid = p)

----------------------------------------------------------------------------
(* The table.                                                              *)

Used(t)     == {k \in Slots : t.slots[k].num # 0}
SlotOf(t, n) == {k \in Used(t) : t.slots[k].num = n}
FirstOr0(S) == IF S = {} THEN 0 ELSE Min(S)

JobByPid(t, p) == FirstOr0({k \in Slots : IsIn(t.slots[k], p)})

\* last_job_with_status(): the highest job number below "older".
LastJob(t, older, running) ==
    LET Fits(s) == IF running THEN Running(s) ELSE Stopped(s)
        S == {t.slots[k].num : k \in {l \in Used(t) : Fits(t.slots[l].status)}}
    IN  IF \E n \in S : n < older THEN Max({n \in S : n < older}) ELSE 0

StoppedJob(t, n) == \E k \in SlotOf(t, n) : Stopped(t.slots[k].status)

\* set_cur_job() for a job with number n (0 for one not in the table, whose
\* number get_job_by_jobid() finds in the first free slot).
OldJob(t, n) == IF t.cur # n THEN t.cur ELSE t.prev
KeepsOld(t, n) == OldJob(t, n) \notin {0, n} /\ StoppedJob(t, OldJob(t, n))
SetCurJob(t, n) ==
    LET k      == FirstOr0({l \in Slots : t.slots[l].num = n})
        after  == IF Stopped(t.slots[k].status) THEN LastJob(t, n, FALSE) ELSE 0
        active == LastJob(t, IF Running(t.slots[k].status) THEN n ELSE MaxJobs, TRUE)
        best   == IF k = 0 THEN 0 ELSE IF after # 0 THEN after ELSE active
    IN  [t EXCEPT !.cur  = n,
                  !.prev = IF KeepsOld(t, n) THEN OldJob(t, n) ELSE IF best # 0 THEN best ELSE n]

\* mutant: the numbers stay when no job is left
KeepCurJob(t) ==
    LET S == {n \in {t.cur, t.prev} : n # 0 /\ StoppedJob(t, n)}
        new == IF S # {} THEN Max(S) ELSE LastJob(t, MaxJobs, TRUE)
    IN  IF new # 0 THEN SetCurJob(t, new) ELSE t

\* reset_cur_job(): a job that was current or previous and is stopped comes first.
StoppedCurrent(t) == IF t.total # 0 /\ t.cur # 0 /\ StoppedJob(t, t.cur) THEN t.cur
                     ELSE IF t.prev # 0 /\ StoppedJob(t, t.prev) THEN t.prev
                     ELSE 0
ResetCurJob(t) ==
    LET stopped == LastJob(t, MaxJobs, FALSE)
        new == IF StoppedCurrent(t) # 0 THEN StoppedCurrent(t)
               ELSE IF stopped # 0 THEN stopped
               ELSE LastJob(t, MaxJobs, TRUE)
    IN  IF new # 0 THEN SetCurJob(t, new) ELSE [t EXCEPT !.cur = 0, !.prev = 0]

Room(t) == Used(t) # Slots

\* mutant: number the job by how many there are
AddCounted(t, j) ==
    LET k == Min(Slots \ Used(t))
    IN  SetCurJob([t EXCEPT !.slots[k] = [j EXCEPT !.num = t.total + 1], !.total = @ + 1],
                  t.total + 1)

\* add_job()
Add(t, j) ==
    LET k   == Min(Slots \ Used(t))
        num == 1 + Max({0} \cup {t.slots[l].num : l \in Used(t)})
    IN  SetCurJob([t EXCEPT !.slots[k] = [j EXCEPT !.num = num], !.total = @ + 1], num)

\* remove_job(): the slot a job is moved out of keeps its other fields, and
\* the job numbers that should give the new previous job are cleared before
\* they are looked at.
MovedNumber(j) == [j EXCEPT !.num = 0]                      \* mutant
MovedOut(j) == [j EXCEPT !.num = 0, !.count = 0]
FreedPids(j) == [j EXCEPT !.num = 0, !.procs = <<>>]        \* mutant
Freed(j)    == [j EXCEPT !.num = 0, !.count = 0, !.procs = <<>>]
RemoveJob(t, k) ==
    LET was    == t.slots
        Moves(l) == l > k /\ was[l].num # 0
        now    == [l \in Slots |->
                      IF l >= k /\ l < MaxJobs /\ Moves(l + 1) THEN was[l + 1]
                      ELSE IF Moves(l) THEN MovedOut(was[l])
                      ELSE IF l = k THEN Freed(was[l])
                      ELSE was[l]]
        isCur  == was[k].num = t.cur
    IN  [slots |-> now,
         cur   |-> IF isCur THEN t.prev ELSE t.cur,
         prev  |-> IF isCur THEN 0 ELSE t.prev,
         total |-> t.total - 1]

\* remove_dead_jobs()
AnyNotified(t) == {k \in Used(t) : Flagged(t.slots[k], "notified")}     \* mutant
Reported(t) == {k \in Used(t) : Complete(t.slots[k]) /\ Flagged(t.slots[k], "notified")}
RemoveDead(t) ==
    LET after[n \in 0 .. MaxJobs] ==
            IF n = 0 THEN t
            ELSE LET u == after[n - 1]
                 IN  IF Reported(u) = {} THEN u ELSE RemoveJob(u, Min(Reported(u)))
    IN  after[MaxJobs]

\* mutant: the job goes as soon as the user was told about it
OutputAndForget(t, p) ==
    LET k == JobByPid(t, p) IN IF k = 0 THEN t ELSE RemoveJob(t, k)

\* do_output_status()
OutputStatus(t, p) ==
    LET k == JobByPid(t, p)
        u == [t EXCEPT !.slots[k] = Flag(@, "notified")]
    IN  IF k = 0 THEN t ELSE IF Complete(u.slots[k]) THEN RemoveJob(u, k) ELSE u

\* The part of notice_termination() that concerns the table.
Notice(t, p, s) ==
    LET u == IF atOnce THEN OutputStatus(t, p) ELSE t
        k == JobByPid(u, p)
        v == [u EXCEPT !.slots[k] = SetJobStatus(SetPidStatus(@, p, s), p, s)]
    IN  IF k = 0 THEN u
        ELSE IF Flagged(v.slots[k], "control") /\ ~atOnce /\ Flagged(v.slots[k], "notify")
             THEN OutputStatus(v, p)
             ELSE v

----------------------------------------------------------------------------
(* The dead list.                                                          *)

Listed(p) == \E n \in DOMAIN dead : dead[n].pid = p
Place(p) == Min({n \in DOMAIN dead : dead[n].pid = p})
ListedStatus(p) == dead[Place(p)].status
Put(p, s) == IF Listed(p)
             THEN [n \in DOMAIN dead |-> IF dead[n].pid = p THEN [pid |-> p, status |-> s]
                                         ELSE dead[n]]
             ELSE Append(dead, [pid |-> p, status |-> s])
Without(p) == RemoveAt(dead, Place(p))

----------------------------------------------------------------------------
(* The children and the kernel.                                            *)

Change(p, state, s) ==
    /\ proc'       = [proc EXCEPT ![p] = state]
    /\ report'     = [report EXCEPT ![p] = s]
    /\ sigPending' = TRUE
    /\ UNCHANGED <<delivered, handler, dead, tab, options, pc, locals>>

Exit(p) ==
    \E f \in Fates :
        /\ proc[p] = "running" \/ (proc[p] = "stopped" /\ f = "killed")
        /\ Change(p, "zombie", f)

\* Bound: a child whose stop was reported is not stopped again.
StopOnce(p) == "stop" \notin delivered[p]
Stop(p) == p \in Stoppable /\ StopOnce(p) /\ proc[p] = "running" /\ Change(p, "stopped", "stop")
Cont(p) == proc[p] = "stopped" /\ Change(p, "running", "cont")

Fork(p) ==
    /\ proc[p] = "unborn"
    /\ proc' = [proc EXCEPT ![p] = "running"]
    /\ UNCHANGED <<report, delivered, sigPending>>

\* waitpid() hands out the state changes of the processes in S.
Collected(S) ==
    /\ proc'      = [p \in Pids |-> IF p \in S /\ proc[p] = "zombie" THEN "gone" ELSE proc[p]]
    /\ report'    = [p \in Pids |-> IF p \in S THEN "none" ELSE report[p]]
    /\ delivered' = [p \in Pids |-> IF p \in S THEN delivered[p] \cup {report[p]}
                                    ELSE delivered[p]]
    /\ UNCHANGED sigPending

\* kill(-pgid, SIGCONT)
Continued(S) ==
    LET woken == {p \in S : proc[p] = "stopped"}
    IN  /\ proc'       = [p \in Pids |-> IF p \in woken THEN "running" ELSE proc[p]]
        /\ report'     = [p \in Pids |-> IF p \in woken THEN "cont" ELSE report[p]]
        /\ sigPending' = (sigPending \/ woken # {})
        /\ UNCHANGED delivered

----------------------------------------------------------------------------
(* SIGCHLD_handler().                                                      *)

Over == {"crashed", "exited"}

\* Bound: a handler that interrupts another one is not interrupted itself.
HandlerEnter ==
    /\ sigPending /\ pc \notin Over
    /\ handling => held # Nothing /\ ~nested
    /\ handling'    = TRUE
    /\ nested'      = handling
    /\ lastStopped' = 0
    /\ sigPending'  = FALSE
    /\ UNCHANGED <<proc, report, delivered, held, dead, tab, options, pc, locals>>

\* The handler that runs has not chosen the current job yet.
Looping == handling /\ (held = Nothing \/ nested)

HandlerReap(p) ==
    /\ Looping
    /\ report[p] # "none"
    /\ Collected({p})
    /\ dead' = Put(p, report[p])
    /\ tab'  = Notice(tab, p, report[p])
    /\ LET k == JobByPid(tab', p) IN
       lastStopped' = IF k = 0 THEN lastStopped
                      ELSE IF Stopped(tab'.slots[k].status) THEN k
                      ELSE IF Complete(tab'.slots[k]) /\ lastStopped = k THEN 0
                      ELSE lastStopped
    /\ UNCHANGED <<handling, held, nested, options, pc, locals>>

\* waitpid(-1) has nothing more to report.
LoopEnds == Looping /\ \A p \in Pids : report[p] = "none"

Chosen == IF lastStopped # 0 THEN SetCurJob(tab, tab.slots[lastStopped].num)
          ELSE ResetCurJob(tab)

\* waitpid() was interrupted, unless it had not begun yet
Interrupting == eintr' \in {eintr, eintr \/ pc = "waitpid"}

HandlerExit ==
    /\ LoopEnds
    /\ tab'      = Chosen
    /\ handling' = nested
    /\ nested'   = FALSE
    /\ Interrupting
    /\ UNCHANGED <<kernel, lastStopped, held, dead, options, pc, mode, newjob, slot, i, pid, asked, answer>>

\* SIGCHLD is unblocked by the first search for a job.  It may arrive when a
\* job was found and its number is not stored yet: reset_cur_job() is about to
\* make it the current job, or set_cur_job() the previous one.
HandlerPause ==
    /\ Reentrant /\ LoopEnds /\ ~nested
    /\ LET n == Chosen.cur
           m == Chosen.prev
       IN  /\ n # 0
           /\ \/ /\ lastStopped = 0 /\ StoppedCurrent(tab) = 0
                 /\ held' = [what |-> "cur", num |-> n, slot |-> FirstOr0(SlotOf(tab, n))]
                 /\ UNCHANGED tab
              \/ /\ ~KeepsOld(tab, n)
                 /\ held' = [what |-> "prev", num |-> m,
                             slot |-> IF m = n THEN 0 ELSE FirstOr0(SlotOf(tab, m))]
                 /\ tab'  = [tab EXCEPT !.cur = n, !.prev = OldJob(tab, n)]
    /\ UNCHANGED <<kernel, handling, lastStopped, nested, dead, options, pc, locals>>

\* The number in hand, if it was read before the interruption, or the one that
\* is in the slot now (in cur_job, when that is what prev_job gets).
Numbers == {held.num, IF held.slot = 0 THEN tab.cur ELSE tab.slots[held.slot].num}

HandlerResume ==
    /\ handling /\ held # Nothing /\ ~nested
    /\ \E n \in Numbers :
          tab' = IF held.what = "cur" THEN SetCurJob(tab, n) ELSE [tab EXCEPT !.prev = n]
    /\ handling' = FALSE
    /\ held'     = Nothing
    /\ Interrupting
    /\ UNCHANGED <<kernel, lastStopped, nested, dead, options, pc, mode, newjob, slot, i, pid, asked, answer>>

----------------------------------------------------------------------------
(* Starting jobs.                                                          *)

Idle == pc = "idle" /\ ~handling

\* new_job(), add_pid_to_job()
NewJob(p, flags) ==
    [NoJob EXCEPT !.procs = <<p>>, !.count = 1,
                  !.pgid  = IF monitor THEN p ELSE NoPid,
                  !.flags = flags \cup (IF monitor THEN {"control"} ELSE {})]

\* do_and_or() with fg = 0: the job is added after the fork.
Launch(p) ==
    /\ Idle
    /\ Fork(p)
    /\ newjob' = NewJob(p, {})
    /\ pc'     = "adding"
    /\ UNCHANGED <<handler, dead, tab, options, mode, slot, i, pid, asked, eintr, answer>>

AddJob ==
    /\ pc = "adding" /\ ~handling
    /\ tab'    = IF Room(tab) THEN Add(tab, newjob) ELSE tab
    /\ newjob' = NoJob
    /\ pc'     = "idle"
    /\ UNCHANGED <<kernel, handler, dead, options, mode, slot, i, pid, asked, eintr, answer>>

\* do_simple_command() or do_pipeline() forks the next process of a foreground job.
StartForeground(p) ==
    /\ pc \in {"idle", "forking"} /\ ~handling
    /\ pc = "forking" => newjob.count < PipeMax
    /\ Fork(p)
    /\ newjob' = IF pc = "idle" THEN NewJob(p, {"fg"})
                 ELSE [newjob EXCEPT !.procs = Append(@, p), !.count = @ + 1]
    /\ pc'     = "forking"
    /\ UNCHANGED <<handler, dead, tab, options, mode, slot, i, pid, asked, eintr, answer>>

StartWait ==
    /\ pc = "forking" /\ ~handling
    /\ pid' = newjob.procs[1]
    /\ pc'  = "fgwait"
    /\ UNCHANGED <<kernel, handler, dead, tab, options, mode, newjob, slot, i, asked, eintr, answer>>

\* wait_on_child() takes pid's status from the dead list.  Under job control a
\* stopped or killed process ends the wait and is listed again (its signal,
\* which wait_on_child() passes on, does not kill this shell); a job with
\* processes left goes into the table.
FgCollect ==
    /\ pc = "fgwait" /\ ~handling
    /\ Listed(pid)
    /\ LET s      == ListedStatus(pid)
           signal == monitor /\ s \in {"stop", "killed"}
           marked == SetPidStatus(newjob, pid, s)
           job    == IF signal THEN marked ELSE SetJobStatus(marked, pid, s)
           left   == (1 .. job.count) \ Marked(job)
       IN  /\ dead' = IF signal THEN Append(Without(pid), [pid |-> pid, status |-> s])
                      ELSE Without(pid)
           /\ tab'  = IF signal THEN SetCurJob(tab, 0) ELSE tab
           /\ \/ /\ signal \/ left = {}
                 /\ pc'     = IF left = {} THEN "idle" ELSE "adding"
                 /\ newjob' = IF left = {} THEN NoJob ELSE job
                 /\ UNCHANGED pid
              \/ /\ ~signal /\ left # {}
                 /\ pid'    = job.procs[Min(left)]
                 /\ newjob' = job
                 /\ UNCHANGED pc
    /\ UNCHANGED <<kernel, handler, options, mode, slot, i, asked, eintr, answer>>

----------------------------------------------------------------------------
(* check_on_children(), at the prompt of a shell with job control.         *)

CheckOnChildren ==
    /\ Idle /\ monitor
    /\ pc' = "check"
    /\ i'  = 1
    /\ UNCHANGED <<kernel, handler, dead, tab, options, mode, newjob, slot, pid, asked, eintr, answer>>

\* What both of its loops do with one status; the second one prints and
\* removes whether or not the job was started under job control.
Look(p, s, controlled) ==
    LET k == JobByPid(tab, p)
        t == [tab EXCEPT !.slots[k] = SetJobStatus(@, p, s)]
        tells == controlled => Flagged(tab.slots[k], "control")
    IN  IF k = 0 THEN tab
        ELSE IF Complete(tab.slots[k])
             THEN IF ~Flagged(tab.slots[k], "fg") /\ tells THEN OutputStatus(t, p)
                  ELSE RemoveJob(t, k)
        ELSE IF s \notin {"zero", "exit1"} /\ ~Flagged(tab.slots[k], "notified") /\ tells
             THEN OutputStatus(t, p)
        ELSE t

CheckEntry ==
    /\ pc = "check" /\ ~handling
    /\ IF i <= Len(dead)
       THEN tab' = Look(dead[i].pid, dead[i].status, TRUE) /\ i' = i + 1 /\ UNCHANGED pc
       ELSE pc' = "reset" /\ UNCHANGED <<tab, i>>
    /\ UNCHANGED <<kernel, handler, dead, options, mode, newjob, slot, pid, asked, eintr, answer>>

CheckReset ==
    /\ pc = "reset" /\ ~handling
    /\ dead' = <<>>
    /\ pc'   = "drain"
    /\ UNCHANGED <<kernel, handler, tab, options, locals>>

Drain(p) ==
    /\ pc = "drain" /\ ~handling
    /\ report[p] # "none"
    /\ Collected({p})
    /\ tab' = Look(p, report[p], FALSE)
    /\ UNCHANGED <<handler, dead, options, pc, locals>>

DrainEnd ==
    /\ pc = "drain" /\ ~handling
    /\ \A p \in Pids : report[p] = "none"
    /\ pc' = "idle"
    /\ UNCHANGED <<kernel, handler, dead, tab, options, locals>>

----------------------------------------------------------------------------
(* Builtins that finish in one step.  k is the slot a job id or pid names. *)

Jobs == {k \in Slots : tab.slots[k].num # 0}

\* do_kill() with a process group, when the signal is SIGCONT or another one.
Signalled(j, cont) ==
    IF cont /\ j.pgid # NoPid /\ Stopped(j.status) THEN Unflag(j, {"fg", "notified"})
    ELSE Unflag(j, {"notified"})

Members(j) == {j.procs[n] : n \in 1 .. j.count}

Kill(k, cont) ==
    /\ Idle
    /\ tab' = [tab EXCEPT !.slots[k] = Signalled(@, cont)]
    /\ Continued(IF cont THEN Members(tab.slots[k]) ELSE {})
    /\ UNCHANGED <<handler, dead, options, pc, locals>>

\* do_bg()
Bg(k) ==
    /\ Idle /\ monitor
    /\ Flagged(tab.slots[k], "control")
    /\ ~Running(tab.slots[k].status)
    /\ tab' = ResetCurJob([tab EXCEPT !.slots[k] = Unflag(@, {"fg", "notified"})])
    /\ Continued(Members(tab.slots[k]))
    /\ UNCHANGED <<handler, dead, options, pc, locals>>

Notify(k) ==
    /\ Idle
    /\ tab' = [tab EXCEPT !.slots[k] = Flag(@, "notify")]
    /\ UNCHANGED <<kernel, handler, dead, options, pc, locals>>

Filters == {"all", "running", "stopped"}

\* disown_job()
DisownJob(t, k, nohup, filter) ==
    LET s == t.slots[k].status
    IN  IF (filter = "running" /\ ~Running(s)) \/ (filter = "stopped" /\ ~Stopped(s)) THEN t
        ELSE IF nohup THEN [t EXCEPT !.slots[k] = Flag(@, "disowned")]
        ELSE RemoveJob(t, k)

Disown(k, nohup) ==
    /\ Idle
    /\ tab' = DisownJob(tab, k, nohup, "all")
    /\ UNCHANGED <<kernel, handler, dead, options, pc, locals>>

\* disown -a, -r, -s: the loop goes on to the next slot after a removal, which
\* has moved that slot's job down.
DisownJobs(nohup, filter) ==
    LET after[k \in 0 .. MaxJobs] ==
            IF k = 0 THEN tab
            ELSE LET t == after[k - 1]
                 IN  IF t.slots[k].num = 0 THEN t ELSE DisownJob(t, k, nohup, filter)
    IN  after[MaxJobs]
DisownAll(nohup, filter) ==
    /\ Idle
    /\ tab' = DisownJobs(nohup, filter)
    /\ UNCHANGED <<kernel, handler, dead, options, pc, locals>>

\* jobs_builtin() without operands: update_job_exit_status() collects the dead
\* processes of every job, and all jobs end up notified.
DeadMembers == {p \in UNION {Members(tab.slots[k]) : k \in Jobs} : proc[p] = "zombie"}
Updated(j) ==
    LET after[n \in 0 .. j.count] ==
            IF n = 0 THEN j
            ELSE LET u == after[n - 1]
                     p == j.procs[n]
                 IN  IF p \in DeadMembers
                     THEN SetJobStatus(SetPidStatus(u, p, report[p]), p, report[p]) ELSE u
    IN  Flag(after[j.count], "notified")
Listing ==
    /\ Collected(DeadMembers)
    /\ tab' = RemoveDead([tab EXCEPT !.slots =
                  [k \in Slots |-> IF k \in Jobs THEN Updated(@[k]) ELSE @[k]]])

List ==
    /\ Idle
    /\ Listing
    /\ UNCHANGED <<handler, dead, options, pc, locals>>

----------------------------------------------------------------------------
(* Waiting: wait_for_job() and wait_for_pid().                             *)

\* Where the caller of a finished wait_for_job() or wait_for_pid() goes on.
After(m) == CASE m = "bg" -> "bgloop" [] m = "hup" -> "hup" [] OTHER -> "return"

\* wait_for_job(&jobs_table[k - 1]) on behalf of m.
WaitForJob(k, m) ==
    /\ slot' = k /\ i' = 1 /\ mode' = m
    /\ pc'   = "waitjob"

WaitJobId(k) ==
    /\ Idle
    /\ WaitForJob(k, "job")
    /\ asked' = tab.slots[k].procs[1]
    /\ UNCHANGED <<kernel, handler, dead, tab, options, newjob, pid, eintr, answer>>

Fg(k) ==
    /\ Idle /\ monitor
    /\ Flagged(tab.slots[k], "control")
    /\ tab' = LET t == SetCurJob([tab EXCEPT !.slots[k] = Unflag(Flag(@, "fg"), {"notified"})],
                              tab.slots[k].num)
              IN  [t EXCEPT !.slots[k] = Signalled(@, TRUE)]
    /\ Continued(Members(tab.slots[k]))
    /\ WaitForJob(k, "fg")
    /\ UNCHANGED <<handler, dead, options, newjob, pid, asked, eintr, answer>>

WaitPid(p) ==
    /\ Idle /\ proc[p] # "unborn"
    /\ pid' = p /\ asked' = p /\ slot' = JobByPid(tab, p) /\ mode' = "pid"
    /\ pc'  = "waitpid" /\ eintr' = FALSE
    /\ UNCHANGED <<kernel, handler, dead, tab, options, newjob, i, answer>>

\* The loop of wait_for_job() looks at the job's next process.
NextProcess ==
    /\ pc = "waitjob" /\ ~handling
    /\ LET j == tab.slots[slot] IN
       \/ /\ i > j.count
          /\ answer' = j.status
          /\ pc'     = After(mode)
          /\ UNCHANGED <<i, pid, eintr>>
       \/ /\ i <= j.count /\ i \in Marked(j)
          /\ i' = i + 1
          /\ UNCHANGED <<pc, pid, eintr, answer>>
       \/ /\ i <= j.count /\ i \notin Marked(j)
          /\ pid' = j.procs[i]
          /\ pc'  = "waitpid" /\ eintr' = FALSE
          /\ UNCHANGED <<i, answer>>
    /\ UNCHANGED <<kernel, handler, dead, tab, options, mode, newjob, slot, asked>>

\* mutant: the process is not marked
GotUnmarked(s) ==
    LET t == [tab EXCEPT !.slots[slot] = Flag(SetJobStatus(@, pid, s), "notified")]
    IN  IF slot = 0
        THEN tab' = RemoveDead(tab) /\ answer' = s /\ pc' = After(mode) /\ UNCHANGED i
        ELSE /\ tab'    = RemoveDead(t)
             /\ answer' = t.slots[slot].status
             /\ pc'     = IF mode = "pid" THEN "return" ELSE "waitjob"
             /\ i'      = i + 1

\* wait_for_pid() has got status s; slot may not be the job it was any more.
Got(s) ==
    LET j == tab.slots[slot]
        t == [tab EXCEPT !.slots[slot] =
                 Flag(SetJobStatus(SetPidStatus(@, pid, s), pid, s), "notified")]
    IN  IF slot = 0
        THEN tab' = RemoveDead(tab) /\ answer' = s /\ pc' = After(mode) /\ UNCHANGED i
        ELSE IF ReadsNull(j, pid)
        THEN pc' = "crashed" /\ UNCHANGED <<tab, answer, i>>
        ELSE /\ tab'    = RemoveDead(t)
             /\ answer' = t.slots[slot].status
             /\ pc'     = IF mode = "pid" THEN "return" ELSE "waitjob"
             /\ i'      = i + 1

Waiting == pc = "waitpid" /\ ~handling
Reaped(p) == proc[p] \in {"gone", "unborn"}

\* waitpid(pid) succeeds.
WaitCollect ==
    /\ Waiting /\ ~eintr
    /\ proc[pid] = "zombie"
    /\ Collected({pid})
    /\ Got(report[pid])
    /\ UNCHANGED <<handler, dead, options, mode, newjob, slot, pid, asked, eintr>>

\* It fails with ECHILD or was interrupted by SIGCHLD: rip_dead().
WaitRip ==
    /\ Waiting
    /\ Reaped(pid) \/ eintr
    /\ Listed(pid)
    /\ dead' = Without(pid)
    /\ Got(ListedStatus(pid))
    /\ UNCHANGED <<kernel, handler, options, mode, newjob, slot, pid, asked, eintr>>

\* "process is not a child of this shell"
WaitNoChild ==
    /\ Waiting
    /\ Reaped(pid) /\ ~Listed(pid)
    /\ answer' = "nochild"
    /\ pc'     = After(mode)
    /\ UNCHANGED <<kernel, handler, dead, tab, options, mode, newjob, slot, i, pid, asked, eintr>>

WaitOn ==
    /\ Waiting
    /\ eintr /\ ~Listed(pid)
    /\ eintr' = FALSE
    /\ UNCHANGED <<kernel, handler, dead, tab, options, pc, mode, newjob, slot, i, pid, asked, answer>>

\* SIGINT while waitpid() sleeps: wait_interrupted() lists the jobs.
WaitInterrupted ==
    /\ Waiting /\ ~eintr
    /\ proc[pid] \in {"running", "stopped"}
    /\ Listing
    /\ answer' = "interrupted"
    /\ pc'     = After(mode)
    /\ UNCHANGED <<handler, dead, options, mode, newjob, slot, i, pid, asked, eintr>>

Return ==
    /\ pc = "return" /\ ~handling
    /\ pc'   = "idle"
    /\ mode' = "none" /\ slot' = 0 /\ i' = 1 /\ pid' = NoPid /\ asked' = NoPid
    /\ eintr' = FALSE /\ answer' = "none"
    /\ UNCHANGED <<kernel, handler, dead, tab, options, newjob>>

----------------------------------------------------------------------------
(* wait without operands: wait_for_bg().                                   *)

WaitBg ==
    /\ Idle
    /\ pc' = "bgloop" /\ mode' = "bg"
    /\ UNCHANGED <<kernel, handler, dead, tab, options, newjob, slot, i, pid, asked, eintr, answer>>

Unfinished == {k \in Jobs : ~Complete(tab.slots[k]) /\ ~Flagged(tab.slots[k], "fg")}

\* The next unfinished background job is waited for; when there is none, all
\* finished jobs are marked as notified (the shell is interactive).
BgLoop ==
    /\ pc = "bgloop" /\ ~handling
    /\ \/ /\ Unfinished # {}
          /\ WaitForJob(Min(Unfinished), "bg")
          /\ UNCHANGED tab
       \/ /\ Unfinished = {}
          /\ tab' = [tab EXCEPT !.slots = [k \in Slots |->
                        IF k \in Jobs /\ Complete(@[k]) THEN Flag(@[k], "notified") ELSE @[k]]]
          /\ pc'  = "bgclear"
          /\ UNCHANGED <<slot, i, mode>>
    /\ UNCHANGED <<kernel, handler, dead, options, newjob, pid, asked, eintr, answer>>

\* remove_dead_jobs(), clear_deadlist()
BgClear ==
    /\ pc = "bgclear" /\ ~handling
    /\ tab'  = RemoveDead(tab)
    /\ dead' = <<>>
    /\ pc'   = "return"
    /\ UNCHANGED <<kernel, handler, options, locals>>

----------------------------------------------------------------------------
(* wait -n: wait_for_any().                                                *)

Finished == {k \in Jobs : Complete(tab.slots[k])}
Untold   == {k \in Finished : ~Flagged(tab.slots[k], "notified")}

\* Report the job in slot k and forget it.
Fin(k) == answer' = tab.slots[k].status /\ tab' = RemoveJob(tab, k) /\ pc' = "return"

WaitAny ==
    /\ Idle
    /\ mode' = "any"
    /\ IF Untold # {} THEN Fin(Min(Untold))
       ELSE pc' = "anyloop" /\ UNCHANGED <<answer, tab>>
    /\ UNCHANGED <<kernel, handler, dead, options, newjob, slot, i, pid, asked, eintr>>

AnyLoop ==
    /\ pc = "anyloop" /\ ~handling
    /\ pc'     = IF Unfinished = {} THEN "return" ELSE "waitany"
    /\ answer' = IF Unfinished = {} THEN "nochild" ELSE answer
    /\ UNCHANGED <<kernel, handler, dead, tab, options, mode, newjob, slot, i, pid, asked, eintr>>

\* waitpid(-1) returns p: its job is updated, and notified jobs are removed.
AnyCollect(p) ==
    /\ pc = "waitany" /\ ~handling
    /\ proc[p] = "zombie"
    /\ Collected({p})
    /\ LET k == JobByPid(tab, p)
           t == [tab EXCEPT !.slots[k] = SetJobStatus(SetPidStatus(@, p, report[p]), p, report[p])]
       IN  tab' = RemoveDead(IF k = 0 THEN tab ELSE t)
    /\ pc' = "anydone"
    /\ UNCHANGED <<handler, dead, options, locals>>

AnyDone ==
    /\ pc = "anydone" /\ ~handling
    /\ IF Finished # {} THEN Fin(Min(Finished))
       ELSE pc' = "anyloop" /\ UNCHANGED <<answer, tab>>
    /\ UNCHANGED <<kernel, handler, dead, options, mode, newjob, slot, i, pid, asked, eintr>>

\* "no children to wait for": the handler was there first.
AnyNoChild ==
    /\ pc = "waitany" /\ ~handling
    /\ \A p \in Pids : Reaped(p)
    /\ answer' = "nochild"
    /\ pc'     = "return"
    /\ UNCHANGED <<kernel, handler, dead, tab, options, mode, newjob, slot, i, pid, asked, eintr>>

\* SIGINT, again.  The wait goes on, unless the listing asked for a process that
\* is gone and left ECHILD in errno.
AnyInterrupted ==
    /\ pc = "waitany" /\ ~handling
    /\ \A p \in Pids : proc[p] # "zombie"
    /\ \E p \in Pids : proc[p] \in {"running", "stopped"}
    /\ Listing
    /\ answer' = "interrupted"
    /\ pc' = IF \E k \in Jobs : \E p \in Members(tab.slots[k]) : Reaped(p)
             THEN "return" ELSE "anydone"
    /\ UNCHANGED <<handler, dead, options, mode, newjob, slot, i, pid, asked, eintr>>

----------------------------------------------------------------------------
(* Leaving: kill_all_jobs(SIGHUP, JOB_FLAG_DISOWNED).                      *)

Leave ==
    /\ Idle
    /\ pc' = "hup" /\ mode' = "hup" /\ slot' = 0
    /\ UNCHANGED <<kernel, handler, dead, tab, options, newjob, i, pid, asked, eintr, answer>>

\* The loop looks at the slot behind the one it waited for; a job that was
\* removed meanwhile has moved the others down.
Hup ==
    /\ pc = "hup" /\ ~handling
    /\ LET todo == {k \in Jobs : k > slot /\ ~Flagged(tab.slots[k], "disowned")} IN
       \/ /\ todo = {}
          /\ pc' = "exited"
          /\ UNCHANGED <<kernel, tab, slot, i, mode>>
       \/ /\ todo # {}
          /\ tab' = [tab EXCEPT !.slots[Min(todo)] = Signalled(@, FALSE)]
          /\ Continued(Members(tab.slots[Min(todo)]))
          /\ WaitForJob(Min(todo), "hup")
    /\ UNCHANGED <<handler, dead, options, newjob, pid, asked, eintr, answer>>

----------------------------------------------------------------------------
Child(p) == Exit(p) \/ Stop(p) \/ Cont(p)

Handler == \/ HandlerEnter \/ (\E p \in Pids : HandlerReap(p)) \/ HandlerExit
           \/ HandlerPause \/ HandlerResume

\* The builtins that the user of this instance runs.
May(name) == name \in Commands

Builtin ==
    \/ \E k \in Jobs : \/ May("kill")   /\ \E cont \in BOOLEAN : Kill(k, cont)
                       \/ May("disown") /\ \E nohup \in BOOLEAN : Disown(k, nohup)
                       \/ May("bg")     /\ Bg(k)
                       \/ May("fg")     /\ Fg(k)
                       \/ May("notify") /\ Notify(k)
                       \/ May("wait")   /\ WaitJobId(k)
    \/ May("disown") /\ \E nohup \in BOOLEAN, filter \in Filters : DisownAll(nohup, filter)
    \/ May("wait")   /\ (WaitBg \/ WaitAny \/ \E p \in Pids : WaitPid(p))
    \/ May("jobs")   /\ List
    \/ May("exit")   /\ Leave
    \/ May("prompt") /\ CheckOnChildren

Start == \E p \in Pids : Launch(p) \/ StartForeground(p)

\* What the main program does next, once it has begun a command.
Proceed ==
    \/ AddJob \/ StartWait \/ FgCollect
    \/ CheckEntry \/ CheckReset \/ (\E p \in Pids : Drain(p)) \/ DrainEnd
    \/ NextProcess \/ WaitCollect \/ WaitRip \/ WaitNoChild \/ WaitOn \/ Return
    \/ BgLoop \/ BgClear \/ AnyLoop \/ (\E p \in Pids : AnyCollect(p)) \/ AnyDone \/ AnyNoChild
    \/ Hup

\* Everything but the start of a builtin.
Uncounted(A) == A /\ UNCHANGED commands

Command ==
    /\ commands < MaxCommands
    /\ Builtin
    /\ commands' = commands + 1

Next == \/ Uncounted((\E p \in Pids : Child(p)) \/ Handler \/ Start \/ Proceed)
        \/ Uncounted(WaitInterrupted \/ AnyInterrupted)
        \/ Command

(* The main program and the handler keep running, a pending SIGCHLD is     *)
(* delivered, and every child ends some day (a stopped one is continued    *)
(* first).                                                                 *)
Fairness ==
    /\ WF_vars(Uncounted(Proceed))
    /\ WF_vars(Uncounted(Handler))
    /\ \A p \in Pids : SF_vars(Uncounted(Exit(p))) /\ WF_vars(Uncounted(Cont(p)))

Spec == Init /\ [][Next]_vars /\ Fairness
----------------------------------------------------------------------------
(* Properties.                                                             *)

\* Every variable keeps its type; a job lists as many processes as it counts.
TypeOK ==
    /\ proc \in [Pids -> {"unborn", "running", "stopped", "zombie", "gone"}]
    /\ report \in [Pids -> Status \cup {"none"}]
    /\ delivered \in [Pids -> SUBSET Status]
    /\ lastStopped \in 0 .. MaxJobs
    /\ held \in [what : {"none", "cur", "prev"}, num : Nat, slot : 0 .. MaxJobs]
    /\ dead \in Seq([pid : Pids, status : Status])
    /\ \A k \in Slots : LET j == tab.slots[k] IN
          /\ j.num \in Nat /\ j.procs \in Seq(Pids) /\ j.count \in 0 .. Len(j.procs)
          /\ j.exits \subseteq Pids /\ j.pgid \in Pids \cup {NoPid} /\ j.status \in Status
          /\ j.flags \subseteq {"fg", "control", "notified", "notify", "disowned"}
    /\ {tab.cur, tab.prev, tab.total} \subseteq Nat
    /\ slot \in 0 .. MaxJobs /\ i \in Nat /\ pid \in Pids \cup {NoPid}
    /\ answer \in Status \cup {"none", "nochild", "interrupted"}

\* The used slots are a prefix of the table and their numbers increase, so
\* that %n names one job and add_job() can take the first free slot and one
\* more than the highest number (jobs.c:1495-1545, 1606-1678).
Packed ==
    /\ \A k \in Jobs : \A l \in 1 .. k - 1 : l \in Jobs /\ tab.slots[l].num < tab.slots[k].num
    /\ tab.total = Cardinality(Jobs)

\* get_job_by_any_pid() has one answer: no two slots, used or left behind by
\* a removal, count the same process.
OneJobEach ==
    \A k, l \in Slots : k # l => \A p \in Pids : ~(IsIn(tab.slots[k], p) /\ IsIn(tab.slots[l], p))

\* A process of a listed job is marked as exited only when the kernel has
\* given it up, whichever of the six places that call waitpid() got it.
MarkedAreGone ==
    \A k \in Jobs : \A n \in Marked(tab.slots[k]) : proc[tab.slots[k].procs[n]] = "gone"

\* A job leaves the table only when all its processes are gone, unless the
\* user disowns it, although removals work on slots that move.
Disowning == \/ \E k \in Jobs : Disown(k, FALSE)
             \/ \E filter \in Filters : DisownAll(FALSE, filter)
LeavesWhenDone ==
    [][\A k \in Jobs : LET j == tab.slots[k] IN
          \/ \E l \in Slots : tab'.slots[l].num = j.num /\ tab'.slots[l].procs = j.procs
          \/ Disowning
          \/ \A p \in Members(j) : proc'[p] = "gone"]_vars

\* When SIGCHLD_handler() returns, the current and the previous job exist
\* (0: there is none), whatever was removed since the last one.
CurrentExists ==
    [][HandlerExit \/ HandlerResume =>
          {tab'.cur, tab'.prev} \subseteq {0} \cup {tab'.slots[k].num : k \in Slots}]_vars

\* Without job control, and while no child was stopped, the status of every
\* dead process of a listed job is booked, on the dead list or in the hands
\* of the running wait: wait without operands can always finish.
Unstopped == \A p \in Pids : delivered[p] \subseteq Ended
AccountedWithoutControl ==
    ~monitor /\ Unstopped /\ ~handling =>
        \A k \in Jobs : \A p \in Members(tab.slots[k]) :
            proc[p] = "gone" => p \in tab.slots[k].exits \/ Listed(p)

\* Without job control, and while no child was stopped, "wait pid" answers
\* with the status of that process (wait.c:75-162).
WaitPidRight ==
    pc = "return" /\ mode = "pid" /\ ~monitor /\ Unstopped /\ answer \in Status =>
        answer \in delivered[asked]

\* "wait %n" answers with the status of that job: lsh.1:2985, "The exit
\* status is that of the last process waited for if job is specified".
WaitJobRight ==
    pc = "return" /\ mode = "job" /\ answer \in Status => answer \in delivered[asked]

\* "wait" returns when all children have ended: lsh.1:2984, "all active child
\* processes are waited for".
WaitBgReturns == pc = "bgloop" ~> pc = "return"
=============================================================================
