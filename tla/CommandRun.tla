---------------------------- MODULE CommandRun ----------------------------
(***************************************************************************)
(* What running a command promises, with no dead list, no signal handler   *)
(* and no polling: a foreground job is a sequence of processes, the shell  *)
(* waits until all of them have ended, and the answer is the status the    *)
(* job's first entry (the last command of the pipeline) ended with.        *)
(* ForegroundWait is shown to implement this.                              *)
(***************************************************************************)
EXTENDS Integers, Sequences

CONSTANTS
    Pids,        \* the processes the shell may start
    Fates,       \* how a process may end
    Signalled,   \* those that mean: killed by a signal
    Interrupts   \* the user may interrupt a wait

VARIABLES
    fate,        \* "unborn", "running", or how the process ended
    phase,       \* "idle", "starting", "waiting", "answered" or "lost"
    job,         \* the current foreground job
    jobControl,  \* the -m option, fixed
    answer       \* the answer, while phase = "answered"

vars == <<fate, phase, job, jobControl, answer>>

Init ==
    /\ fate   = [p \in Pids |-> "unborn"]
    /\ phase  = "idle"
    /\ job    = <<>>
    /\ answer = "none"
    /\ jobControl \in BOOLEAN

Ended(p) == fate[p] \notin {"unborn", "running"}

Start(p) == fate[p] = "unborn" /\ fate' = [fate EXCEPT ![p] = "running"]

End(p) ==
    /\ fate[p] = "running"
    /\ \E f \in Fates : fate' = [fate EXCEPT ![p] = f]
    /\ UNCHANGED <<phase, job, jobControl, answer>>

Background(p) ==
    /\ phase = "idle" /\ Start(p)
    /\ UNCHANGED <<phase, job, jobControl, answer>>

Foreground(p) ==
    /\ phase \in {"idle", "starting"} /\ Start(p)
    /\ phase' = "starting"
    /\ job'   = IF phase = "idle" THEN <<p>> ELSE Append(job, p)
    /\ UNCHANGED <<jobControl, answer>>

Wait ==
    /\ phase = "starting" /\ phase' = "waiting"
    /\ UNCHANGED <<fate, job, jobControl, answer>>

\* Under job control a process killed by a signal ends the wait.  The signal
\* need not be the awaited job's: the dead list may have mixed up two children.
Signal == jobControl /\ \E p \in Pids : fate[p] \in Signalled

Over == Signal \/ \A n \in DOMAIN job : Ended(job[n])

Answer ==
    /\ phase = "waiting" /\ Over /\ Ended(job[1])
    /\ phase'  = "answered"
    /\ answer' = fate[job[1]]
    /\ UNCHANGED <<fate, job, jobControl>>

GiveUp ==
    /\ phase = "waiting" /\ Interrupts
    /\ phase'  = "answered"
    /\ answer' = "interrupted"
    /\ UNCHANGED <<fate, job, jobControl>>

\* Job control passes the signal on to the shell, which may die of it.
Lose ==
    /\ phase = "waiting" /\ Signal
    /\ phase' = "lost"
    /\ UNCHANGED <<fate, job, jobControl, answer>>

Resume ==
    /\ phase = "answered" /\ phase' = "idle" /\ answer' = "none"
    /\ UNCHANGED <<fate, job, jobControl>>

Next == \/ \E p \in Pids : End(p) \/ Background(p) \/ Foreground(p)
        \/ Wait \/ Answer \/ GiveUp \/ Lose \/ Resume

Spec == Init /\ [][Next]_vars
=============================================================================
